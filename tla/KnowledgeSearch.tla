---------------------------- MODULE KnowledgeSearch ---------------------------
(***************************************************************************)
(* What holds between the lists, the collections and the texts as long as  *)
(* handlers neither fail nor get in each other's way: history variables    *)
(* keep the handlers that another one has disturbed, and the pairs of a    *)
(* knowledge base and a file that are in doubt since then, until a request *)
(* that answers for them is done undisturbed.                              *)
(***************************************************************************)
EXTENDS KnowledgeFiles

VARIABLES
  touched,  \* handlers that began when another one was at work on the same, or
            \* since whose start another has changed what they work on
  doubt,    \* (knowledge base, file): list and collection may disagree
  stale,    \* (knowledge base, file): the collection may have another text
  unsure    \* files whose row and own collection may have different texts

history == <<touched, doubt, stale, unsure>>

InitH == Init /\ touched = {} /\ doubt = {} /\ stale = {} /\ unsure = {}

Sweeps(h) == job[h].op \in {"list", "reindex", "wipe"}
WorksOnKb(h, k) == job[h].kb = k \/ Sweeps(h)
WorksOnFile(h, f) == job[h].file = f \/ Sweeps(h) \/ f \in job[h].batch
Indexed(k, f) == \E v \in vectors[k] : v.file = f
\* Requests that bring a file a new text.
BringsText(h) == job[h].op \in {"given", "extract", "table", "embedBatch"}

\* The step was one of h. Of a handler that the loop runs at once there is no h.
Moves(h) == job'[h] # job[h] \/ (h = Loop /\ plan' # plan)
Begins(h) == Is(h, "idle") /\ ~ Is(h, "idle")'
Ended(h) == ~ Is(h, "idle") /\ Is(h, "idle")'

Touches ==
  {h \in Handler : ~ Is(h, "idle") /\ ~ Moves(h)
     /\ \/ \E k \in Kb : WorksOnKb(h, k) /\ (kb'[k] # kb[k] \/ vectors'[k] # vectors[k])
        \/ \E f \in File : WorksOnFile(h, f) /\ (file'[f] # file[f] \/ pages'[f] # pages[f])}

Meets ==
  {h \in Handler : Begins(h) /\ \E g \in Handler \ {h} : ~ Is(g, "idle")
     /\ \/ \E k \in Kb : WorksOnKb(h, k)' /\ WorksOnKb(g, k)
        \/ \E f \in File : WorksOnFile(h, f)' /\ WorksOnFile(g, f)}

\* The pairs a handler answers for when it ends well, ...
AnswersFor(h) ==
  CASE job[h].op \in {"add", "update", "remove"} -> {<<job[h].kb, job[h].file>>}
    [] job[h].op \in {"reset", "delete"} -> {job[h].kb} \X File
    [] job[h].op = "reindex" -> {k \in Kb : Exists(k)} \X File
    [] job[h].op = "wipe" -> Kb \X File
    [] OTHER -> {}
\* ... those it leaves in doubt when it fails or has been disturbed, ...
LeavesInDoubt(h) ==
  IF h \in touched
    THEN {k \in Kb : WorksOnKb(h, k)} \X File
    ELSE {k \in Kb : WorksOnKb(h, k)}
           \X {f \in File : WorksOnFile(h, f) \/ job[h].file = NoFile}
\* ... and those that a request which embeds files without a look at the list
\* leaves so when the files are not listed, or are no more.
LeavesUnlisted(h) ==
  IF job[h].op \in {"update", "given", "embed", "embedBatch"}
    THEN {pair \in {job[h].kb} \X ({job[h].file} \cup job[h].batch) :
            pair[1] \in Kb /\ pair[2] \in File
            /\ ~ (pair[2] \in kb[pair[1]].files /\ There(pair[2]))}
    ELSE {}
EndsWell(h) == Ended(h) /\ outcome' = "clean" /\ h \notin touched
EndsBadly(h) == Ended(h) /\ ~ EndsWell(h)

Well == {h \in Handler : EndsWell(h)}
Badly == {h \in Handler : EndsBadly(h)}

\* Rows come and go under lists and vectors; a form lists files that are not
\* embedded, and unlists others; and handlers list files that have no text.
Orphaned ==
  {pair \in Kb \X File : LET k == pair[1] f == pair[2] IN
     \/ (There(f) <=> ~ There(f)') /\ (Indexed(k, f) \/ f \in kb[k].files)
     \/ (\A h \in Handler : ~ Moves(h)) /\ ~ (f \in kb'[k].files <=> f \in kb[k].files)
     \/ f \in kb'[k].files \ kb[k].files /\ file[f].content = NoContent}
\* A text changes under what has been embedded of it, or an unsure one is.
Retexted ==
  {pair \in Kb \X File : LET k == pair[1] f == pair[2] IN
     \/ file'[f].content # file[f].content /\ Indexed(k, f)
     \/ f \in unsure /\ Indexed(k, f)'}

\* The row of a file and its own collection have the same text again, or may
\* have different ones from now on: a text that is extracted does not replace
\* what the collection has.
Accords(h, f) ==
  /\ EndsWell(h) /\ job[h].file = f
  /\ job[h].op = "given" \/ (job[h].op = "extract" /\ pages[f] = NoContent)
Splits(h, f) ==
  /\ Ended(h) /\ WorksOnFile(h, f) /\ ~ Accords(h, f)
  /\ BringsText(h) \/ h \in touched

Rebuilds == {"update", "reindex", "reset", "delete", "remove", "wipe"}

NextH ==
  /\ Next
  /\ touched' = {h \in touched \cup Touches \cup Meets : ~ Is(h, "idle")'}
  /\ doubt' = (doubt \ UNION {AnswersFor(h) : h \in Well})
                \cup Orphaned \cup (UNION {LeavesInDoubt(h) : h \in Badly})
                \cup (UNION {LeavesUnlisted(h) : h \in Well})
  /\ stale' =
       {pair \in (stale \ UNION {AnswersFor(h) : h \in {g \in Well : job[g].op \in Rebuilds}})
                   \cup Retexted \cup (UNION {LeavesInDoubt(h) : h \in Badly}) :
          Indexed(pair[1], pair[2])'}
  /\ unsure' =
       {f \in File : /\ pages'[f] # NoContent
                     /\ \/ f \in unsure /\ \A h \in Handler : ~ Accords(h, f)
                        \/ \E h \in Handler : Splits(h, f)}

SpecH == InitH /\ [][NextH]_<<vars, history>>

----------------------------------------------------------------------------

Busy(k) == \E h \in Handler : WorksOnKb(h, k)

\* A file that a knowledge base lists, and that has a text, is found by a
\* search in it.
ListedIsSearchable ==
  \A k \in Kb : \A f \in kb[k].files \ Tabular :
    There(f) /\ file[f].content # NoContent /\ ~ Busy(k) /\ <<k, f>> \notin doubt
      => Indexed(k, f)

\* A search in a knowledge base finds nothing of a file that it does not list,
\* or that is gone.
UnlistedIsUnsearchable ==
  \A k \in Kb : \A v \in vectors[k] :
    ~ Busy(k) /\ <<k, v.file>> \notin doubt => v.file \in kb[k].files /\ There(v.file)

\* What a search finds of a file that has a row is the text of the row.
SearchServesCurrent ==
  \A k \in Kb : \A v \in vectors[k] :
    There(v.file) /\ ~ Busy(k) /\ <<k, v.file>> \notin stale => v.text = file[v.file].content

\* A search finds the files that the knowledge base lists, with their texts,
\* and no others.
SearchMatchesList == ListedIsSearchable /\ UnlistedIsUnsearchable /\ SearchServesCurrent

\* The text of a file is changed only by requests that bring it a new one: a
\* handler that writes back the text it has read changes it only if it was
\* disturbed.
TextChangedByEdits ==
  [][\A f \in File :
       There(f) /\ There(f)' /\ file'[f].content # file[f].content
         => \E h \in Handler : Moves(h) /\ (BringsText(h) \/ h \in touched)]_vars
=============================================================================
