-------------------------- MODULE KnowledgeFilesProofs --------------------------
(***************************************************************************)
(* Proofs about KnowledgeFiles and KnowledgeSearch: the types of the       *)
(* stores and of the handlers' local variables; and that only requests with a *)
(* new text, or handlers that others have disturbed, change a file's text. *)
(***************************************************************************)
EXTENDS KnowledgeSearch, TLAPS

\* What is in the stores, ...
StoresTyped ==
  /\ file \in [File -> [row: Row, content: Text]]
  /\ pages \in [File -> Page]
  /\ kb \in [Kb -> [row: Row, bare: BOOLEAN, files: SUBSET File]]
  /\ vectors \in [Kb -> SUBSET Vector]
  /\ requests \in 0 .. MaxRequests /\ outcome \in {"none", "clean", "failed"}
  /\ plan \in [todo: SUBSET Kb, bare: SUBSET Kb, files: [Kb -> SUBSET File]]
  /\ \A f \in File : There(f) \/ file[f].content = NoContent

\* ... and what a handler has in hand at each point: a file to embed, with a
\* text once it is inserted; a file to remove; a list to write.
Shares == {"embed", "add", "update", "reindex"}
Brings == {"given", "extract"}
Embeds == Brings \cup Shares
Batches == {"batch", "embedBatch"}

\* What is at each place of process_file; ...
EmbedOk(j) ==
  /\ j.pc \in {"read", "query", "drop", "extract", "check"} => j.op \in Embeds
  /\ j.pc = "query" => j.op \in Shares
  /\ j.pc = "drop" => j.op = "given"
  /\ j.pc = "extract" => j.op = "extract"
  /\ j.op = "given" => j.content \in Content
  /\ j.op = "extract" => j.kb = NoKb
  /\ j.op \in Shares /\ (j.pc # "each" \/ j.todo # {}) => j.kb \in Kb
  /\ j.pc \in {"read", "each", "clear"} => j.text = NoContent /\ (j.op # "given" => j.content = NoContent)
  /\ j.op \in Brings /\ j.pc \in {"store", "check", "insert"} => j.text = j.content
  /\ j.op \in Embeds /\ j.pc = "insert" => j.text # NoContent /\ j.content # Table

\* ... of a batch; ...
BatchOk(j) ==
  /\ j.pc \in {"store", "insert"} => j.op \in Embeds \cup Batches
  /\ j.op \in Batches /\ j.pc \in {"store", "insert"} =>
       /\ j.todo \subseteq j.batch
       /\ \A f \in j.batch \ j.todo : j.texts[f] # Table
       /\ j.kb \in Kb
  /\ j.op \in Batches /\ j.pc = "insert" => j.todo = {}

\* ... and in the handlers of knowledge bases.
PlaceOk(j) ==
  /\ j.op \in Embeds \cup {"table"} /\ j.pc # "each" => j.file \in File
  /\ j.pc = "table" => j.op = "table"
  /\ j.pc = "clear" => j.op = "update"
  /\ j.pc \in {"unindex", "unfile", "row"} => j.op = "remove"
  /\ j.pc = "write" => j.op \in {"add", "remove", "batch"}
  /\ j.op = "remove" => j.file \in File
  /\ j.pc = "each" => j.op \in {"list", "reindex"}
  /\ j.pc \in {"wipe", "wipeRows"} => j.op = "wipe"

HandOk(j) == EmbedOk(j) /\ BatchOk(j) /\ PlaceOk(j)

\* The files a handler has in hand were uploaded.
Uploaded(j) ==
  /\ j.file # NoFile => file[j.file].row # "new"
  /\ \A f \in j.todo : file[f].row # "new"

KnowledgeInv ==
  /\ StoresTyped
  /\ job \in [Handler -> Job]
  /\ \A h \in Handler : HandOk(job[h]) /\ Uploaded(job[h])

LEMMA InvType == KnowledgeInv => TypeOK
BY DEF KnowledgeInv, StoresTyped, Uploaded, TypeOK

LEMMA Shapes ==
  /\ Brings = {"given", "extract"} /\ Shares = {"embed", "add", "update", "reindex"}
  /\ Embeds = {"given", "extract", "embed", "add", "update", "reindex"}
  /\ Batches = {"batch", "embedBatch"}
BY DEF Brings, Shares, Embeds, Batches

LEMMA IdleOk == Idle \in Job /\ HandOk(Idle) /\ Idle.file = NoFile /\ Idle.todo = {}
<1>1. /\ Idle \in Job /\ Idle.op = "none" /\ Idle.pc = "idle" /\ Idle.file = NoFile
      /\ Idle.todo = {}
  BY DEF Idle, At, Job, Op, Pc, NoTexts, Text, Page
<1>. QED
  BY <1>1, Shapes DEF HandOk, EmbedOk, BatchOk, PlaceOk

\* Between two states no upload is undone.
Kept == \A f \in File : file[f].row # "new" => file'[f].row # "new"

\* A handler goes on.
LEMMA Moved ==
  ASSUME KnowledgeInv, StoresTyped', Kept, NEW h \in Handler, NEW j,
         j \in Job, HandOk(j), Uploaded(j)', job' = [job EXCEPT ![h] = j]
  PROVE  KnowledgeInv'
<1>1. job' \in [Handler -> Job]
  BY DEF KnowledgeInv
<1>2. ASSUME NEW g \in Handler
      PROVE  HandOk(job[g])' /\ Uploaded(job[g])'
  <2>1. CASE g = h
    <3>1. job'[g] = j
      BY <2>1 DEF KnowledgeInv
    <3>. QED
      BY <3>1 DEF HandOk, EmbedOk, BatchOk, PlaceOk, Uploaded
  <2>2. CASE g # h
    <3>1. job'[g] = job[g] /\ HandOk(job[g]) /\ Uploaded(job[g]) /\ job[g] \in Job
      BY <2>2 DEF KnowledgeInv
    <3>2. job[g].file \in File \cup {NoFile} /\ job[g].todo \subseteq File
      BY <3>1 DEF Job
    <3>. QED
      BY <3>1, <3>2 DEF HandOk, EmbedOk, BatchOk, PlaceOk, Uploaded, Kept
  <2>. QED
    BY <2>1, <2>2
<1>. QED
  BY <1>1, <1>2 DEF KnowledgeInv

\* A handler ends.
LEMMA Returned ==
  ASSUME KnowledgeInv, StoresTyped', Kept, NEW h \in Handler, job' = [job EXCEPT ![h] = Idle]
  PROVE  KnowledgeInv'
<1>1. Uploaded(Idle)'
  BY IdleOk DEF Uploaded
<1>. QED
  BY <1>1, IdleOk, Moved

LEMMA StillUploaded ==
  ASSUME KnowledgeInv, Kept, NEW h \in Handler, NEW j,
         j.file = job[h].file, j.todo \subseteq job[h].todo
  PROVE  Uploaded(j)'
<1>1. job[h] \in Job /\ Uploaded(job[h])
  BY DEF KnowledgeInv
<1>2. job[h].file \in File \cup {NoFile} /\ job[h].todo \subseteq File
  BY <1>1 DEF Job
<1>. QED
  BY <1>1, <1>2 DEF Uploaded, Kept

\* A handler goes on with what it has in hand.
LEMMA GoesOn ==
  ASSUME KnowledgeInv, StoresTyped', Kept, NEW h \in Handler, NEW j,
         j \in Job, HandOk(j), j.file = job[h].file, j.todo \subseteq job[h].todo,
         Goto(h, j)
  PROVE  KnowledgeInv'
BY StillUploaded, Moved DEF Goto

\* What a handler has in hand at another place.
Goes(j, h, pc) ==
  /\ j.op = job[h].op /\ j.pc = pc /\ j.kb = job[h].kb /\ j.file = job[h].file
  /\ j.todo = job[h].todo /\ j.batch = job[h].batch /\ j.texts = job[h].texts
  /\ j.content = job[h].content /\ j.text = job[h].text

LEMMA GoesTo ==
  ASSUME KnowledgeInv, StoresTyped', Kept, NEW h \in Handler, NEW pc \in Pc,
         GotoPc(h, pc) \/ GotoUnclean(h, pc),
         \A j : Goes(j, h, pc) => HandOk(j)
  PROVE  KnowledgeInv'
<1>1. job[h] \in Job
  BY DEF KnowledgeInv
<1>2. CASE GotoPc(h, pc)
  <2>j. PICK j : j = [job[h] EXCEPT !.pc = pc]
    OBVIOUS
  <2>1. j \in Job /\ Goes(j, h, pc) /\ j.file = job[h].file /\ j.todo = job[h].todo
    BY <1>1, <2>j DEF Job, Goes
  <2>. QED
    BY <1>2, <2>j, <2>1, GoesOn DEF GotoPc
<1>3. CASE GotoUnclean(h, pc)
  <2>j. PICK j : j = [job[h] EXCEPT !.pc = pc, !.clean = FALSE]
    OBVIOUS
  <2>1. j \in Job /\ Goes(j, h, pc) /\ j.file = job[h].file /\ j.todo = job[h].todo
    BY <1>1, <2>j DEF Job, Goes
  <2>. QED
    BY <1>3, <2>j, <2>1, GoesOn DEF GotoUnclean
<1>. QED
  BY <1>2, <1>3

LEMMA Finished ==
  ASSUME KnowledgeInv, StoresTyped', Kept, NEW h \in Handler, NEW result, Ends(h, result)
  PROVE  KnowledgeInv'
BY Returned DEF Ends

\* What the outcome of a step can be.
LEMMA OutcomeTyped ==
  ASSUME NEW h \in Handler,
         \/ \E j : Goto(h, j)
         \/ \E pc : GotoPc(h, pc) \/ GotoUnclean(h, pc)
         \/ Done(h) \/ Failed(h) \/ Raised(h) \/ Processed(h)
  PROVE  outcome' \in {"none", "clean", "failed"}
<1>1. ASSUME Done(h) \/ Failed(h) PROVE outcome' \in {"none", "clean", "failed"}
  BY <1>1 DEF Done, Failed, Ends
<1>2. ASSUME \E j : Goto(h, j) PROVE outcome' \in {"none", "clean", "failed"}
  BY <1>2 DEF Goto
<1>3. Raised(h) => Failed(h) \/ \E j : Goto(h, j)
  BY DEF Raised
<1>4. Processed(h) => Done(h) \/ \E j : Goto(h, j)
  <2>1. CASE job[h].op = "add"
    BY <2>1 DEF Processed
  <2>2. CASE job[h].op = "reindex"
    BY <2>2 DEF Processed
  <2>3. CASE job[h].op \notin {"add", "reindex"}
    BY <2>3 DEF Processed
  <2>. QED
    BY <2>1, <2>2, <2>3
<1>. QED
  BY <1>1, <1>2, <1>3, <1>4 DEF GotoPc, GotoUnclean

\* What stays typed when the stores, or all but one of them, are left alone.
LEMMA Alone ==
  ASSUME KnowledgeInv, UNCHANGED <<stores, plan, requests>>,
         outcome' \in {"none", "clean", "failed"}
  PROVE  StoresTyped' /\ Kept
BY DEF KnowledgeInv, StoresTyped, stores, Kept, There

LEMMA RestJob ==
  ASSUME KnowledgeInv, NEW h \in Handler, NEW pc \in Pc, NEW j,
         j = Rest(h, pc) \/ j = [Rest(h, pc) EXCEPT !.clean = FALSE]
  PROVE  /\ j \in Job /\ j.op = job[h].op /\ j.pc = pc /\ j.kb = job[h].kb
         /\ j.file = job[h].file /\ j.todo = job[h].todo
         /\ j.content = NoContent /\ j.text = NoContent
BY DEF KnowledgeInv, Rest, Job, Text, Page

LEMMA Raises ==
  ASSUME KnowledgeInv, StoresTyped', Kept, NEW h \in Handler, Raised(h)
  PROVE  KnowledgeInv'
<1>1. CASE job[h].op = "reindex"
  <2>j. PICK j : j = [Rest(h, "each") EXCEPT !.clean = FALSE]
    OBVIOUS
  <2>2. /\ j \in Job /\ j.op = "reindex" /\ j.pc = "each" /\ j.file = job[h].file
        /\ j.todo = job[h].todo /\ j.content = NoContent /\ j.text = NoContent
        /\ j.kb = job[h].kb /\ HandOk(job[h])
    BY <1>1, <2>j, RestJob DEF Pc, KnowledgeInv
  <2>3. HandOk(j)
    BY <1>1, <2>2, Shapes DEF HandOk, EmbedOk, BatchOk, PlaceOk
  <2>4. Goto(h, j)
    BY <1>1, <2>j DEF Raised
  <2>. QED
    BY <2>2, <2>3, <2>4, GoesOn
<1>2. CASE job[h].op # "reindex"
  BY <1>2, Finished DEF Raised, Failed
<1>. QED
  BY <1>1, <1>2

LEMMA Proceeds ==
  ASSUME KnowledgeInv, StoresTyped', Kept, NEW h \in Handler, Processed(h),
         Is(h, "insert"), job[h].op \in Embeds
  PROVE  KnowledgeInv'
<1>0. job[h] \in Job /\ HandOk(job[h])
  BY DEF KnowledgeInv
<1>1. CASE job[h].op = "add"
  <2>j. PICK j : j = Rest(h, "write")
    OBVIOUS
  <2>1. /\ j \in Job /\ j.op = "add" /\ j.pc = "write" /\ j.file = job[h].file /\ j.kb = job[h].kb
        /\ j.todo = job[h].todo /\ j.content = NoContent /\ j.text = NoContent
    BY <1>1, <2>j, RestJob DEF Pc
  <2>2. HandOk(j)
    BY <1>0, <1>1, <2>1, Shapes DEF HandOk, EmbedOk, BatchOk, PlaceOk, Is
  <2>3. Goto(h, j)
    BY <1>1, <2>j DEF Processed
  <2>. QED
    BY <2>1, <2>2, <2>3, GoesOn
<1>2. CASE job[h].op = "reindex"
  <2>j. PICK j : j = Rest(h, "each")
    OBVIOUS
  <2>1. /\ j \in Job /\ j.op = "reindex" /\ j.pc = "each" /\ j.file = job[h].file
        /\ j.kb = job[h].kb /\ j.todo = job[h].todo /\ j.content = NoContent /\ j.text = NoContent
    BY <1>2, <2>j, RestJob DEF Pc
  <2>2. HandOk(j)
    BY <1>0, <1>2, <2>1, Shapes DEF HandOk, EmbedOk, BatchOk, PlaceOk
  <2>3. Goto(h, j)
    BY <1>2, <2>j DEF Processed
  <2>. QED
    BY <2>1, <2>2, <2>3, GoesOn
<1>3. CASE job[h].op \notin {"add", "reindex"}
  BY <1>3, Finished DEF Processed, Done
<1>. QED
  BY <1>1, <1>2, <1>3

----------------------------------------------------------------------------
(* The steps of process_file *)

LEMMA ReadFileType ==
  ASSUME KnowledgeInv, NEW h \in Handler, ReadFile(h)
  PROVE  KnowledgeInv'
<1>0. job[h] \in Job /\ HandOk(job[h]) /\ job[h].pc = "read"
  BY DEF KnowledgeInv, ReadFile, Is
<1>s. UNCHANGED <<stores, plan, requests>>
  BY DEF ReadFile
<1>1. CASE Raised(h)
  BY <1>s, <1>1, Alone, OutcomeTyped, Raises
<1>2. CASE job[h].content # NoContent /\ GotoPc(h, "drop")
  <2>1. StoresTyped' /\ Kept
    BY <1>s, <1>2, Alone, OutcomeTyped
  <2>2. job[h].op = "given"
    BY <1>0, <1>2, Shapes DEF HandOk, EmbedOk
  <2>3. \A j : Goes(j, h, "drop") => HandOk(j)
    BY <1>0, <2>2, Shapes DEF Goes, HandOk, EmbedOk, BatchOk, PlaceOk
  <2>4. "drop" \in Pc
    BY DEF Pc
  <2>. QED
    BY <1>2, <2>1, <2>3, <2>4, GoesTo
<1>3. CASE job[h].content = NoContent /\ OwnCollection(h) /\ GotoPc(h, "extract")
  <2>1. StoresTyped' /\ Kept
    BY <1>s, <1>3, Alone, OutcomeTyped
  <2>2. job[h].op = "extract"
    BY <1>0, <1>3, Shapes, ConstantsAssumption DEF HandOk, EmbedOk, OwnCollection
  <2>3. \A j : Goes(j, h, "extract") => HandOk(j)
    BY <1>0, <2>2, Shapes DEF Goes, HandOk, EmbedOk, BatchOk, PlaceOk
  <2>4. "extract" \in Pc
    BY DEF Pc
  <2>. QED
    BY <1>3, <2>1, <2>3, <2>4, GoesTo
<1>4. CASE /\ job[h].content = NoContent /\ ~ OwnCollection(h)
           /\ Goto(h, [job[h] EXCEPT !.pc = "query", !.content = file[job[h].file].content])
  <2>j. PICK j : j = [job[h] EXCEPT !.pc = "query", !.content = file[job[h].file].content]
    OBVIOUS
  <2>2. StoresTyped' /\ Kept
    BY <1>s, <1>4, Alone, OutcomeTyped
  <2>3. job[h].op \in Shares /\ job[h].file \in File
    BY <1>0, <1>4, Shapes, ConstantsAssumption DEF HandOk, EmbedOk, PlaceOk, OwnCollection
  <2>4. file[job[h].file].content \in Text
    BY <2>3 DEF KnowledgeInv, StoresTyped
  <2>5. /\ j \in Job /\ j.op = job[h].op /\ j.pc = "query" /\ j.kb = job[h].kb
        /\ j.file = job[h].file /\ j.todo = job[h].todo
    BY <1>0, <2>j, <2>4 DEF Job, Pc
  <2>6. HandOk(j)
    BY <1>0, <2>3, <2>5, Shapes DEF HandOk, EmbedOk, BatchOk, PlaceOk
  <2>. QED
    BY <1>4, <2>j, <2>2, <2>5, <2>6, GoesOn
<1>. QED
  BY <1>1, <1>2, <1>3, <1>4 DEF ReadFile

LEMMA QueryPagesType ==
  ASSUME KnowledgeInv, NEW h \in Handler, QueryPages(h)
  PROVE  KnowledgeInv'
<1>0. job[h] \in Job /\ HandOk(job[h]) /\ job[h].pc = "query"
  BY DEF KnowledgeInv, QueryPages, Is
<1>s. UNCHANGED <<stores, plan, requests>>
  BY DEF QueryPages
<1>1. job[h].file \in File /\ job[h].op \in Shares /\ job[h].content \in Text /\ job[h].kb \in Kb
  BY <1>0, Shapes DEF HandOk, EmbedOk, PlaceOk, Job
<1>2. pages[job[h].file] \in Page
  BY <1>1 DEF KnowledgeInv, StoresTyped
<1>3. CASE Raised(h)
  BY <1>s, <1>3, Alone, OutcomeTyped, Raises
<1>4. ASSUME NEW text \in Page, Goto(h, [job[h] EXCEPT !.pc = "store", !.text = text])
      PROVE  KnowledgeInv'
  <2>j. PICK j : j = [job[h] EXCEPT !.pc = "store", !.text = text]
    OBVIOUS
  <2>1. StoresTyped' /\ Kept
    BY <1>s, <1>4, Alone, OutcomeTyped
  <2>2. /\ j \in Job /\ j.op = job[h].op /\ j.pc = "store" /\ j.kb = job[h].kb
        /\ j.file = job[h].file /\ j.todo = job[h].todo
    BY <1>0, <2>j DEF Job, Pc
  <2>3. HandOk(j)
    BY <1>1, <2>2, Shapes DEF HandOk, EmbedOk, BatchOk, PlaceOk
  <2>. QED
    BY <1>4, <2>j, <2>1, <2>2, <2>3, GoesOn
<1>. QED
  BY <1>1, <1>2, <1>3, <1>4 DEF QueryPages, Text

LEMMA DropPagesType ==
  ASSUME KnowledgeInv, NEW h \in Handler, DropPages(h)
  PROVE  KnowledgeInv'
<1>0. job[h] \in Job /\ HandOk(job[h]) /\ job[h].pc = "drop"
  BY DEF KnowledgeInv, DropPages, Is
<1>1. job[h].file \in File /\ job[h].op = "given" /\ job[h].content \in Content
  BY <1>0, Shapes DEF HandOk, EmbedOk, PlaceOk
<1>2. PICK j : /\ \/ j = [job[h] EXCEPT !.pc = "store", !.text = job[h].content]
                  \/ j = [job[h] EXCEPT !.pc = "store", !.text = job[h].content, !.clean = FALSE]
               /\ Goto(h, j)
  BY DEF DropPages
<1>3. /\ j \in Job /\ j.op = "given" /\ j.pc = "store" /\ j.text = j.content /\ j.content \in Content
      /\ j.file = job[h].file /\ j.todo = job[h].todo
  BY <1>0, <1>1, <1>2 DEF Job, Pc, Page
<1>4. HandOk(j)
  BY <1>1, <1>3, Shapes DEF HandOk, EmbedOk, BatchOk, PlaceOk
<1>5. StoresTyped' /\ Kept
  <2>1. outcome' = "none"
    BY <1>2 DEF Goto
  <2>2. pages' \in [File -> Page]
    BY <1>1 DEF DropPages, KnowledgeInv, StoresTyped, Page
  <2>. QED
    BY <2>1, <2>2 DEF DropPages, KnowledgeInv, StoresTyped, Kept, There
<1>. QED
  BY <1>2, <1>3, <1>4, <1>5, GoesOn

LEMMA ExtractType ==
  ASSUME KnowledgeInv, NEW h \in Handler, Extract(h)
  PROVE  KnowledgeInv'
<1>0. job[h] \in Job /\ HandOk(job[h]) /\ job[h].pc = "extract"
  BY DEF KnowledgeInv, Extract, Is
<1>s. UNCHANGED <<stores, plan, requests>>
  BY DEF Extract
<1>1. job[h].file \in File /\ job[h].op = "extract" /\ job[h].kb = NoKb
  BY <1>0, Shapes DEF HandOk, EmbedOk, PlaceOk
<1>2. CASE Raised(h)
  BY <1>s, <1>2, Alone, OutcomeTyped, Raises
<1>3. ASSUME NEW c \in Page, Goto(h, [job[h] EXCEPT !.pc = "store", !.content = c, !.text = c])
      PROVE  KnowledgeInv'
  <2>j. PICK j : j = [job[h] EXCEPT !.pc = "store", !.content = c, !.text = c]
    OBVIOUS
  <2>1. StoresTyped' /\ Kept
    BY <1>s, <1>3, Alone, OutcomeTyped
  <2>2. /\ j \in Job /\ j.op = "extract" /\ j.pc = "store" /\ j.kb = NoKb
        /\ j.file = job[h].file /\ j.todo = job[h].todo /\ j.text = c /\ j.content = c
    BY <1>0, <1>1, <2>j DEF Job, Pc, Text
  <2>3. HandOk(j)
    BY <1>1, <2>2, Shapes DEF HandOk, EmbedOk, BatchOk, PlaceOk
  <2>. QED
    BY <1>3, <2>j, <2>1, <2>2, <2>3, GoesOn
<1>. QED
  BY <1>2, <1>3 DEF Extract

\* What is written into the rows of files keeps them well formed.
LEMMA StoredType ==
  ASSUME KnowledgeInv, NEW f, NEW content \in Text, file' = Stored(f, content) \/ file' = file,
         UNCHANGED <<pages, kb, vectors, plan, requests>>,
         outcome' \in {"none", "clean", "failed"}
  PROVE  StoresTyped' /\ Kept
<1>1. file' \in [File -> [row: Row, content: Text]]
  BY DEF KnowledgeInv, StoresTyped, Stored
<1>2. \A g \in File : file'[g].row = file[g].row /\ (There(g) \/ file'[g] = file[g])
  BY DEF KnowledgeInv, StoresTyped, Stored, There
<1>. QED
  BY <1>1, <1>2 DEF KnowledgeInv, StoresTyped, Kept, There

LEMMA StoreTextType ==
  ASSUME KnowledgeInv, NEW h \in Handler, StoreText(h)
  PROVE  KnowledgeInv'
<1>0. job[h] \in Job /\ HandOk(job[h]) /\ job[h].pc = "store" /\ job[h].op \notin Batches
  BY Shapes DEF KnowledgeInv, StoreText, Is
<1>1. GotoPc(h, "check") \/ GotoUnclean(h, "check")
  BY DEF StoreText
<1>2. outcome' \in {"none", "clean", "failed"}
  BY <1>1, OutcomeTyped
<1>3. StoresTyped' /\ Kept
  BY <1>0, <1>2, StoredType DEF StoreText, Job
<1>4. job[h].op \in Embeds
  BY <1>0 DEF HandOk, BatchOk
<1>5. \A j : Goes(j, h, "check") => HandOk(j)
  BY <1>0, <1>4, Shapes DEF Goes, HandOk, EmbedOk, BatchOk, PlaceOk
<1>6. "check" \in Pc
  BY DEF Pc
<1>. QED
  BY <1>1, <1>3, <1>5, <1>6, GoesTo

LEMMA StoreTableType ==
  ASSUME KnowledgeInv, NEW h \in Handler, StoreTable(h)
  PROVE  KnowledgeInv'
<1>1. Done(h) \/ Failed(h)
  BY DEF StoreTable
<1>2. StoresTyped' /\ Kept
  BY <1>1, OutcomeTyped, StoredType DEF StoreTable, Text
<1>. QED
  BY <1>1, <1>2, Finished DEF Done, Failed

LEMMA CheckHashType ==
  ASSUME KnowledgeInv, NEW h \in Handler, CheckHash(h)
  PROVE  KnowledgeInv'
<1>0. job[h] \in Job /\ HandOk(job[h]) /\ job[h].pc = "check"
  BY DEF KnowledgeInv, CheckHash, Is
<1>s. UNCHANGED <<stores, plan, requests>>
  BY DEF CheckHash
<1>1. CASE Raised(h)
  BY <1>s, <1>1, Alone, OutcomeTyped, Raises
<1>2. CASE job[h].text # NoContent /\ job[h].content # Table /\ GotoPc(h, "insert")
  <2>1. StoresTyped' /\ Kept
    BY <1>s, <1>2, Alone, OutcomeTyped
  <2>2. job[h].op \in Embeds
    BY <1>0 DEF HandOk, EmbedOk
  <2>3. \A j : Goes(j, h, "insert") => HandOk(j)
    BY <1>0, <1>2, <2>2, Shapes DEF Goes, HandOk, EmbedOk, BatchOk, PlaceOk
  <2>4. "insert" \in Pc
    BY DEF Pc
  <2>. QED
    BY <1>2, <2>1, <2>3, <2>4, GoesTo
<1>. QED
  BY <1>1, <1>2 DEF CheckHash

LEMMA ChunkType ==
  ASSUME KnowledgeInv, NEW h \in Handler, Is(h, "insert"), job[h].op \notin Batches
  PROVE  /\ job[h].op \in Embeds /\ job[h].file \in File
         /\ job[h].text \in Content /\ job[h].content \in Page
         /\ Chunk(h) \in Vector
<1>0. job[h] \in Job /\ HandOk(job[h]) /\ job[h].pc = "insert"
  BY DEF KnowledgeInv, Is
<1>1. job[h].op \in Embeds /\ job[h].file \in File
  BY <1>0, Shapes DEF HandOk, BatchOk, PlaceOk
<1>2. job[h].text # NoContent /\ job[h].content # Table
  BY <1>0, <1>1 DEF HandOk, EmbedOk
<1>3. job[h].text \in Content /\ job[h].content \in Page
  BY <1>0, <1>2 DEF Job, Page, Text
<1>. QED
  BY <1>1, <1>3 DEF Chunk, Vector

LEMMA InsertType ==
  ASSUME KnowledgeInv, NEW h \in Handler, Insert(h)
  PROVE  KnowledgeInv'
<1>0. job[h] \in Job /\ HandOk(job[h]) /\ Is(h, "insert") /\ job[h].op \notin Batches
  BY Shapes DEF KnowledgeInv, Insert
<1>1. /\ job[h].op \in Embeds /\ job[h].file \in File
      /\ job[h].text \in Content /\ Chunk(h) \in Vector
  BY <1>0, ChunkType
<1>2. pages' \in [File -> Page]
  <2> DEFINE new == IF pages[job[h].file] = NoContent THEN job[h].text ELSE pages[job[h].file]
  <2>1. pages \in [File -> Page]
    BY DEF KnowledgeInv, StoresTyped
  <2>2. new \in Page
    BY <1>1, <2>1 DEF Page
  <2>3. pages' = pages \/ pages' = [pages EXCEPT ![job[h].file] = new]
    BY DEF Insert
  <2>. QED
    BY <2>1, <2>2, <2>3
<1>3. vectors' \in [Kb -> SUBSET Vector]
  <2>1. vectors' = vectors \/ vectors' = [vectors EXCEPT ![job[h].kb] = @ \cup {Chunk(h)}]
    BY DEF Insert
  <2>. QED
    BY <1>1, <2>1 DEF KnowledgeInv, StoresTyped
<1>4. Processed(h) \/ Raised(h)
  BY DEF Insert
<1>5. StoresTyped' /\ Kept
  BY <1>2, <1>3, <1>4, OutcomeTyped DEF Insert, KnowledgeInv, StoresTyped, Kept, There
<1>. QED
  BY <1>0, <1>1, <1>4, <1>5, Raises, Proceeds

----------------------------------------------------------------------------
(* Files *)

LEMMA AtJob ==
  ASSUME NEW op \in Op, NEW pc \in Pc, NEW k \in Kb \cup {NoKb}, NEW f \in File \cup {NoFile}
  PROVE  /\ At(op, pc, k, f) \in Job
         /\ At(op, pc, k, f).op = op /\ At(op, pc, k, f).pc = pc
         /\ At(op, pc, k, f).file = f /\ At(op, pc, k, f).todo = {}
         /\ At(op, pc, k, f).kb = k /\ At(op, pc, k, f).batch = {}
         /\ At(op, pc, k, f).content = NoContent /\ At(op, pc, k, f).text = NoContent
BY DEF At, Job, NoTexts, Text, Page

LEMMA CountedType ==
  ASSUME KnowledgeInv, Counted
  PROVE  requests' \in 0 .. MaxRequests
BY ConstantsAssumption DEF KnowledgeInv, StoresTyped, Counted

\* A handler begins.
LEMMA Begun ==
  ASSUME KnowledgeInv, NEW h \in Handler, NEW j, j \in Job, HandOk(j), Uploaded(j),
         Starts(h, j), UNCHANGED stores
  PROVE  KnowledgeInv'
<1>1. StoresTyped' /\ Kept
  BY CountedType DEF Starts, Goto, KnowledgeInv, StoresTyped, stores, Kept, There
<1>2. Uploaded(j)'
  BY DEF Uploaded, stores
<1>. QED
  BY <1>1, <1>2, Moved DEF Starts, Goto

LEMMA ProcessingJob ==
  ASSUME NEW k \in Kb \cup {NoKb}, NEW f \in File, NEW c \in Page, NEW j, j = Processing(k, f, c)
  PROVE  /\ j \in Job /\ j.pc = "read" /\ j.kb = k /\ j.file = f /\ j.todo = {} /\ j.batch = {}
         /\ j.content = c /\ j.text = NoContent
         /\ j.op = IF c # NoContent THEN "given" ELSE IF k = NoKb THEN "extract" ELSE "embed"
         /\ HandOk(j)
<1>o. PICK op : op = IF c # NoContent THEN "given" ELSE IF k = NoKb THEN "extract" ELSE "embed"
  OBVIOUS
<1>i. PICK i : i = At(op, "read", k, f)
  OBVIOUS
<1>1. /\ i \in Job /\ i.pc = "read" /\ i.kb = k /\ i.file = f /\ i.todo = {} /\ i.op = op
      /\ i.batch = {} /\ i.text = NoContent
  <2>0. op \in Op /\ "read" \in Pc /\ f \in File \cup {NoFile}
    BY <1>o DEF Op, Pc
  <2>1. At(op, "read", k, f) \in Job
    BY <2>0, AtJob
  <2>2. i.op = op /\ i.pc = "read" /\ i.kb = k /\ i.file = f
    BY <2>0, <1>i, AtJob
  <2>3. i.todo = {} /\ i.batch = {} /\ i.text = NoContent
    BY <1>i DEF At
  <2>. QED
    BY <2>1, <2>2, <2>3, <1>i
<1>2. j = [i EXCEPT !.content = c]
  BY <1>o, <1>i DEF Processing
<1>3. /\ j \in Job /\ j.pc = "read" /\ j.kb = k /\ j.file = f /\ j.todo = {} /\ j.op = op
      /\ j.batch = {} /\ j.content = c /\ j.text = NoContent
  BY <1>1, <1>2 DEF Job, Text
<1>4. HandOk(j)
  BY <1>o, <1>3, Shapes, ConstantsAssumption DEF HandOk, EmbedOk, BatchOk, PlaceOk, Page
<1>. QED
  BY <1>o, <1>3, <1>4

LEMMA ProcessFileType ==
  ASSUME KnowledgeInv, NEW h \in Thread, NEW k \in Kb \cup {NoKb}, NEW f \in File, NEW c \in Page,
         ProcessFile(h, k, f, c)
  PROVE  KnowledgeInv'
<1>j. PICK j : j = Processing(k, f, c)
  OBVIOUS
<1>1. j \in Job /\ HandOk(j) /\ j.file = f /\ j.todo = {}
  BY <1>j, ProcessingJob
<1>2. Uploaded(j)
  BY <1>1 DEF Uploaded, ProcessFile, Known
<1>. QED
  BY <1>j, <1>1, <1>2, Begun DEF ProcessFile, Handler

LEMMA UploadType ==
  ASSUME KnowledgeInv, NEW h \in Handler, NEW f \in File, NEW c \in Page, Upload(h, f, c)
  PROVE  KnowledgeInv'
<1>1. file' = [file EXCEPT ![f].row = "there"]
  BY DEF Upload
<1>2. /\ file' \in [File -> [row: Row, content: Text]] /\ file'[f].row = "there"
      /\ \A g \in File : g # f => file'[g] = file[g]
  BY <1>1 DEF KnowledgeInv, StoresTyped, Row
<1>3. outcome' = "none"
  BY DEF Upload, Goto
<1>4. StoresTyped' /\ Kept
  BY <1>2, <1>3, CountedType DEF Upload, KnowledgeInv, StoresTyped, There, Kept
<1>5. CASE job' = job
  <2>1. \A g \in Handler : Uploaded(job[g])'
    BY <1>4, <1>5, StillUploaded DEF KnowledgeInv
  <2>. QED
    BY <1>4, <1>5, <2>1 DEF KnowledgeInv, HandOk, EmbedOk, BatchOk, PlaceOk
<1>6. ASSUME NEW j \in Job, HandOk(j), j.file = f, j.todo = {}, Goto(h, j)
      PROVE  KnowledgeInv'
  <2>1. Uploaded(j)'
    BY <1>2, <1>6 DEF Uploaded
  <2>. QED
    BY <1>4, <1>6, <2>1, Moved DEF Goto
<1>7. CASE Goto(h, At("table", "table", NoKb, f))
  <2>j. PICK j : j = At("table", "table", NoKb, f)
    OBVIOUS
  <2>0. "table" \in Op /\ "table" \in Pc
    BY DEF Op, Pc
  <2>1. j \in Job /\ j.op = "table" /\ j.pc = "table" /\ j.file = f /\ j.todo = {}
    BY <2>0, <2>j, AtJob
  <2>2. HandOk(j)
    BY <2>1, Shapes DEF HandOk, EmbedOk, BatchOk, PlaceOk
  <2>. QED
    BY <1>6, <1>7, <2>j, <2>1, <2>2
<1>8. CASE Goto(h, Processing(NoKb, f, c))
  BY <1>6, <1>8, ProcessingJob
<1>. QED
  BY <1>5, <1>7, <1>8 DEF Upload

LEMMA EditContentType ==
  ASSUME KnowledgeInv, NEW f \in File, NEW c \in Page, EditContent(f, c)
  PROVE  KnowledgeInv'
<1>j. PICK j : j = Processing(NoKb, f, c)
  OBVIOUS
<1>1. j \in Job /\ HandOk(j) /\ j.file = f /\ j.todo = {}
  BY <1>j, ProcessingJob
<1>2. Uploaded(j)
  BY <1>1 DEF Uploaded, EditContent, There
<1>. QED
  BY <1>j, <1>1, <1>2, Begun DEF EditContent, Handler

\* Requests that leave the handlers alone.
LEMMA HandlersStay ==
  ASSUME KnowledgeInv, StoresTyped', Kept, job' = job
  PROVE  KnowledgeInv'
<1>1. \A g \in Handler : Uploaded(job[g])'
  BY StillUploaded DEF KnowledgeInv
<1>. QED
  BY <1>1 DEF KnowledgeInv, HandOk, EmbedOk, BatchOk, PlaceOk

LEMMA DeletionType ==
  ASSUME KnowledgeInv, DeleteAllFiles \/ \E f \in File : DeleteFile(f)
  PROVE  KnowledgeInv'
<1>1. \A g \in File : file'[g] \in {file[g], [row |-> "gone", content |-> NoContent]}
  BY DEF DeleteAllFiles, DeleteFile, KnowledgeInv, StoresTyped
<1>2. file' \in [File -> [row: Row, content: Text]]
  BY DEF DeleteAllFiles, DeleteFile, KnowledgeInv, StoresTyped, Row, Text, Page
<1>3. /\ UNCHANGED <<pages, kb, vectors, job, plan>>
      /\ outcome' = "none" /\ requests' \in 0 .. MaxRequests
  BY CountedType DEF DeleteAllFiles, DeleteFile, AtOnce
<1>4. StoresTyped' /\ Kept
  BY <1>1, <1>2, <1>3 DEF KnowledgeInv, StoresTyped, There, Kept
<1>. QED
  BY <1>3, <1>4, HandlersStay

----------------------------------------------------------------------------
(* The files of a knowledge base *)

LEMMA AddFileType ==
  ASSUME KnowledgeInv, NEW h \in Handler, NEW k \in Kb, NEW f \in File, AddFile(h, k, f)
  PROVE  KnowledgeInv'
<1>1. PICK pc \in {"read", "write"} :
        Starts(h, [At("add", pc, k, f) EXCEPT !.listed = kb[k].files])
  BY DEF AddFile
<1>i. PICK i : i = At("add", pc, k, f)
  OBVIOUS
<1>j. PICK j : j = [i EXCEPT !.listed = kb[k].files]
  OBVIOUS
<1>2. /\ i \in Job /\ i.op = "add" /\ i.pc = pc /\ i.file = f /\ i.todo = {} /\ i.kb = k
      /\ i.content = NoContent /\ i.text = NoContent
  <2>1. "add" \in Op /\ pc \in Pc
    BY DEF Op, Pc
  <2>. QED
    BY <2>1, <1>i, AtJob
<1>3. kb[k].files \subseteq File
  BY DEF KnowledgeInv, StoresTyped
<1>4. /\ j \in Job /\ j.op = "add" /\ j.pc = pc /\ j.file = f /\ j.todo = {} /\ j.kb = k
      /\ j.content = NoContent /\ j.text = NoContent
  BY <1>2, <1>3, <1>j DEF Job
<1>5. HandOk(j)
  BY <1>4, Shapes DEF HandOk, EmbedOk, BatchOk, PlaceOk
<1>6. Uploaded(j)
  BY <1>4 DEF Uploaded, AddFile, There
<1>. QED
  BY <1>1, <1>i, <1>j, <1>4, <1>5, <1>6, Begun DEF AddFile

LEMMA UpdateFileType ==
  ASSUME KnowledgeInv, NEW h \in Handler, NEW k \in Kb, NEW f \in File, UpdateFile(h, k, f)
  PROVE  KnowledgeInv'
<1>j. PICK j : j = At("update", "clear", k, f)
  OBVIOUS
<1>0. "update" \in Op /\ "clear" \in Pc
  BY DEF Op, Pc
<1>1. /\ j \in Job /\ j.op = "update" /\ j.pc = "clear" /\ j.file = f /\ j.todo = {} /\ j.kb = k
      /\ j.content = NoContent /\ j.text = NoContent
  BY <1>0, <1>j, AtJob
<1>2. HandOk(j)
  BY <1>1, Shapes DEF HandOk, EmbedOk, BatchOk, PlaceOk
<1>3. Uploaded(j)
  BY <1>1 DEF Uploaded, UpdateFile, There
<1>. QED
  BY <1>j, <1>1, <1>2, <1>3, Begun DEF UpdateFile

LEMMA RemoveFileType ==
  ASSUME KnowledgeInv, NEW h \in Handler, NEW k \in Kb, NEW f \in File, RemoveFile(h, k, f)
  PROVE  KnowledgeInv'
<1>i. PICK i : i = At("remove", "unindex", k, f)
  OBVIOUS
<1>j. PICK j : j = [i EXCEPT !.listed = kb[k].files]
  OBVIOUS
<1>0. "remove" \in Op /\ "unindex" \in Pc
  BY DEF Op, Pc
<1>1. i \in Job /\ i.op = "remove" /\ i.pc = "unindex" /\ i.file = f /\ i.todo = {}
  BY <1>0, <1>i, AtJob
<1>2. kb[k].files \subseteq File
  BY DEF KnowledgeInv, StoresTyped
<1>3. j \in Job /\ j.op = "remove" /\ j.pc = "unindex" /\ j.file = f /\ j.todo = {}
  BY <1>1, <1>2, <1>j DEF Job
<1>4. HandOk(j)
  BY <1>3, Shapes DEF HandOk, EmbedOk, BatchOk, PlaceOk
<1>5. Uploaded(j)
  BY <1>3 DEF Uploaded, RemoveFile, There
<1>. QED
  BY <1>i, <1>j, <1>3, <1>4, <1>5, Begun DEF RemoveFile

\* What a batch begins with.
LEMMA BatchJob ==
  ASSUME NEW op \in Batches, NEW k \in Kb, NEW F \in SUBSET File, NEW texts,
         \A f \in F : texts[f] \in Text, NEW j, j = BatchOf(op, k, F, texts)
  PROVE  /\ j \in Job /\ j.op = op /\ j.kb = k /\ j.file = NoFile /\ j.todo = F /\ j.batch = F
         /\ j.pc = (IF F = {} THEN "insert" ELSE "store")
         /\ \A f \in F : j.texts[f] = texts[f]
         /\ j.content = NoContent /\ j.text = NoContent
<1>p. PICK pc : pc = IF F = {} THEN "insert" ELSE "store"
  OBVIOUS
<1>t. PICK given : given = [f \in File |-> IF f \in F THEN texts[f] ELSE NoContent]
  OBVIOUS
<1>i. PICK i : i = At(op, pc, k, NoFile)
  OBVIOUS
<1>0. op \in Op /\ pc \in Pc
  BY <1>p, Shapes DEF Op, Pc
<1>1. i \in Job
  BY <1>0, <1>i, AtJob
<1>2. /\ i.op = op /\ i.pc = pc /\ i.kb = k /\ i.file = NoFile
      /\ i.content = NoContent /\ i.text = NoContent
  BY <1>i DEF At
<1>3. given \in [File -> Text] /\ \A f \in F : given[f] = texts[f]
  BY <1>t DEF Text, Page
<1>4. j = [i EXCEPT !.todo = F, !.batch = F, !.texts = given]
  BY <1>p, <1>t, <1>i DEF BatchOf
<1>5. /\ j \in Job /\ j.op = op /\ j.pc = pc /\ j.kb = k /\ j.file = NoFile
      /\ j.content = NoContent /\ j.text = NoContent
      /\ j.todo = F /\ j.batch = F /\ j.texts = given
  BY <1>1, <1>2, <1>3, <1>4 DEF Job
<1>. QED
  BY <1>p, <1>3, <1>5

LEMMA BatchHand ==
  ASSUME NEW j, j.op \in Batches, j.kb \in Kb, j.todo = j.batch,
         j.pc \in {"insert", "store"}, j.pc = "insert" => j.todo = {}
  PROVE  HandOk(j)
BY Shapes DEF HandOk, EmbedOk, BatchOk, PlaceOk

LEMMA BatchAddType ==
  ASSUME KnowledgeInv, NEW h \in Handler, NEW k \in Kb, NEW F \in SUBSET File, BatchAdd(h, k, F)
  PROVE  KnowledgeInv'
<1>t. PICK texts : texts = [f \in F |-> file[f].content]
  OBVIOUS
<1>i. PICK i : i = BatchOf("batch", k, F, texts)
  OBVIOUS
<1>j. PICK j : j = [i EXCEPT !.listed = kb[k].files]
  OBVIOUS
<1>1. \A f \in F : texts[f] \in Text
  BY <1>t DEF KnowledgeInv, StoresTyped
<1>2. /\ i \in Job /\ i.op = "batch" /\ i.kb = k /\ i.file = NoFile /\ i.todo = F /\ i.batch = F
      /\ i.pc = (IF F = {} THEN "insert" ELSE "store")
  BY <1>1, <1>i, BatchJob, Shapes
<1>3. kb[k].files \subseteq File
  BY DEF KnowledgeInv, StoresTyped
<1>4. /\ j \in Job /\ j.op = "batch" /\ j.kb = k /\ j.file = NoFile /\ j.todo = F /\ j.batch = F
      /\ j.pc = i.pc
  BY <1>2, <1>3, <1>j DEF Job
<1>5. HandOk(j)
  <2>1. j.pc \in {"insert", "store"} /\ (j.pc = "insert" => F = {})
    BY <1>2, <1>4
  <2>. QED
    BY <1>4, <2>1, BatchHand, Shapes
<1>6. Uploaded(j)
  BY <1>4 DEF Uploaded, BatchAdd, There
<1>. QED
  BY <1>t, <1>i, <1>j, <1>4, <1>5, <1>6, Begun DEF BatchAdd

LEMMA ProcessBatchType ==
  ASSUME KnowledgeInv, NEW h \in Thread, NEW k \in Kb, NEW F \in SUBSET File,
         NEW texts \in [F -> Text], ProcessBatch(h, k, F, texts)
  PROVE  KnowledgeInv'
<1>j. PICK j : j = BatchOf("embedBatch", k, F, texts)
  OBVIOUS
<1>2. /\ j \in Job /\ j.op = "embedBatch" /\ j.kb = k /\ j.file = NoFile /\ j.todo = F /\ j.batch = F
      /\ j.pc = (IF F = {} THEN "insert" ELSE "store")
  BY <1>j, BatchJob, Shapes
<1>5. HandOk(j)
  <2>1. j.pc \in {"insert", "store"} /\ (j.pc = "insert" => F = {})
    BY <1>2
  <2>. QED
    BY <1>2, <2>1, BatchHand, Shapes
<1>6. Uploaded(j)
  BY <1>2 DEF Uploaded, ProcessBatch, Known
<1>. QED
  BY <1>j, <1>2, <1>5, <1>6, Begun DEF ProcessBatch, Handler

LEMMA ClearVectorsType ==
  ASSUME KnowledgeInv, NEW h \in Handler, ClearVectors(h)
  PROVE  KnowledgeInv'
<1>0. job[h] \in Job /\ HandOk(job[h]) /\ job[h].pc \in {"clear", "unindex"}
  BY DEF KnowledgeInv, ClearVectors
<1>1. PICK next \in Pc : /\ next = IF Is(h, "clear") THEN "read" ELSE "unfile"
                         /\ GotoPc(h, next) \/ GotoUnclean(h, next)
  BY DEF ClearVectors, Pc
<1>2. \A j : Goes(j, h, next) => HandOk(j)
  <2>1. CASE job[h].pc = "clear"
    BY <1>0, <1>1, <2>1, Shapes DEF Is, Goes, HandOk, EmbedOk, BatchOk, PlaceOk
  <2>2. CASE job[h].pc = "unindex"
    BY <1>0, <1>1, <2>2, Shapes DEF Is, Goes, HandOk, EmbedOk, BatchOk, PlaceOk
  <2>. QED
    BY <1>0, <2>1, <2>2
<1>3. vectors' \in [Kb -> SUBSET Vector]
  <2>1. \A k \in Kb : \A f : Without(k, f) \in SUBSET Vector
    BY DEF Without, KnowledgeInv, StoresTyped
  <2>. QED
    BY <2>1 DEF ClearVectors, KnowledgeInv, StoresTyped
<1>4. outcome' \in {"none", "clean", "failed"}
  BY <1>1, OutcomeTyped
<1>5. StoresTyped' /\ Kept
  BY <1>3, <1>4 DEF ClearVectors, KnowledgeInv, StoresTyped, Kept, There
<1>. QED
  BY <1>1, <1>2, <1>5, GoesTo

LEMMA RemovePagesType ==
  ASSUME KnowledgeInv, NEW h \in Handler, RemovePages(h)
  PROVE  KnowledgeInv'
<1>0. job[h] \in Job /\ HandOk(job[h]) /\ job[h].pc = "unfile"
  BY DEF KnowledgeInv, RemovePages, Is
<1>1. "row" \in Pc /\ (GotoPc(h, "row") \/ GotoUnclean(h, "row"))
  BY DEF RemovePages, Pc
<1>2. \A j : Goes(j, h, "row") => HandOk(j)
  BY <1>0, Shapes DEF Goes, HandOk, EmbedOk, BatchOk, PlaceOk
<1>4. pages' \in [File -> Page]
  BY DEF RemovePages, KnowledgeInv, StoresTyped, Page
<1>5. StoresTyped' /\ Kept
  BY <1>1, <1>4, OutcomeTyped DEF RemovePages, KnowledgeInv, StoresTyped, Kept, There
<1>. QED
  BY <1>1, <1>2, <1>5, GoesTo

LEMMA RemoveRowType ==
  ASSUME KnowledgeInv, NEW h \in Handler, RemoveRow(h)
  PROVE  KnowledgeInv'
<1>0. job[h] \in Job /\ HandOk(job[h]) /\ job[h].pc = "row"
  BY DEF KnowledgeInv, RemoveRow, Is
<1>1. /\ \/ file' = [file EXCEPT ![job[h].file] = [row |-> "gone", content |-> NoContent]]
         \/ file' = file
      /\ "write" \in Pc /\ (GotoPc(h, "write") \/ GotoUnclean(h, "write"))
  BY <1>0 DEF RemoveRow, Pc
<1>2. /\ \A g \in File : file'[g] \in {file[g], [row |-> "gone", content |-> NoContent]}
      /\ file' \in [File -> [row: Row, content: Text]]
  BY <1>1 DEF KnowledgeInv, StoresTyped, Row, Text, Page
<1>o. outcome' \in {"none", "clean", "failed"}
  BY <1>1, OutcomeTyped
<1>3. StoresTyped' /\ Kept
  BY <1>2, <1>o DEF RemoveRow, KnowledgeInv, StoresTyped, There, Kept
<1>4. \A j : Goes(j, h, "write") => HandOk(j)
  BY <1>0, Shapes DEF Goes, HandOk, EmbedOk, BatchOk, PlaceOk
<1>. QED
  BY <1>1, <1>3, <1>4, GoesTo

KbRow == [row: Row, bare: BOOLEAN, files: SUBSET File]

\* The row of a knowledge base is written.
LEMMA KbWritten ==
  ASSUME KnowledgeInv,
         \/ kb' = kb
         \/ \E k \in Kb, new \in KbRow : kb' = [kb EXCEPT ![k] = new]
         \/ \E k : k \notin Kb /\ \E new : kb' = [kb EXCEPT ![k] = new]
  PROVE  kb' \in [Kb -> KbRow]
BY DEF KnowledgeInv, StoresTyped, KbRow

LEMMA ListingType ==
  ASSUME NEW files \in SUBSET File
  PROVE  Listing(files) \in KbRow
BY DEF Listing, KbRow, Row

LEMMA WriteListType ==
  ASSUME KnowledgeInv, NEW h \in Handler, WriteList(h)
  PROVE  KnowledgeInv'
<1>0. job[h] \in Job /\ HandOk(job[h]) /\ job[h].pc = "write"
  BY DEF KnowledgeInv, WriteList, Is
<1>1. Done(h) \/ Failed(h)
  BY DEF WriteList
<1>2. NewList(h) \subseteq File
  <2>1. job[h].op \in {"add", "remove", "batch"}
    BY <1>0 DEF HandOk, PlaceOk
  <2>2. job[h].op = "add" => job[h].file \in File
    BY <1>0, Shapes DEF HandOk, PlaceOk
  <2>3. job[h].listed \subseteq File /\ job[h].batch \subseteq File
    BY <1>0 DEF Job
  <2>. QED
    BY <2>1, <2>2, <2>3 DEF NewList
<1>3. kb' \in [Kb -> KbRow]
  <2>1. \/ kb' = kb
        \/ kb' = [kb EXCEPT ![job[h].kb] = Listing(NewList(h))]
    BY DEF WriteList
  <2>2. Listing(NewList(h)) \in KbRow
    BY <1>2, ListingType
  <2>. QED
    BY <2>1, <2>2, KbWritten
<1>4. StoresTyped' /\ Kept
  BY <1>1, <1>3, OutcomeTyped DEF KbRow, WriteList, KnowledgeInv, StoresTyped, There, Kept
<1>. QED
  BY <1>1, <1>4, Finished DEF Done, Failed

LEMMA BatchStoreType ==
  ASSUME KnowledgeInv, NEW h \in Handler, BatchStore(h)
  PROVE  KnowledgeInv'
<1>0. /\ job[h] \in Job /\ HandOk(job[h]) /\ job[h].pc = "store" /\ job[h].op \in Batches
      /\ job[h].kb \in Kb
  BY Shapes DEF KnowledgeInv, BatchStore, Is, HandOk, BatchOk
<1>1. PICK f, j :
        /\ f \in job[h].todo
        /\ file' = Stored(f, job[h].texts[f]) \/ file' = file
        /\ LET next == [job[h] EXCEPT !.todo = @ \ {f},
                          !.pc = IF job[h].todo = {f} THEN "insert" ELSE "store"] IN
             \/ job[h].texts[f] # Table /\ j \in {next, [next EXCEPT !.clean = FALSE]}
             \/ j = [next EXCEPT !.batch = @ \ {f}]
        /\ Goto(h, j)
  BY DEF BatchStore
<1>2. job[h].texts[f] \in Text
  BY <1>0, <1>1 DEF Job
<1>3. StoresTyped' /\ Kept
  <2>1. outcome' = "none"
    BY <1>1 DEF Goto
  <2>. QED
    BY <1>1, <1>2, <2>1, StoredType DEF BatchStore
<1>p. PICK pc : pc = IF job[h].todo = {f} THEN "insert" ELSE "store"
  OBVIOUS
<1>4. /\ j \in Job /\ j.op = job[h].op /\ j.pc = pc /\ j.file = job[h].file /\ j.kb = job[h].kb
      /\ j.todo = job[h].todo \ {f} /\ j.texts = job[h].texts
      /\ \/ j.batch = job[h].batch /\ j.texts[f] # Table
         \/ j.batch = job[h].batch \ {f}
  <2>n. PICK n : n = [job[h] EXCEPT !.todo = @ \ {f}, !.pc = pc]
    OBVIOUS
  <2>1. /\ n \in Job /\ n.op = job[h].op /\ n.pc = pc /\ n.file = job[h].file /\ n.kb = job[h].kb
        /\ n.todo = job[h].todo \ {f} /\ n.texts = job[h].texts /\ n.batch = job[h].batch
    BY <1>0, <1>p, <2>n DEF Job, Pc
  <2>2. \/ job[h].texts[f] # Table /\ (j = n \/ j = [n EXCEPT !.clean = FALSE])
        \/ j = [n EXCEPT !.batch = @ \ {f}]
    BY <1>1, <1>p, <2>n
  <2>. QED
    BY <2>1, <2>2 DEF Job
<1>5. HandOk(j)
  <2>1. j.op \in Batches /\ j.pc \in {"insert", "store"} /\ (j.pc = "insert" => j.todo = {})
    BY <1>0, <1>4, <1>p
  <2>2. /\ j.todo \subseteq j.batch
        /\ \A g \in j.batch \ j.todo : j.texts[g] # Table
    BY <1>0, <1>4 DEF HandOk, BatchOk
  <2>. QED
    BY <1>0, <1>4, <2>1, <2>2, Shapes DEF HandOk, EmbedOk, BatchOk, PlaceOk
<1>. QED
  BY <1>1, <1>3, <1>4, <1>5, GoesOn

LEMMA BatchChunksType ==
  ASSUME KnowledgeInv, NEW h \in Handler, job[h].op \in Batches, Is(h, "insert")
  PROVE  BatchChunks(h) \subseteq Vector /\ job[h].kb \in Kb
<1>0. job[h] \in Job /\ HandOk(job[h]) /\ job[h].pc = "insert"
  BY DEF KnowledgeInv, Is
<1>1. \A g \in job[h].batch : g \in File /\ job[h].texts[g] \in Content \cup {NoContent}
  <2>1. \A g \in job[h].batch : g \in File /\ job[h].texts[g] \in Text
    BY <1>0 DEF Job
  <2>2. \A g \in job[h].batch : job[h].texts[g] # Table
    BY <1>0 DEF HandOk, BatchOk
  <2>. QED
    BY <2>1, <2>2 DEF Text, Page
<1>2. ASSUME NEW v \in BatchChunks(h) PROVE v \in Vector
  <2>1. PICK g \in job[h].batch : /\ job[h].texts[g] # NoContent
                                  /\ v = [file |-> g, text |-> job[h].texts[g], hash |-> NoHash]
    BY DEF BatchChunks
  <2>. QED
    BY <1>1, <2>1 DEF Vector
<1>. QED
  BY <1>0, <1>2 DEF HandOk, BatchOk

LEMMA BatchInsertType ==
  ASSUME KnowledgeInv, NEW h \in Handler, BatchInsert(h)
  PROVE  KnowledgeInv'
<1>0. job[h] \in Job /\ HandOk(job[h]) /\ job[h].op \in Batches /\ job[h].pc = "insert"
  BY Shapes DEF KnowledgeInv, BatchInsert, Is
<1>1. \/ Done(h) \/ Failed(h)
      \/ job[h].op = "batch" /\ Goto(h, [job[h] EXCEPT !.pc = "write", !.texts = NoTexts])
  BY DEF BatchInsert
<1>2. BatchChunks(h) \subseteq Vector
  BY <1>0, BatchChunksType DEF Is
<1>3. vectors' \in [Kb -> SUBSET Vector]
  BY <1>2 DEF BatchInsert, KnowledgeInv, StoresTyped
<1>4. StoresTyped' /\ Kept
  BY <1>1, <1>3, OutcomeTyped DEF BatchInsert, KnowledgeInv, StoresTyped, There, Kept
<1>5. CASE Done(h) \/ Failed(h)
  BY <1>4, <1>5, Finished DEF Done, Failed
<1>6. CASE job[h].op = "batch" /\ Goto(h, [job[h] EXCEPT !.pc = "write", !.texts = NoTexts])
  <2>j. PICK j : j = [job[h] EXCEPT !.pc = "write", !.texts = NoTexts]
    OBVIOUS
  <2>0. NoTexts \in [File -> Text]
    BY DEF NoTexts, Text, Page
  <2>1. /\ j \in Job /\ j.op = "batch" /\ j.pc = "write"
        /\ j.file = job[h].file /\ j.todo = job[h].todo
    BY <1>0, <1>6, <2>j, <2>0 DEF Job, Pc
  <2>2. HandOk(j)
    BY <2>1, Shapes DEF HandOk, EmbedOk, BatchOk, PlaceOk
  <2>. QED
    BY <1>4, <1>6, <2>j, <2>1, <2>2, GoesOn
<1>. QED
  BY <1>1, <1>5, <1>6

----------------------------------------------------------------------------
(* Knowledge bases *)

LEMMA FormType == Form \subseteq KbRow
<1>1. [NewKb EXCEPT !.row = "there"] \in KbRow
  BY DEF NewKb, KbRow, Row
<1>. QED
  BY <1>1, ListingType DEF Form

LEMMA KbType ==
  ASSUME KnowledgeInv, NEW k \in Kb, CreateKb(k) \/ UpdateKb(k)
  PROVE  KnowledgeInv'
<1>1. kb' \in [Kb -> KbRow]
  <2>1. PICK form \in KbRow : kb' = [kb EXCEPT ![k] = form]
    BY FormType DEF CreateKb, UpdateKb
  <2>. QED
    BY <2>1, KbWritten
<1>2. requests' \in 0 .. MaxRequests
  BY CountedType DEF CreateKb, UpdateKb, AtOnce, KnowledgeInv, StoresTyped
<1>3. UNCHANGED <<file, pages, vectors, job, plan>> /\ outcome' = "none"
  BY DEF CreateKb, UpdateKb, AtOnce
<1>4. StoresTyped' /\ Kept
  BY <1>1, <1>2, <1>3 DEF KbRow, KnowledgeInv, StoresTyped, There, Kept
<1>. QED
  BY <1>3, <1>4, HandlersStay

LEMMA StartsAllType ==
  ASSUME KnowledgeInv, NEW op \in {"list", "reindex"}, StartsAll(op)
  PROVE  KnowledgeInv'
<1>j. PICK j : j = At(op, "each", NoKb, NoFile)
  OBVIOUS
<1>0. op \in Op /\ "each" \in Pc
  BY DEF Op, Pc
<1>1. /\ j \in Job /\ j.op = op /\ j.pc = "each" /\ j.file = NoFile /\ j.todo = {}
      /\ j.content = NoContent /\ j.text = NoContent
  BY <1>0, <1>j, AtJob
<1>2. HandOk(j)
  BY <1>1, Shapes DEF HandOk, EmbedOk, BatchOk, PlaceOk
<1>u. Uploaded(j)'
  BY <1>1 DEF Uploaded
<1>3. plan' \in [todo: SUBSET Kb, bare: SUBSET Kb, files: [Kb -> SUBSET File]]
  BY DEF StartsAll, KnowledgeInv, StoresTyped
<1>4. StoresTyped' /\ Kept
  BY <1>3, CountedType DEF StartsAll, Goto, stores, KnowledgeInv, StoresTyped, There, Kept
<1>. QED
  BY <1>j, <1>1, <1>2, <1>u, <1>4, Moved DEF StartsAll, Goto, Handler

LEMMA PlanType == NoPlan \in [todo: SUBSET Kb, bare: SUBSET Kb, files: [Kb -> SUBSET File]]
BY DEF NoPlan

LEMMA ListNextType ==
  ASSUME KnowledgeInv, ListNext
  PROVE  KnowledgeInv'
<1>1. kb' \in [Kb -> KbRow]
  <2>1. CASE kb' = kb
    BY <2>1, KbWritten
  <2>2. CASE kb' # kb
    <3>1. PICK k \in plan.todo : kb' = [kb EXCEPT ![k] = Listing({f \in plan.files[k] : There(f)})]
      BY <2>2 DEF ListNext
    <3>2. k \in Kb /\ plan.files[k] \subseteq File
      BY DEF KnowledgeInv, StoresTyped
    <3>3. Listing({f \in plan.files[k] : There(f)}) \in KbRow
      BY <3>2, ListingType
    <3>. QED
      BY <3>1, <3>2, <3>3, KbWritten
  <2>. QED
    BY <2>1, <2>2
<1>2. plan' \in [todo: SUBSET Kb, bare: SUBSET Kb, files: [Kb -> SUBSET File]]
  <2>1. plan' = NoPlan \/ \E k : plan' = [plan EXCEPT !.todo = @ \ {k}]
    BY DEF ListNext, AllDone
  <2>. QED
    BY <2>1, PlanType DEF KnowledgeInv, StoresTyped
<1>3. outcome' \in {"none", "clean", "failed"}
  BY OutcomeTyped DEF ListNext, AllDone, Handler
<1>4. StoresTyped' /\ Kept
  BY <1>1, <1>2, <1>3 DEF KbRow, ListNext, KnowledgeInv, StoresTyped, There, Kept
<1>. QED
  BY <1>4, HandlersStay, Finished DEF ListNext, AllDone, Done, Failed, Handler

LEMMA ReindexKbType ==
  ASSUME KnowledgeInv, NEW k \in Kb, ReindexKb(k)
  PROVE  KnowledgeInv'
<1>0. job[Loop] \in Job /\ HandOk(job[Loop]) /\ job[Loop].pc = "each" /\ job[Loop].op = "reindex" /\ Loop \in Handler
  BY DEF KnowledgeInv, ReindexKb, Is, Handler
<1>1. CASE plan' = NoPlan /\ Failed(Loop) /\ UNCHANGED vectors
  <2>1. StoresTyped' /\ Kept
    BY <1>0, <1>1, PlanType, OutcomeTyped DEF ReindexKb, KnowledgeInv, StoresTyped, There, Kept
  <2>. QED
    BY <1>0, <1>1, <2>1, Finished DEF Failed
<1>2. CASE /\ vectors' = [vectors EXCEPT ![k] = {}]
           /\ plan' = [plan EXCEPT !.todo = @ \ {k}]
           /\ Goto(Loop, [job[Loop] EXCEPT !.kb = k, !.todo = {f \in plan.files[k] : There(f)}])
  <2>0. PICK j : j = [job[Loop] EXCEPT !.kb = k, !.todo = {f \in plan.files[k] : There(f)}]
    OBVIOUS
  <2>1. plan.files[k] \subseteq File
    BY DEF KnowledgeInv, StoresTyped
  <2>2. /\ j \in Job /\ j.op = "reindex" /\ j.pc = "each" /\ j.file = job[Loop].file /\ j.kb = k
        /\ j.content = NoContent /\ j.text = NoContent
        /\ j.todo = {f \in plan.files[k] : There(f)}
    BY <1>0, <2>0, <2>1 DEF Job, HandOk, EmbedOk
  <2>3. HandOk(j)
    BY <2>2, Shapes DEF HandOk, EmbedOk, BatchOk, PlaceOk
  <2>4. /\ vectors' \in [Kb -> SUBSET Vector]
        /\ plan' \in [todo: SUBSET Kb, bare: SUBSET Kb, files: [Kb -> SUBSET File]]
    BY <1>2 DEF KnowledgeInv, StoresTyped
  <2>5. StoresTyped' /\ Kept
    BY <1>2, <2>4 DEF ReindexKb, Goto, KnowledgeInv, StoresTyped, There, Kept
  <2>6. Uploaded(j)'
    BY <1>0, <2>2 DEF Uploaded, KnowledgeInv, ReindexKb, There
  <2>. QED
    BY <1>0, <1>2, <2>0, <2>2, <2>3, <2>5, <2>6, Moved DEF Goto
<1>. QED
  BY <1>1, <1>2 DEF ReindexKb

LEMMA ReindexFileType ==
  ASSUME KnowledgeInv, NEW f \in File, ReindexFile(f)
  PROVE  KnowledgeInv'
<1>0. /\ job[Loop] \in Job /\ HandOk(job[Loop]) /\ job[Loop].pc = "each" /\ job[Loop].op = "reindex" /\ Loop \in Handler
      /\ Uploaded(job[Loop]) /\ f \in job[Loop].todo
  BY DEF KnowledgeInv, ReindexFile, Handler, Is
<1>j. PICK j : j = [job[Loop] EXCEPT !.pc = "read", !.file = f, !.todo = @ \ {f}]
  OBVIOUS
<1>1. /\ j \in Job /\ j.op = "reindex" /\ j.pc = "read" /\ j.file = f
      /\ j.content = NoContent /\ j.text = NoContent /\ j.kb = job[Loop].kb
      /\ j.todo = job[Loop].todo \ {f}
  BY <1>0, <1>j DEF Job, Pc, HandOk, EmbedOk
<1>2. HandOk(j)
  BY <1>0, <1>1, Shapes DEF HandOk, EmbedOk, BatchOk, PlaceOk
<1>3. StoresTyped' /\ Kept
  BY <1>0, Alone, OutcomeTyped DEF ReindexFile
<1>4. Uploaded(j)'
  BY <1>0, <1>1 DEF Uploaded, ReindexFile, stores
<1>. QED
  BY <1>0, <1>j, <1>1, <1>2, <1>3, <1>4, Moved DEF ReindexFile, Goto

LEMMA ReindexEndsType ==
  ASSUME KnowledgeInv, ReindexEnds
  PROVE  KnowledgeInv'
<1>1. Loop \in Handler /\ Done(Loop)
  BY DEF ReindexEnds, AllDone, Handler
<1>2. StoresTyped' /\ Kept
  BY <1>1, PlanType, OutcomeTyped
  DEF ReindexEnds, AllDone, stores, KnowledgeInv, StoresTyped, There, Kept
<1>. QED
  BY <1>1, <1>2, Finished DEF Done

LEMMA ResetKbType ==
  ASSUME KnowledgeInv, NEW k \in Kb, ResetKb(k) \/ DeleteKb(k)
  PROVE  KnowledgeInv'
<1>1. PICK op \in {"reset", "delete"} : Starts(Loop, At(op, "collection", k, NoFile))
  BY DEF ResetKb, DeleteKb
<1>j. PICK j : j = At(op, "collection", k, NoFile)
  OBVIOUS
<1>0. op \in Op /\ "collection" \in Pc
  BY DEF Op, Pc
<1>2. j \in Job /\ j.op = op /\ j.pc = "collection" /\ j.file = NoFile /\ j.todo = {}
  BY <1>0, <1>j, AtJob
<1>3. HandOk(j)
  BY <1>2, Shapes DEF HandOk, EmbedOk, BatchOk, PlaceOk
<1>4. Uploaded(j)
  BY <1>2 DEF Uploaded
<1>. QED
  BY <1>1, <1>j, <1>2, <1>3, <1>4, Begun DEF ResetKb, DeleteKb, Handler

LEMMA DropCollectionType ==
  ASSUME KnowledgeInv, DropCollection
  PROVE  KnowledgeInv'
<1>0. job[Loop] \in Job /\ HandOk(job[Loop]) /\ job[Loop].pc = "collection" /\ Loop \in Handler
  BY DEF KnowledgeInv, DropCollection, Is, Handler
<1>1. "kbRow" \in Pc /\ (GotoPc(Loop, "kbRow") \/ GotoUnclean(Loop, "kbRow"))
  BY DEF DropCollection, Pc
<1>2. \A j : Goes(j, Loop, "kbRow") => HandOk(j)
  BY <1>0, Shapes DEF Goes, HandOk, EmbedOk, BatchOk, PlaceOk
<1>4. vectors' \in [Kb -> SUBSET Vector]
  BY DEF DropCollection, KnowledgeInv, StoresTyped
<1>5. StoresTyped' /\ Kept
  BY <1>0, <1>1, <1>4, OutcomeTyped DEF DropCollection, KnowledgeInv, StoresTyped, Kept, There
<1>. QED
  BY <1>0, <1>1, <1>2, <1>5, GoesTo

LEMMA WriteKbRowType ==
  ASSUME KnowledgeInv, WriteKbRow
  PROVE  KnowledgeInv'
<1>1. Loop \in Handler /\ (Done(Loop) \/ Failed(Loop))
  BY DEF WriteKbRow, Handler
<1>2. kb' \in [Kb -> KbRow]
  <2>1. Listing({}) \in KbRow /\ [NewKb EXCEPT !.row = "gone"] \in KbRow
    BY DEF Listing, NewKb, Row, KbRow
  <2>2. \/ kb' = kb
        \/ \E new \in KbRow : kb' = [kb EXCEPT ![job[Loop].kb] = new]
    BY <2>1 DEF WriteKbRow
  <2>. QED
    BY <2>2, KbWritten
<1>3. StoresTyped' /\ Kept
  BY <1>1, <1>2, OutcomeTyped DEF KbRow, WriteKbRow, KnowledgeInv, StoresTyped, There, Kept
<1>. QED
  BY <1>1, <1>3, Finished DEF Done, Failed

LEMMA ResetDbType ==
  ASSUME KnowledgeInv, NEW h \in Thread, ResetDb(h)
  PROVE  KnowledgeInv'
<1>j. PICK j : j = At("wipe", "wipe", NoKb, NoFile)
  OBVIOUS
<1>0. "wipe" \in Op /\ "wipe" \in Pc
  BY DEF Op, Pc
<1>2. j \in Job /\ j.op = "wipe" /\ j.pc = "wipe" /\ j.file = NoFile /\ j.todo = {}
  BY <1>0, <1>j, AtJob
<1>3. HandOk(j)
  BY <1>2, Shapes DEF HandOk, EmbedOk, BatchOk, PlaceOk
<1>4. Uploaded(j)
  BY <1>2 DEF Uploaded
<1>. QED
  BY <1>j, <1>2, <1>3, <1>4, Begun DEF ResetDb, Handler

LEMMA WipeVectorsType ==
  ASSUME KnowledgeInv, NEW h \in Handler, WipeVectors(h)
  PROVE  KnowledgeInv'
<1>0. job[h] \in Job /\ HandOk(job[h]) /\ job[h].pc = "wipe"
  BY DEF KnowledgeInv, WipeVectors, Is
<1>1. GotoPc(h, "wipeRows") \/ Failed(h)
  BY DEF WipeVectors
<1>2. \A j : Goes(j, h, "wipeRows") => HandOk(j)
  BY <1>0, Shapes DEF Goes, HandOk, EmbedOk, BatchOk, PlaceOk
<1>3. vectors' \in [Kb -> SUBSET Vector] /\ pages' \in [File -> Page]
  BY DEF WipeVectors, KnowledgeInv, StoresTyped, Page
<1>4. StoresTyped' /\ Kept
  BY <1>1, <1>3, OutcomeTyped DEF WipeVectors, KnowledgeInv, StoresTyped, Kept, There
<1>5. "wipeRows" \in Pc
  BY DEF Pc
<1>. QED
  BY <1>1, <1>2, <1>4, <1>5, GoesTo, Finished DEF Failed

LEMMA WipeKbsType ==
  ASSUME KnowledgeInv, NEW h \in Handler, WipeKbs(h)
  PROVE  KnowledgeInv'
<1>1. Done(h) \/ Failed(h)
  BY DEF WipeKbs
<1>2. kb' \in [Kb -> KbRow]
  <2>1. [NewKb EXCEPT !.row = "gone"] \in KbRow
    BY DEF NewKb, Row, KbRow
  <2>2. kb \in [Kb -> KbRow]
    BY DEF KbRow, KnowledgeInv, StoresTyped
  <2>. QED
    BY <2>1, <2>2 DEF WipeKbs
<1>3. StoresTyped' /\ Kept
  BY <1>1, <1>2, OutcomeTyped DEF KbRow, WipeKbs, KnowledgeInv, StoresTyped, There, Kept
<1>. QED
  BY <1>1, <1>3, Finished DEF Done, Failed

----------------------------------------------------------------------------

LEMMA InitKnowledge == Init => KnowledgeInv
<1> SUFFICES ASSUME Init PROVE KnowledgeInv
  OBVIOUS
<1>1. StoresTyped
  BY ConstantsAssumption, PlanType DEF Init, StoresTyped, Row, Text, Page, NewKb
<1>2. job \in [Handler -> Job] /\ \A h \in Handler : job[h] = Idle
  BY IdleOk DEF Init
<1>3. Uploaded(Idle)
  BY IdleOk DEF Uploaded
<1>. QED
  BY <1>1, <1>2, <1>3, IdleOk DEF KnowledgeInv

LEMMA NextKnowledge == KnowledgeInv /\ [Next]_vars => KnowledgeInv'
<1> SUFFICES ASSUME KnowledgeInv, [Next]_vars PROVE KnowledgeInv'
  OBVIOUS
<1>1. ASSUME FileRequest PROVE KnowledgeInv'
  BY <1>1, DeletionType, EditContentType, UploadType, ProcessFileType DEF FileRequest, Handler
<1>2. ASSUME KbRequest PROVE KnowledgeInv'
  <2>1. ASSUME NEW k \in Kb, CreateKb(k) \/ UpdateKb(k) \/ ResetKb(k) \/ DeleteKb(k)
        PROVE  KnowledgeInv'
    BY <2>1, KbType, ResetKbType
  <2>2. ASSUME NEW k \in Kb, NEW h \in Thread, NEW f \in File,
               AddFile(h, k, f) \/ UpdateFile(h, k, f) \/ RemoveFile(h, k, f)
        PROVE  KnowledgeInv'
    BY <2>2, AddFileType, UpdateFileType, RemoveFileType DEF Handler
  <2>3. ASSUME NEW k \in Kb, NEW h \in Thread, NEW F \in SUBSET File,
               BatchAdd(h, k, F) \/ \E texts \in [F -> Text] : ProcessBatch(h, k, F, texts)
        PROVE  KnowledgeInv'
    BY <2>3, BatchAddType, ProcessBatchType DEF Handler
  <2>4. CASE ListKbs \/ Reindex
    BY <2>4, StartsAllType DEF ListKbs, Reindex
  <2>5. ASSUME NEW h \in Thread, ResetDb(h) PROVE KnowledgeInv'
    BY <2>5, ResetDbType
  <2>. QED
    BY <1>2, <2>1, <2>2, <2>3, <2>4, <2>5 DEF KbRequest
<1>3. ASSUME LoopStep PROVE KnowledgeInv'
  BY <1>3, ListNextType, ReindexEndsType, DropCollectionType, WriteKbRowType,
     ReindexKbType, ReindexFileType DEF LoopStep
<1>4. ASSUME NEW h \in Handler, HandlerStep(h) PROVE KnowledgeInv'
  BY <1>4, ReadFileType, QueryPagesType, DropPagesType, ExtractType, StoreTextType, CheckHashType,
     InsertType, StoreTableType, ClearVectorsType, RemovePagesType, RemoveRowType, WriteListType,
     BatchStoreType, BatchInsertType, WipeVectorsType, WipeKbsType DEF HandlerStep
<1>5. CASE UNCHANGED vars
  BY <1>5 DEF vars, KnowledgeInv, StoresTyped, There, HandOk, EmbedOk, BatchOk, PlaceOk, Uploaded
<1>. QED
  BY <1>1, <1>2, <1>3, <1>4, <1>5 DEF Next

\* The rows, the collections and the handlers are well formed in every
\* reachable state: whatever fails and however threads interleave, only files
\* that were uploaded are worked on, and a row that is gone keeps no text.
THEOREM KnowledgeTypeCorrect == Spec => []TypeOK
<1>1. Spec => []KnowledgeInv
  BY InitKnowledge, NextKnowledge, PTL DEF Spec
<1>. QED
  BY <1>1, InvType, PTL

----------------------------------------------------------------------------
(* The text of a file *)

\* A handler that nobody has disturbed has the text of the row in hand, as long
\* as it is to write it back.
HasText(h) ==
  /\ job[h].op \in Shares /\ job[h].pc \in {"query", "store"} /\ There(job[h].file)
       => file[job[h].file].content = job[h].content
  /\ job[h].op = "batch" /\ job[h].pc = "store"
       => \A f \in job[h].todo : There(f) => file[f].content = job[h].texts[f]

TextInv == KnowledgeInv /\ \A h \in Handler \ touched : HasText(h)
\* A handler that does not move, and whose files nobody changes, keeps it.
LEMMA KeepsText ==
  ASSUME KnowledgeInv, NEW h \in Handler, HasText(h), job'[h] = job[h],
         \A f \in File : WorksOnFile(h, f) => file'[f] = file[f]
  PROVE  HasText(h)'
<1>0. job[h] \in Job /\ HandOk(job[h])
  BY DEF KnowledgeInv
<1>1. CASE job[h].op \in Shares /\ job[h].pc \in {"query", "store"}
  <2>1. job[h].file \in File /\ WorksOnFile(h, job[h].file)
    BY <1>0, <1>1 DEF HandOk, PlaceOk, WorksOnFile, Embeds
  <2>. QED
    BY <1>1, <2>1 DEF HasText, There, Shares
<1>2. CASE job[h].op = "batch" /\ job[h].pc = "store"
  <2>1. \A f \in job[h].todo : f \in File /\ WorksOnFile(h, f)
    BY <1>0, <1>2 DEF HandOk, BatchOk, Batches, WorksOnFile, Job
  <2>. QED
    BY <1>2, <2>1 DEF HasText, There, Shares
<1>3. CASE /\ ~ (job[h].op \in Shares /\ job[h].pc \in {"query", "store"})
           /\ ~ (job[h].op = "batch" /\ job[h].pc = "store")
  BY <1>3 DEF HasText
<1>. QED
  BY <1>1, <1>2, <1>3

\* Whoever goes somewhere else has nothing to write back.
LEMMA NoTextInHand ==
  ASSUME NEW h \in Handler,
         \/ job'[h].pc \notin {"query", "store"}
         \/ job'[h].op \notin Shares \cup {"batch"}
  PROVE  HasText(h)'
BY DEF HasText

\* Where a step that is one handler's takes it; the others stay.
Steps(h) == \A g \in Handler : g # h => job'[g] = job[g]
Leads(h, pcs) == Steps(h) /\ job'[h].pc \in pcs

LEMMA Went ==
  ASSUME KnowledgeInv, NEW h \in Handler, NEW j, job' = [job EXCEPT ![h] = j]
  PROVE  Steps(h) /\ job'[h] = j
BY DEF KnowledgeInv, Steps

LEMMA WentTo ==
  ASSUME KnowledgeInv, NEW h \in Handler, NEW pc, GotoPc(h, pc) \/ GotoUnclean(h, pc)
  PROVE  Leads(h, {pc}) /\ job'[h].op = job[h].op
<1>0. job[h] \in Job
  BY DEF KnowledgeInv
<1>1. PICK j : /\ \/ j = [job[h] EXCEPT !.pc = pc]
                  \/ j = [job[h] EXCEPT !.pc = pc, !.clean = FALSE]
               /\ Goto(h, j)
  BY DEF GotoPc, GotoUnclean
<1>2. j.pc = pc /\ j.op = job[h].op
  BY <1>0, <1>1 DEF Job
<1>. QED
  BY <1>1, <1>2, Went DEF Goto, Leads

LEMMA EndedIdle ==
  ASSUME KnowledgeInv, NEW h \in Handler, NEW result, Ends(h, result)
  PROVE  Leads(h, {"idle"})
<1>1. Idle.pc = "idle"
  BY DEF Idle, At
<1>. QED
  BY <1>1, Went DEF Ends, Leads

LEMMA RestPc ==
  ASSUME KnowledgeInv, NEW h \in Handler, NEW pc
  PROVE  Rest(h, pc).pc = pc /\ [Rest(h, pc) EXCEPT !.clean = FALSE].pc = pc
BY DEF KnowledgeInv, Rest, Job

LEMMA RaisedTo ==
  ASSUME KnowledgeInv, NEW h \in Handler, Raised(h)
  PROVE  Leads(h, {"idle", "each"})
<1>1. CASE job[h].op = "reindex"
  <2>j. PICK j : j = [Rest(h, "each") EXCEPT !.clean = FALSE]
    OBVIOUS
  <2>1. j.pc = "each"
    BY <2>j, RestPc
  <2>2. Steps(h) /\ job'[h] = j
    BY <1>1, <2>j, Went DEF Raised, Goto
  <2>. QED
    BY <2>1, <2>2 DEF Leads
<1>2. CASE job[h].op # "reindex"
  BY <1>2, EndedIdle DEF Raised, Failed, Leads
<1>. QED
  BY <1>1, <1>2

LEMMA ProcessedTo ==
  ASSUME KnowledgeInv, NEW h \in Handler, Processed(h)
  PROVE  Leads(h, {"idle", "each", "write"})
<1>1. CASE job[h].op = "reindex"
  BY <1>1, RestPc, Went DEF Processed, Goto, Leads
<1>2. CASE job[h].op = "add"
  BY <1>2, RestPc, Went DEF Processed, Goto, Leads
<1>3. CASE job[h].op \notin {"add", "reindex"}
  BY <1>3, EndedIdle DEF Processed, Done, Leads
<1>. QED
  BY <1>1, <1>2, <1>3

LEMMA ReadText ==
  ASSUME KnowledgeInv, NEW h \in Handler, ReadFile(h)
  PROVE  Steps(h) /\ HasText(h)'
<1>0. job[h] \in Job /\ HandOk(job[h]) /\ job[h].pc = "read"
  BY DEF KnowledgeInv, ReadFile, Is
<1>1. CASE Raised(h)
  BY <1>1, RaisedTo, NoTextInHand DEF Leads
<1>2. CASE GotoPc(h, "drop")
  BY <1>2, WentTo, NoTextInHand DEF Leads
<1>3. CASE GotoPc(h, "extract")
  BY <1>3, WentTo, NoTextInHand DEF Leads
<1>4. CASE Goto(h, [job[h] EXCEPT !.pc = "query", !.content = file[job[h].file].content])
  <2>j. PICK j : j = [job[h] EXCEPT !.pc = "query", !.content = file[job[h].file].content]
    OBVIOUS
  <2>1. Steps(h) /\ job'[h] = j
    BY <1>4, <2>j, Went DEF Goto
  <2>2. j.file = job[h].file /\ j.content = file[job[h].file].content /\ j.pc = "query"
    BY <1>0, <2>j DEF Job
  <2>3. file' = file
    BY DEF ReadFile, stores
  <2>. QED
    BY <2>1, <2>2, <2>3 DEF HasText
<1>. QED
  BY <1>1, <1>2, <1>3, <1>4 DEF ReadFile

LEMMA QueryText ==
  ASSUME KnowledgeInv, NEW h \in Handler, QueryPages(h)
  PROVE  Steps(h) /\ (HasText(h) => HasText(h)')
<1>0. job[h] \in Job /\ HandOk(job[h]) /\ job[h].pc = "query"
  BY DEF KnowledgeInv, QueryPages, Is
<1>1. CASE Raised(h)
  BY <1>1, RaisedTo, NoTextInHand DEF Leads
<1>2. ASSUME NEW text, Goto(h, [job[h] EXCEPT !.pc = "store", !.text = text])
      PROVE  Steps(h) /\ (HasText(h) => HasText(h)')
  <2>j. PICK j : j = [job[h] EXCEPT !.pc = "store", !.text = text]
    OBVIOUS
  <2>2. /\ j.file = job[h].file /\ j.content = job[h].content /\ j.op = job[h].op
        /\ j.op \in Shares
    BY <1>0, <2>j DEF Job, HandOk, EmbedOk
  <2>3. Steps(h) /\ job'[h] = j
    BY <1>2, <2>j, Went DEF Goto
  <2>4. file' = file
    BY DEF QueryPages, stores
  <2>. QED
    BY <1>0, <2>2, <2>3, <2>4 DEF HasText, There, Shares
<1>. QED
  BY <1>1, <1>2 DEF QueryPages

\* Who brings a text of its own has none to write back.
LEMMA BringsOwn ==
  ASSUME KnowledgeInv, NEW h \in Handler, NEW j, Goto(h, j), j.op = job[h].op,
         job[h].op \in Brings
  PROVE  Steps(h) /\ HasText(h)'
<1>1. Steps(h) /\ job'[h] = j
  BY Went DEF Goto
<1>. QED
  BY <1>1, NoTextInHand DEF Brings, Shares

LEMMA DropText ==
  ASSUME KnowledgeInv, NEW h \in Handler, DropPages(h)
  PROVE  Steps(h) /\ HasText(h)'
<1>0. job[h] \in Job /\ job[h].op \in Brings
  BY DEF KnowledgeInv, DropPages, Is, HandOk, EmbedOk, Brings
<1>1. PICK j : /\ \/ j = [job[h] EXCEPT !.pc = "store", !.text = job[h].content]
                  \/ j = [job[h] EXCEPT !.pc = "store", !.text = job[h].content, !.clean = FALSE]
               /\ Goto(h, j)
  BY DEF DropPages
<1>2. j.op = job[h].op
  BY <1>0, <1>1 DEF Job
<1>. QED
  BY <1>0, <1>1, <1>2, BringsOwn

LEMMA ExtractText ==
  ASSUME KnowledgeInv, NEW h \in Handler, Extract(h)
  PROVE  Steps(h) /\ HasText(h)'
<1>0. job[h] \in Job /\ job[h].op \in Brings
  BY DEF KnowledgeInv, Extract, Is, HandOk, EmbedOk, Brings
<1>1. CASE Raised(h)
  BY <1>1, RaisedTo, NoTextInHand DEF Leads
<1>2. ASSUME NEW c, Goto(h, [job[h] EXCEPT !.pc = "store", !.content = c, !.text = c])
      PROVE  Steps(h) /\ HasText(h)'
  <2>j. PICK j : j = [job[h] EXCEPT !.pc = "store", !.content = c, !.text = c]
    OBVIOUS
  <2>1. j.op = job[h].op
    BY <1>0, <2>j DEF Job
  <2>. QED
    BY <1>0, <1>2, <2>j, <2>1, BringsOwn
<1>. QED
  BY <1>1, <1>2 DEF Extract

\* What a step of a batch's writing back is.
BatchStep(h, f, j) ==
  /\ f \in job[h].todo /\ Goto(h, j)
  /\ file' = Stored(f, job[h].texts[f]) \/ file' = file
  /\ j.op = job[h].op /\ j.todo = job[h].todo \ {f} /\ j.texts = job[h].texts
  /\ j.kb = job[h].kb /\ j.listed = job[h].listed /\ j.file = job[h].file
  /\ j.pc = (IF job[h].todo = {f} THEN "insert" ELSE "store")
  /\ \/ j.batch = job[h].batch /\ job[h].texts[f] # Table
     \/ j.batch = job[h].batch \ {f} /\ job[h].texts[f] \notin Content /\ file' = file

LEMMA BatchStoreStep ==
  ASSUME KnowledgeInv, NEW h \in Handler, BatchStore(h)
  PROVE  /\ job[h].pc = "store" /\ job[h].op \in Batches
         /\ \E f, j : BatchStep(h, f, j)
<1>0. job[h] \in Job /\ job[h].pc = "store" /\ job[h].op \in Batches
  BY Shapes DEF KnowledgeInv, BatchStore, Is
<1>1. PICK f, j :
        /\ f \in job[h].todo
        /\ LET next == [job[h] EXCEPT !.todo = @ \ {f},
                          !.pc = IF job[h].todo = {f} THEN "insert" ELSE "store"] IN
             \/ /\ job[h].texts[f] # Table /\ j \in {next, [next EXCEPT !.clean = FALSE]}
                /\ file' = Stored(f, job[h].texts[f]) \/ file' = file
             \/ /\ j = [next EXCEPT !.batch = @ \ {f}]
                /\ job[h].texts[f] \notin Content /\ file' = file
        /\ Goto(h, j)
  BY DEF BatchStore
<1>p. PICK pc : pc = IF job[h].todo = {f} THEN "insert" ELSE "store"
  OBVIOUS
<1>n. PICK n : n = [job[h] EXCEPT !.todo = @ \ {f}, !.pc = pc]
  OBVIOUS
<1>2. /\ n \in Job /\ n.op = job[h].op /\ n.pc = pc /\ n.file = job[h].file /\ n.kb = job[h].kb
      /\ n.todo = job[h].todo \ {f} /\ n.texts = job[h].texts /\ n.batch = job[h].batch
      /\ n.listed = job[h].listed
  BY <1>0, <1>p, <1>n DEF Job, Pc
<1>3. \/ /\ job[h].texts[f] # Table /\ (j = n \/ j = [n EXCEPT !.clean = FALSE])
         /\ file' = Stored(f, job[h].texts[f]) \/ file' = file
      \/ /\ j = [n EXCEPT !.batch = @ \ {f}]
         /\ job[h].texts[f] \notin Content /\ file' = file
  BY <1>1, <1>p, <1>n
<1>4. /\ j.op = job[h].op /\ j.pc = pc /\ j.file = job[h].file /\ j.kb = job[h].kb
      /\ j.todo = job[h].todo \ {f} /\ j.texts = job[h].texts /\ j.listed = job[h].listed
      /\ \/ j.batch = job[h].batch /\ job[h].texts[f] # Table
         \/ j.batch = job[h].batch \ {f} /\ job[h].texts[f] \notin Content /\ file' = file
  BY <1>2, <1>3 DEF Job
<1>5. BatchStep(h, f, j)
  BY <1>1, <1>3, <1>4, <1>p DEF BatchStep
<1>. QED
  BY <1>0, <1>5

LEMMA BatchText ==
  ASSUME KnowledgeInv, NEW h \in Handler, BatchStore(h)
  PROVE  Steps(h) /\ (HasText(h) => HasText(h)')
<1>0. job[h] \in Job /\ job[h].pc = "store" /\ job[h].op \in Batches
  BY BatchStoreStep DEF KnowledgeInv
<1>1. PICK f, j : BatchStep(h, f, j)
  BY BatchStoreStep
<1>2. j.todo = job[h].todo \ {f} /\ j.texts = job[h].texts /\ j.op = job[h].op
  BY <1>1 DEF BatchStep
<1>3. Steps(h) /\ job'[h] = j
  BY <1>1, Went DEF BatchStep, Goto
<1>4. \A g \in File : g # f => file'[g] = file[g]
  BY <1>1 DEF BatchStep, Stored, KnowledgeInv, StoresTyped
<1>5. j.todo \subseteq File
  BY <1>0, <1>2 DEF Job
<1>6. ASSUME HasText(h), job[h].op = "batch" PROVE HasText(h)'
  <2>1. \A g \in j.todo : There(g)' => file'[g].content = j.texts[g]
    BY <1>0, <1>2, <1>4, <1>5, <1>6 DEF HasText, There
  <2>. QED
    BY <1>2, <1>3, <1>6, <2>1 DEF HasText, Shares
<1>7. CASE job[h].op # "batch"
  BY <1>0, <1>2, <1>3, <1>7, NoTextInHand DEF Batches, Shares
<1>. QED
  BY <1>3, <1>6, <1>7

LEMMA BatchAddText ==
  ASSUME KnowledgeInv, NEW h \in Handler, NEW k \in Kb, NEW F \in SUBSET File, BatchAdd(h, k, F)
  PROVE  Steps(h) /\ HasText(h)'
<1>t. PICK texts : texts = [f \in F |-> file[f].content]
  OBVIOUS
<1>i. PICK i : i = BatchOf("batch", k, F, texts)
  OBVIOUS
<1>j. PICK j : j = [i EXCEPT !.listed = kb[k].files]
  OBVIOUS
<1>0. \A f \in F : texts[f] \in Text
  BY <1>t DEF KnowledgeInv, StoresTyped
<1>b. "batch" \in Batches
  BY Shapes
<1>c. i \in Job /\ i.op = "batch" /\ i.todo = F /\ \A f \in F : i.texts[f] = texts[f]
  BY <1>0, <1>b, <1>i, BatchJob
<1>1. i \in Job /\ i.op = "batch" /\ i.todo = F /\ \A f \in F : i.texts[f] = file[f].content
  BY <1>t, <1>c
<1>2. j.op = "batch" /\ j.todo = F /\ \A f \in F : j.texts[f] = file[f].content
  BY <1>1, <1>j DEF Job
<1>3. Steps(h) /\ job'[h] = j
  BY <1>t, <1>i, <1>j, Went DEF BatchAdd, Starts, Goto
<1>4. file' = file
  BY DEF BatchAdd, stores
<1>. QED
  BY <1>2, <1>3, <1>4 DEF HasText, Shares

\* A step of h leaves it with the text it had, if it had it; the others stay.
KeepsOwn(h) == Steps(h) /\ (job'[h] # job[h] /\ HasText(h) => HasText(h)')

LEMMA Elsewhere ==
  ASSUME NEW h \in Handler, NEW pcs, Leads(h, pcs), "query" \notin pcs, "store" \notin pcs
  PROVE  KeepsOwn(h)
BY NoTextInHand DEF Leads, KeepsOwn

LEMMA JobStays ==
  ASSUME UNCHANGED job
  PROVE  \A h \in Handler : KeepsOwn(h)
BY DEF KeepsOwn, Steps

LEMMA HandlerText ==
  ASSUME KnowledgeInv, NEW h \in Handler, HandlerStep(h)
  PROVE  KeepsOwn(h)
<1>0. job[h] \in Job
  BY DEF KnowledgeInv
<1>1. ASSUME ReadFile(h) \/ QueryPages(h) \/ DropPages(h) \/ Extract(h) \/ BatchStore(h)
      PROVE  KeepsOwn(h)
  BY <1>1, ReadText, QueryText, DropText, ExtractText, BatchText DEF KeepsOwn
<1>2. ASSUME NEW pc, pc \notin {"query", "store"}, GotoPc(h, pc) \/ GotoUnclean(h, pc)
      PROVE  KeepsOwn(h)
  <2>1. Leads(h, {pc})
    BY <1>2, WentTo
  <2>. QED
    BY <1>2, <2>1, Elsewhere
<1>3. ASSUME Done(h) \/ Failed(h) PROVE KeepsOwn(h)
  BY <1>3, EndedIdle, Elsewhere DEF Done, Failed
<1>4. ASSUME Raised(h) \/ Processed(h) PROVE KeepsOwn(h)
  BY <1>4, RaisedTo, ProcessedTo, Elsewhere
<1>5. CASE StoreText(h)
  BY <1>2, <1>5 DEF StoreText
<1>6. CASE CheckHash(h) \/ Insert(h)
  BY <1>2, <1>4, <1>6 DEF CheckHash, Insert
<1>7. CASE StoreTable(h) \/ WriteList(h) \/ WipeKbs(h)
  BY <1>3, <1>7 DEF StoreTable, WriteList, WipeKbs
<1>8. CASE ClearVectors(h)
  <2>1. PICK pc \in {"read", "unfile"} : GotoPc(h, pc) \/ GotoUnclean(h, pc)
    BY <1>8 DEF ClearVectors
  <2>. QED
    BY <1>2, <2>1
<1>9. CASE RemovePages(h) \/ RemoveRow(h) \/ WipeVectors(h)
  BY <1>2, <1>3, <1>9 DEF RemovePages, RemoveRow, WipeVectors
<1>10. CASE BatchInsert(h)
  <2>1. CASE Goto(h, [job[h] EXCEPT !.pc = "write", !.texts = NoTexts])
    <3>j. PICK j : j = [job[h] EXCEPT !.pc = "write", !.texts = NoTexts]
      OBVIOUS
    <3>1. j.pc = "write"
      BY <1>0, <3>j DEF Job
    <3>. QED
      BY <2>1, <3>j, <3>1, Went, Elsewhere DEF Goto, Leads
  <2>. QED
    BY <1>3, <1>10, <2>1 DEF BatchInsert
<1>. QED
  BY <1>1, <1>5, <1>6, <1>7, <1>8, <1>9, <1>10 DEF HandlerStep

LEMMA LoopText ==
  ASSUME KnowledgeInv, LoopStep
  PROVE  KeepsOwn(Loop)
<1>0. Loop \in Handler /\ job[Loop] \in Job
  BY DEF KnowledgeInv, Handler
<1>1. CASE ListNext
  BY <1>0, <1>1, EndedIdle, Elsewhere, JobStays DEF ListNext, AllDone, Done, Failed
<1>2. CASE ReindexEnds
  BY <1>0, <1>2, EndedIdle, Elsewhere DEF ReindexEnds, AllDone, Done
<1>3. CASE DropCollection
  <2>1. Leads(Loop, {"kbRow"})
    BY <1>0, <1>3, WentTo DEF DropCollection
  <2>. QED
    BY <1>0, <2>1, Elsewhere
<1>4. CASE WriteKbRow
  BY <1>0, <1>4, EndedIdle, Elsewhere DEF WriteKbRow, Done, Failed
<1>5. ASSUME NEW k \in Kb, ReindexKb(k) PROVE KeepsOwn(Loop)
  <2>1. CASE Failed(Loop)
    BY <1>0, <2>1, EndedIdle, Elsewhere DEF Failed
  <2>2. CASE Goto(Loop, [job[Loop] EXCEPT !.kb = k, !.todo = {f \in plan.files[k] : There(f)}])
    <3>j. PICK j : j = [job[Loop] EXCEPT !.kb = k, !.todo = {f \in plan.files[k] : There(f)}]
      OBVIOUS
    <3>1. j.pc = "each"
      BY <1>0, <1>5, <3>j DEF Job, ReindexKb, Is
    <3>2. Leads(Loop, {"each"})
      BY <1>0, <2>2, <3>j, <3>1, Went DEF Goto, Leads
    <3>. QED
      BY <1>0, <3>2, Elsewhere
  <2>. QED
    BY <1>5, <2>1, <2>2 DEF ReindexKb
<1>6. ASSUME NEW f \in File, ReindexFile(f) PROVE KeepsOwn(Loop)
  <2>j. PICK j : j = [job[Loop] EXCEPT !.pc = "read", !.file = f, !.todo = @ \ {f}]
    OBVIOUS
  <2>1. j.pc = "read"
    BY <1>0, <2>j DEF Job
  <2>2. Leads(Loop, {"read"})
    BY <1>0, <1>6, <2>j, <2>1, Went DEF ReindexFile, Goto, Leads
  <2>. QED
    BY <1>0, <2>2, Elsewhere
<1>. QED
  BY <1>1, <1>2, <1>3, <1>4, <1>5, <1>6 DEF LoopStep

\* A request begins with what is not a text to write back.
LEMMA BeginsElsewhere ==
  ASSUME KnowledgeInv, NEW h \in Handler, NEW j, Starts(h, j),
         j.pc \notin {"query", "store"} \/ j.op \notin Shares \cup {"batch"}
  PROVE  KeepsOwn(h)
<1>1. Steps(h) /\ job'[h] = j
  BY Went DEF Starts, Goto
<1>. QED
  BY <1>1, NoTextInHand DEF KeepsOwn

LEMMA FileRequestText ==
  ASSUME KnowledgeInv, FileRequest
  PROVE  \E h \in Handler : KeepsOwn(h)
<1>0. Loop \in Handler /\ Thread \subseteq Handler
  BY DEF Handler
<1>1. CASE DeleteAllFiles \/ \E f \in File : DeleteFile(f)
  BY <1>0, <1>1, JobStays DEF DeleteAllFiles, DeleteFile, AtOnce
<1>2. ASSUME NEW h \in Handler, NEW j, Goto(h, j), j.pc \notin {"query", "store"}
      PROVE  KeepsOwn(h)
  <2>1. Steps(h) /\ job'[h] = j
    BY <1>2, Went DEF Goto
  <2>. QED
    BY <1>2, <2>1, NoTextInHand DEF KeepsOwn
<1>3. ASSUME NEW h \in Handler, NEW k \in Kb \cup {NoKb}, NEW f \in File, NEW c \in Page,
             Goto(h, Processing(k, f, c))
      PROVE  KeepsOwn(h)
  <2>j. PICK j : j = Processing(k, f, c)
    OBVIOUS
  <2>1. j.pc = "read"
    BY <2>j, ProcessingJob
  <2>. QED
    BY <1>2, <1>3, <2>j, <2>1
<1>4. ASSUME NEW f \in File, NEW c \in Page, EditContent(f, c)
      PROVE  KeepsOwn(Loop)
  BY <1>0, <1>3, <1>4 DEF EditContent, Starts
<1>5. ASSUME NEW f \in File, NEW c \in Page, NEW h \in Thread, Upload(h, f, c)
      PROVE  KeepsOwn(h)
  <2>1. CASE UNCHANGED job
    BY <1>0, <2>1, JobStays
  <2>2. CASE Goto(h, At("table", "table", NoKb, f))
    <3>1. At("table", "table", NoKb, f).pc = "table"
      BY DEF At
    <3>. QED
      BY <1>0, <1>2, <2>2, <3>1
  <2>3. CASE Goto(h, Processing(NoKb, f, c))
    BY <1>0, <1>3, <2>3
  <2>. QED
    BY <1>5, <2>1, <2>2, <2>3 DEF Upload
<1>6. ASSUME NEW h \in Thread, NEW k \in Kb \cup {NoKb}, NEW f \in File, NEW c \in Page,
             ProcessFile(h, k, f, c)
      PROVE  KeepsOwn(h)
  BY <1>0, <1>3, <1>6 DEF ProcessFile, Starts
<1>. QED
  BY <1>0, <1>1, <1>4, <1>5, <1>6 DEF FileRequest

LEMMA KbRequestText ==
  ASSUME KnowledgeInv, KbRequest
  PROVE  \E h \in Handler : KeepsOwn(h)
<1>0. Loop \in Handler /\ Thread \subseteq Handler
  BY DEF Handler
<1>1. CASE ListKbs \/ Reindex
  <2>1. PICK op \in {"list", "reindex"} : Goto(Loop, At(op, "each", NoKb, NoFile))
    BY <1>1 DEF ListKbs, Reindex, StartsAll
  <2>j. PICK j : j = At(op, "each", NoKb, NoFile)
    OBVIOUS
  <2>2. j.pc = "each"
    BY <2>j DEF At
  <2>3. Leads(Loop, {"each"})
    BY <1>0, <2>1, <2>j, <2>2, Went DEF Goto, Leads
  <2>. QED
    BY <1>0, <2>3, Elsewhere
<1>2. ASSUME NEW k \in Kb, CreateKb(k) \/ UpdateKb(k)
      PROVE  KeepsOwn(Loop)
  BY <1>0, <1>2, JobStays DEF CreateKb, UpdateKb, AtOnce
<1>3. ASSUME NEW k \in Kb, ResetKb(k) \/ DeleteKb(k)
      PROVE  KeepsOwn(Loop)
  <2>1. PICK op \in {"reset", "delete"} : Starts(Loop, At(op, "collection", k, NoFile))
    BY <1>3 DEF ResetKb, DeleteKb
  <2>2. At(op, "collection", k, NoFile).pc = "collection"
    BY DEF At
  <2>. QED
    BY <1>0, <2>1, <2>2, BeginsElsewhere
<1>4. ASSUME NEW k \in Kb, NEW h \in Thread, NEW f \in File, AddFile(h, k, f)
      PROVE  KeepsOwn(h)
  <2>i. PICK i : i = At("add", IF f \in Tabular THEN "write" ELSE "read", k, f)
    OBVIOUS
  <2>j. PICK j : j = [i EXCEPT !.listed = kb[k].files]
    OBVIOUS
  <2>0. PICK pc \in {"write", "read"} : i = At("add", pc, k, f)
    BY <2>i
  <2>1. i \in Job /\ i.pc = pc
    <3>1. "add" \in Op /\ pc \in Pc
      BY DEF Op, Pc
    <3>. QED
      BY <3>1, <2>0, AtJob
  <2>2. j.pc \in {"write", "read"}
    BY <2>1, <2>j DEF Job
  <2>3. Starts(h, j)
    BY <1>4, <2>i, <2>j DEF AddFile
  <2>. QED
    BY <1>0, <2>2, <2>3, BeginsElsewhere
<1>5. ASSUME NEW k \in Kb, NEW h \in Thread, NEW f \in File, UpdateFile(h, k, f)
      PROVE  KeepsOwn(h)
  <2>1. At("update", "clear", k, f).pc = "clear"
    BY DEF At
  <2>. QED
    BY <1>0, <1>5, <2>1, BeginsElsewhere DEF UpdateFile
<1>6. ASSUME NEW k \in Kb, NEW h \in Thread, NEW f \in File, RemoveFile(h, k, f)
      PROVE  KeepsOwn(h)
  <2>i. PICK i : i = At("remove", "unindex", k, f)
    OBVIOUS
  <2>j. PICK j : j = [i EXCEPT !.listed = kb[k].files]
    OBVIOUS
  <2>0. "remove" \in Op /\ "unindex" \in Pc
    BY DEF Op, Pc
  <2>1. i \in Job /\ i.pc = "unindex"
    BY <2>0, <2>i, AtJob
  <2>2. j.pc = "unindex"
    BY <2>1, <2>j DEF Job
  <2>3. Starts(h, j)
    BY <1>6, <2>i, <2>j DEF RemoveFile
  <2>. QED
    BY <1>0, <2>2, <2>3, BeginsElsewhere
<1>7. ASSUME NEW k \in Kb, NEW h \in Thread, NEW F \in SUBSET File, BatchAdd(h, k, F)
      PROVE  KeepsOwn(h)
  BY <1>0, <1>7, BatchAddText DEF KeepsOwn
<1>8. ASSUME NEW k \in Kb, NEW h \in Thread, NEW F \in SUBSET File,
             NEW texts \in [F -> Text], ProcessBatch(h, k, F, texts)
      PROVE  KeepsOwn(h)
  <2>j. PICK j : j = BatchOf("embedBatch", k, F, texts)
    OBVIOUS
  <2>1. j.op = "embedBatch"
    BY <2>j, BatchJob, Shapes
  <2>. QED
    BY <1>0, <1>8, <2>j, <2>1, BeginsElsewhere DEF ProcessBatch, Shares
<1>9. ASSUME NEW h \in Thread, ResetDb(h)
      PROVE  KeepsOwn(h)
  <2>1. At("wipe", "wipe", NoKb, NoFile).pc = "wipe"
    BY DEF At
  <2>. QED
    BY <1>0, <1>9, <2>1, BeginsElsewhere DEF ResetDb
<1>. QED
  BY <1>0, <1>1, <1>2, <1>3, <1>4, <1>5, <1>6, <1>7, <1>8, <1>9 DEF KbRequest

LEMMA Mover ==
  ASSUME KnowledgeInv, Next
  PROVE  \E h \in Handler : KeepsOwn(h)
BY HandlerText, LoopText, FileRequestText, KbRequestText DEF Next, Handler

\* Only the event loop changes its plan, and only at the beginning of a
\* handler, or between two knowledge bases.
LEMMA PlanMoves ==
  ASSUME Next, plan' # plan
  PROVE  job[Loop].pc \in {"idle", "each"}
<1>1. CASE LoopStep
  BY <1>1 DEF LoopStep, ListNext, ReindexEnds, DropCollection, WriteKbRow, ReindexKb, ReindexFile, Is
<1>2. CASE FileRequest
  BY <1>2 DEF FileRequest, DeleteAllFiles, DeleteFile, EditContent, Upload, ProcessFile, AtOnce, Starts
<1>3. CASE KbRequest
  BY <1>3 DEF KbRequest, ListKbs, Reindex, StartsAll, CreateKb, UpdateKb, ResetKb, DeleteKb,
     AddFile, UpdateFile, RemoveFile, BatchAdd, ProcessBatch, ResetDb, AtOnce, Starts, Is
<1>4. ASSUME NEW h \in Handler, HandlerStep(h) PROVE FALSE
  BY <1>4 DEF HandlerStep, ReadFile, QueryPages, DropPages, Extract, StoreText, StoreTable, CheckHash, Insert,
     ClearVectors, RemovePages, RemoveRow, WriteList, BatchStore, BatchInsert, WipeVectors, WipeKbs
<1>. QED
  BY <1>1, <1>2, <1>3, <1>4 DEF Next

LEMMA InitText == InitH => TextInv
<1> SUFFICES ASSUME InitH PROVE TextInv
  OBVIOUS
<1>1. KnowledgeInv
  BY InitKnowledge DEF InitH
<1>2. \A h \in Handler : job[h].pc = "idle"
  BY DEF InitH, Init, Idle, At
<1>. QED
  BY <1>1, <1>2 DEF TextInv, HasText

LEMMA NextText == TextInv /\ [NextH]_<<vars, history>> => TextInv'
<1> SUFFICES ASSUME TextInv, [NextH]_<<vars, history>> PROVE TextInv'
  OBVIOUS
<1>1. CASE NextH
  <2>1. Next /\ KnowledgeInv /\ KnowledgeInv'
    BY <1>1, NextKnowledge DEF NextH, TextInv
  <2>2. ASSUME NEW g \in Handler, g \notin touched'
        PROVE  HasText(g)'
    <3>1. CASE job'[g].pc = "idle"
      BY <3>1, NoTextInHand
    <3>2. CASE job'[g].pc # "idle"
      <4>1. g \notin touched /\ g \notin Touches
        BY <1>1, <2>2, <3>2 DEF NextH, Is
      <4>2. HasText(g)
        BY <4>1 DEF TextInv
      <4>3. CASE job'[g] # job[g]
        <5>1. PICK h \in Handler : KeepsOwn(h)
          BY <2>1, Mover
        <5>2. g = h
          BY <4>3, <5>1 DEF KeepsOwn, Steps
        <5>. QED
          BY <4>2, <4>3, <5>1, <5>2 DEF KeepsOwn
      <4>4. CASE job'[g] = job[g] /\ g = Loop /\ plan' # plan
        <5>1. job'[g].pc = "each"
          BY <2>1, <3>2, <4>4, PlanMoves
        <5>. QED
          BY <5>1, NoTextInHand
      <4>5. CASE job'[g] = job[g] /\ ~ (g = Loop /\ plan' # plan)
        <5>1. ~ Moves(g) /\ ~ Is(g, "idle")
          BY <3>2, <4>5 DEF Moves, Is
        <5>2. \A f \in File : WorksOnFile(g, f) => file'[f] = file[f]
          BY <4>1, <5>1 DEF Touches
        <5>. QED
          BY <2>1, <4>2, <4>5, <5>2, KeepsText
      <4>. QED
        BY <4>3, <4>4, <4>5
    <3>. QED
      BY <3>1, <3>2
  <2>. QED
    BY <2>1, <2>2 DEF TextInv
<1>2. CASE UNCHANGED <<vars, history>>
  <2>1. KnowledgeInv'
    BY <1>2, NextKnowledge DEF TextInv
  <2>. QED
    BY <1>2, <2>1 DEF TextInv, HasText, There, vars, history
<1>. QED
  BY <1>1, <1>2

\* A step that changes the text of a file that stays.
TextChange(f) == There(f) /\ There(f)' /\ file'[f].content # file[f].content

LEMMA WhoChangesText ==
  ASSUME KnowledgeInv, Next, NEW f \in File, TextChange(f)
  PROVE  \E h \in Handler : StoreText(h) \/ BatchStore(h) \/ StoreTable(h)
<1>1. CASE LoopStep
  BY <1>1 DEF LoopStep, ListNext, ReindexEnds, DropCollection, WriteKbRow, ReindexKb,
     ReindexFile, stores, TextChange
<1>2. CASE FileRequest
  <2>1. CASE DeleteAllFiles
    BY <2>1 DEF DeleteAllFiles, There, TextChange
  <2>2. ASSUME NEW g \in File, DeleteFile(g) PROVE FALSE
    BY <2>2 DEF DeleteFile, There, TextChange, KnowledgeInv, StoresTyped
  <2>3. ASSUME NEW g \in File, NEW c \in Page, EditContent(g, c) PROVE FALSE
    BY <2>3 DEF EditContent, stores, TextChange
  <2>4. ASSUME NEW g \in File, NEW c \in Page, NEW h \in Thread, Upload(h, g, c) PROVE FALSE
    BY <2>4 DEF Upload, TextChange, KnowledgeInv, StoresTyped
  <2>5. ASSUME NEW g \in File, NEW c \in Page, NEW h \in Thread, NEW k, ProcessFile(h, k, g, c)
        PROVE  FALSE
    BY <2>5 DEF ProcessFile, stores, TextChange
  <2>. QED
    BY <1>2, <2>1, <2>2, <2>3, <2>4, <2>5 DEF FileRequest
<1>3. CASE KbRequest
  BY <1>3 DEF KbRequest, ListKbs, Reindex, StartsAll, CreateKb, UpdateKb, ResetKb, DeleteKb,
     AddFile, UpdateFile, RemoveFile, BatchAdd, ProcessBatch, ResetDb, stores, TextChange
<1>4. ASSUME NEW h \in Handler, HandlerStep(h) PROVE StoreText(h) \/ BatchStore(h) \/ StoreTable(h)
  <2>1. ~ RemoveRow(h)
    BY DEF RemoveRow, There, TextChange, KnowledgeInv, StoresTyped
  <2>. QED
    BY <1>4, <2>1 DEF HandlerStep, ReadFile, QueryPages, DropPages, Extract, CheckHash, Insert,
       ClearVectors, RemovePages, WriteList, BatchInsert, WipeVectors, WipeKbs, stores, TextChange
<1>. QED
  BY <1>1, <1>2, <1>3, <1>4 DEF Next

\* Whoever writes the text it has read changes nothing, unless it was
\* disturbed.
LEMMA ChangesText ==
  ASSUME TextInv, Next, NEW f \in File, TextChange(f)
  PROVE  \E h \in Handler : Moves(h) /\ (BringsText(h) \/ h \in touched)
<1>0. KnowledgeInv
  BY DEF TextInv
<1>1. PICK h \in Handler : StoreText(h) \/ BatchStore(h) \/ StoreTable(h)
  BY <1>0, WhoChangesText
<1>2. job[h] \in Job /\ HandOk(job[h]) /\ (h \in touched \/ HasText(h))
  BY <1>0 DEF KnowledgeInv, TextInv
<1>3. CASE StoreText(h)
  <2>1. file' = Stored(job[h].file, job[h].content) /\ job[h].pc = "store" /\ job[h].op \notin Batches
    BY <1>3, Shapes DEF StoreText, Is, TextChange
  <2>2. job[h].file = f /\ job[h].content # file[f].content
    BY <1>0, <2>1 DEF Stored, There, TextChange, KnowledgeInv, StoresTyped
  <2>3. job[h].op \in Brings \/ h \in touched
    BY <1>2, <2>1, <2>2 DEF HasText, HandOk, BatchOk, Embeds, TextChange
  <2>4. Moves(h)
    BY <1>0, <1>3, <2>1, WentTo DEF StoreText, Leads, Moves
  <2>. QED
    BY <2>3, <2>4 DEF BringsText, Brings
<1>4. CASE BatchStore(h)
  <2>1. PICK g, j : BatchStep(h, g, j)
    BY <1>0, <1>4, BatchStoreStep
  <2>2. g = f /\ job[h].texts[g] # file[f].content
    BY <1>0, <2>1 DEF BatchStep, Stored, There, TextChange, KnowledgeInv, StoresTyped
  <2>3. job[h].op \in Batches /\ job[h].pc = "store"
    BY <1>0, <1>4, BatchStoreStep
  <2>4. job[h].op = "embedBatch" \/ h \in touched
    BY <1>2, <2>1, <2>2, <2>3 DEF HasText, TextChange, BatchStep, Batches
  <2>5. job'[h] = j
    BY <1>0, <2>1, Went DEF BatchStep, Goto
  <2>6. Moves(h)
    BY <2>1, <2>5 DEF Moves, BatchStep
  <2>. QED
    BY <2>4, <2>6 DEF BringsText
<1>5. CASE StoreTable(h)
  <2>1. job[h].op = "table"
    BY <1>2, <1>5 DEF HandOk, PlaceOk, StoreTable, Is
  <2>2. Leads(h, {"idle"}) /\ job[h].pc = "table"
    BY <1>0, <1>5, EndedIdle DEF StoreTable, Done, Failed, Is
  <2>3. Moves(h)
    BY <2>2 DEF Leads, Moves
  <2>. QED
    BY <2>1, <2>3 DEF BringsText
<1>. QED
  BY <1>1, <1>3, <1>4, <1>5

\* Only a request that brings a new text (an upload, an edit, a new extraction,
\* a text given to POST /process/file or /process/files/batch) changes the text
\* of a file that stays: embedding it, adding it to a knowledge base, updating
\* or reindexing it, or a batch of a knowledge base, all of which write the
\* row's text back, change it only if another handler has worked on the same in
\* the meantime.
THEOREM TextsChangedByEdits == SpecH => TextChangedByEdits
<1> DEFINE Step == \A f \in File :
       There(f) /\ There(f)' /\ file'[f].content # file[f].content
         => \E h \in Handler : Moves(h) /\ (BringsText(h) \/ h \in touched)
<1>1. TextInv /\ [NextH]_<<vars, history>> => [Step]_vars
  BY ChangesText DEF NextH, TextChange, vars
<1>2. QED
  BY <1>1, InitText, NextText, PTL DEF SpecH, TextChangedByEdits
=============================================================================
