---------------------------- MODULE KnowledgeFiles ----------------------------
(***************************************************************************)
(* Files, knowledge bases and their collections of vectors. What a user    *)
(* sees of a knowledge base is the list file_ids in its row; what a search *)
(* finds is its collection in the vector store; the text of a file is in   *)
(* its row and, embedded, in a collection of its own, "file-<id>". The     *)
(* three stores share no transaction.                                      *)
(*                                                                         *)
(* Handlers written as "def" run in the threads of a pool, those written   *)
(* as "async def" on the event loop, one at a time, since they do not      *)
(* await. A step is one call of the database or of the vector store        *)
(* (Chroma, the default); the steps of threads and event loop interleave.  *)
(* Any call may fail, and most failures are swallowed.                     *)
(***************************************************************************)
EXTENDS Naturals, FiniteSets

CONSTANTS
  File, NoFile,     \* the ids that uploads are given
  Tabular,          \* the files that are CSV or Excel
  Kb, NoKb,         \* the ids that knowledge bases are given
  Content,          \* the texts a file may have
  NoContent,        \* no text, or no collection
  Table,            \* what the row of a tabular file has: the records of it
  NoHash,           \* the hash of the chunks of a batch
  Thread, Loop,     \* the threads of the pool, and the event loop
  MaxRequests       \* bound: requests, beside those for new bases without data

ASSUME ConstantsAssumption ==
  /\ NoFile \notin File /\ NoKb \notin Kb
  /\ NoContent \notin Content /\ Table \notin Content \cup {NoContent}
  /\ NoHash \notin Content \cup {NoContent, Table}
  /\ Tabular \subseteq File /\ Loop \notin Thread /\ MaxRequests \in Nat

VARIABLES
  file,     \* per file: its row, and data["content"] in it
  pages,    \* per file: the text in its collection
  kb,       \* per knowledge base: its row, whether it has no data, and file_ids
  vectors,  \* per knowledge base: what its collection holds
  job,      \* per thread, and for the event loop: the handler it runs
  plan,     \* the knowledge bases a handler of the event loop goes through
  requests, \* how many requests were made
  outcome   \* history: how the handler has ended that took the last step

vars == <<file, pages, kb, vectors, job, plan, requests, outcome>>
stores == <<file, pages, kb, vectors>>

Handler == Thread \cup {Loop}
Page == Content \cup {NoContent}
Text == Page \cup {Table}
Row == {"new", "there", "gone"}
\* A chunk of a file, with metadata.hash.
Vector == [file: File, text: Content, hash: Page \cup {NoHash}]

\* A file is processed with a text that is given, or extracted from it, or is
\* embedded with the text it has.
Op == {"none", "given", "extract", "table", "embed", "add", "update", "remove", "batch",
       "embedBatch", "reindex", "list", "reset", "delete", "wipe"}
Pc == {"idle", "read", "query", "drop", "extract", "store", "check", "insert", "write", "table",
       "clear", "unindex", "unfile", "row", "each", "collection", "kbRow", "wipe", "wipeRows"}
\* listed: the file_ids the handler has read; todo: the files that are left to
\* a batch or a reindex; texts: those a batch has read, batch: its files;
\* content and text: text_content and the text of docs; clean (history): no
\* call of the handler has failed or been refused.
Job == [op: Op, pc: Pc, kb: Kb \cup {NoKb}, file: File \cup {NoFile}, listed: SUBSET File,
        todo: SUBSET File, batch: SUBSET File, texts: [File -> Text],
        content: Text, text: Page, clean: BOOLEAN]
NoTexts == [f \in File |-> NoContent]
At(op, pc, k, f) ==
  [op |-> op, pc |-> pc, kb |-> k, file |-> f, listed |-> {}, todo |-> {},
   batch |-> {}, texts |-> NoTexts, content |-> NoContent, text |-> NoContent, clean |-> TRUE]
Idle == At("none", "idle", NoKb, NoFile)
NewKb == [row |-> "new", bare |-> TRUE, files |-> {}]
Listing(files) == [row |-> "there", bare |-> FALSE, files |-> files]
NoPlan == [todo |-> {}, bare |-> {}, files |-> [k \in Kb |-> {}]]

Init ==
  /\ file = [f \in File |-> [row |-> "new", content |-> NoContent]]
  /\ pages = [f \in File |-> NoContent]
  /\ kb = [k \in Kb |-> NewKb]
  /\ vectors = [k \in Kb |-> {}]
  /\ job = [h \in Handler |-> Idle]
  /\ plan = NoPlan
  /\ requests = 0
  /\ outcome = "none"

There(f) == file[f].row = "there"
Exists(k) == kb[k].row = "there"
\* Who made a request about it once knows its id.
Known(f) == file[f].row # "new"
KnownKb(k) == kb[k].row # "new"

Is(h, pc) == job[h].pc = pc
Goto(h, j) == job' = [job EXCEPT ![h] = j] /\ outcome' = "none"
GotoPc(h, pc) == Goto(h, [job[h] EXCEPT !.pc = pc])
\* A call has failed, and the handler goes on.
GotoUnclean(h, pc) == Goto(h, [job[h] EXCEPT !.pc = pc, !.clean = FALSE])
Counted == requests < MaxRequests /\ requests' = requests + 1
Starts(h, j) == Is(h, "idle") /\ Counted /\ Goto(h, j) /\ UNCHANGED plan
\* A handler without an await on the event loop that is a single call.
AtOnce == Is(Loop, "idle") /\ Counted /\ outcome' = "none" /\ UNCHANGED <<job, plan>>
Ends(h, result) == job' = [job EXCEPT ![h] = Idle] /\ outcome' = result
Done(h) == Ends(h, IF job[h].clean THEN "clean" ELSE "failed")
Failed(h) == Ends(h, "failed")

----------------------------------------------------------------------------
(* process_file and save_docs_to_vector_db: a file is embedded, with a text *)
(* that is given, extracted from what was uploaded, or what it has, and     *)
(* into its own collection or into that of a knowledge base.                *)

OwnCollection(h) == job[h].kb = NoKb

\* What the caller does when the file has been processed ...
Rest(h, pc) == [job[h] EXCEPT !.pc = pc, !.content = NoContent, !.text = NoContent]
Processed(h) ==
  CASE job[h].op = "add" -> Goto(h, Rest(h, "write"))
    [] job[h].op = "reindex" -> Goto(h, Rest(h, "each"))
    [] OTHER -> Done(h)

\* Mutant: add lists a file that could not be embedded.
Raised_Swallowed(h) ==
  IF job[h].op = "reindex" THEN Goto(h, [Rest(h, "each") EXCEPT !.clean = FALSE])
  ELSE IF job[h].op = "add" THEN Goto(h, Rest(h, "write")) ELSE Failed(h)

\* ... and when that raised: reindex goes on with the next file.
Raised(h) ==
  IF job[h].op = "reindex" THEN Goto(h, [Rest(h, "each") EXCEPT !.clean = FALSE])
                           ELSE Failed(h)

\* The row is read. A text that was given is taken; or else, for a knowledge
\* base, what the file has, and for the file's own collection the file itself.
ReadFile(h) ==
  /\ Is(h, "read")
  /\ \/ /\ There(job[h].file)
        /\ IF job[h].content # NoContent THEN GotoPc(h, "drop")
           ELSE IF OwnCollection(h) THEN GotoPc(h, "extract")
           ELSE Goto(h, [job[h] EXCEPT !.pc = "query", !.content = file[job[h].file].content])
     \/ Raised(h)
  /\ UNCHANGED <<stores, plan, requests>>

\* Mutant: the collection stays.
DropPages_Kept(h) ==
  /\ Is(h, "drop")
  /\ Goto(h, [job[h] EXCEPT !.pc = "store", !.text = job[h].content])
  /\ UNCHANGED <<stores, plan, requests>>

\* The file's own collection is deleted before a new text goes into it; an
\* error is ignored.
DropPages(h) ==
  /\ Is(h, "drop")
  /\ \/ /\ pages' = [pages EXCEPT ![job[h].file] = NoContent]
        /\ Goto(h, [job[h] EXCEPT !.pc = "store", !.text = job[h].content])
     \/ /\ UNCHANGED pages
        /\ Goto(h, [job[h] EXCEPT !.pc = "store", !.text = job[h].content, !.clean = FALSE])
  /\ UNCHANGED <<file, kb, vectors, plan, requests>>

\* The text comes from the file's collection if it has one, or else, as when
\* the query fails, from the row. The records of a table are no text.
QueryPages(h) ==
  /\ Is(h, "query")
  /\ \/ \E text \in ({pages[job[h].file]} \ {NoContent})
                      \cup (IF job[h].content = Table THEN {} ELSE {job[h].content}) :
          Goto(h, [job[h] EXCEPT !.pc = "store", !.text = text])
     \/ job[h].content = Table /\ Raised(h)
  /\ UNCHANGED <<stores, plan, requests>>

\* The text is extracted from the file, of which tabular ones are not kept.
\* What its collection holds stays.
Extract(h) ==
  /\ Is(h, "extract")
  /\ \/ /\ job[h].file \notin Tabular
        /\ \E c \in Page : Goto(h, [job[h] EXCEPT !.pc = "store", !.content = c, !.text = c])
     \/ Raised(h)
  /\ UNCHANGED <<stores, plan, requests>>

\* Files.update_file_data_by_id: nothing happens if the row is gone.
Stored(f, content) ==
  IF There(f) THEN [file EXCEPT ![f].content = content] ELSE file

\* Mutant: the text that was embedded is stored.
StoreText_Embedded(h) ==
  /\ Is(h, "store") /\ job[h].op \notin {"batch", "embedBatch"}
  /\ \/ file' = Stored(job[h].file, job[h].text) /\ GotoPc(h, "check")
     \/ UNCHANGED file /\ GotoUnclean(h, "check")
  /\ UNCHANGED <<pages, kb, vectors, plan, requests>>

\* An error is swallowed.
StoreText(h) ==
  /\ Is(h, "store") /\ job[h].op \notin {"batch", "embedBatch"}
  /\ \/ file' = Stored(job[h].file, job[h].content) /\ GotoPc(h, "check")
     \/ UNCHANGED file /\ GotoUnclean(h, "check")
  /\ UNCHANGED <<pages, kb, vectors, plan, requests>>

\* Whether a chunk in the collection has the hash of the text.
Duplicate(h) ==
  IF OwnCollection(h) THEN pages[job[h].file] = job[h].content
                      ELSE \E v \in vectors[job[h].kb] : v.hash = job[h].content

\* A text that is in the collection already, or is empty, is refused, and a
\* table has no hash. A query that fails finds nothing.
CheckHash(h) ==
  /\ Is(h, "check")
  /\ \/ /\ job[h].text = NoContent \/ job[h].content = Table \/ Duplicate(h)
        /\ Raised(h)
     \/ /\ job[h].text # NoContent /\ job[h].content # Table
        /\ GotoPc(h, "insert")
  /\ UNCHANGED <<stores, plan, requests>>

Chunk(h) == [file |-> job[h].file, text |-> job[h].text, hash |-> job[h].content]

\* The text is embedded and inserted; into its own collection only if that
\* does not exist.
Insert(h) ==
  /\ Is(h, "insert") /\ job[h].op \notin {"batch", "embedBatch"}
  /\ \/ /\ OwnCollection(h)
        /\ pages' = [pages EXCEPT ![job[h].file] = IF @ = NoContent THEN job[h].text ELSE @]
        /\ Processed(h)
        /\ UNCHANGED vectors
     \/ /\ ~ OwnCollection(h)
        /\ vectors' = [vectors EXCEPT ![job[h].kb] = @ \cup {Chunk(h)}]
        /\ Processed(h)
        /\ UNCHANGED pages
     \/ /\ Raised(h)
        /\ UNCHANGED <<pages, vectors>>
  /\ UNCHANGED <<file, kb, plan, requests>>

\* The route of its own: any text or none, for any collection.
Processing(k, f, c) ==
  [At(IF c # NoContent THEN "given" ELSE IF k = NoKb THEN "extract" ELSE "embed", "read", k, f)
     EXCEPT !.content = c]
ProcessFile(h, k, f, c) ==
  /\ h \in Thread /\ Known(f) /\ k \in {NoKb} \cup {l \in Kb : KnownKb(l)}
  /\ Starts(h, Processing(k, f, c))
  /\ UNCHANGED stores

----------------------------------------------------------------------------
(* Files: upload_file, update_file_data_content_by_id and the deletions. *)

\* The row is inserted. Images, or on request any file, are not processed any
\* further; of speech there is a transcript.
Upload(h, f, c) ==
  /\ h \in Thread /\ Is(h, "idle") /\ file[f].row = "new" /\ Counted
  /\ file' = [file EXCEPT ![f].row = "there"]
  /\ \/ outcome' = "none" /\ UNCHANGED job
     \/ f \in Tabular /\ Goto(h, At("table", "table", NoKb, f))
     \/ f \notin Tabular /\ Goto(h, Processing(NoKb, f, c))
  /\ UNCHANGED <<pages, kb, vectors, plan>>

\* process_tabular_file: the records are stored, unless the file is refused.
StoreTable(h) ==
  /\ Is(h, "table")
  /\ \/ file' = Stored(job[h].file, Table) /\ Done(h)
     \/ UNCHANGED file /\ Failed(h)
  /\ UNCHANGED <<pages, kb, vectors, plan, requests>>

\* The text of a file is replaced, or if it is empty extracted again; an error
\* is logged and answered with what the row has.
EditContent(f, c) ==
  /\ There(f)
  /\ Starts(Loop, Processing(NoKb, f, c))
  /\ UNCHANGED stores

\* The row goes; lists, collections and vectors stay.
DeleteFile(f) ==
  /\ AtOnce /\ There(f)
  /\ file' = [file EXCEPT ![f] = [row |-> "gone", content |-> NoContent]]
  /\ UNCHANGED <<pages, kb, vectors>>

DeleteAllFiles ==
  /\ AtOnce /\ \E f \in File : There(f)
  /\ file' = [f \in File |-> IF There(f) THEN [row |-> "gone", content |-> NoContent]
                                         ELSE file[f]]
  /\ UNCHANGED <<pages, kb, vectors>>

----------------------------------------------------------------------------
(* The files of a knowledge base, in threads. No handler but the last step  *)
(* of a removal asks whether the knowledge base lists the file.             *)

\* add_file_to_knowledge_by_id: a tabular file is listed only.
AddFile(h, k, f) ==
  /\ h \in Thread /\ Exists(k) /\ There(f)
  /\ Starts(h, [At("add", IF f \in Tabular THEN "write" ELSE "read", k, f)
                  EXCEPT !.listed = kb[k].files])
  /\ UNCHANGED stores

\* update_file_from_knowledge_by_id: what the collection has of the file is
\* deleted first.
UpdateFile(h, k, f) ==
  /\ h \in Thread /\ Exists(k) /\ There(f)
  /\ Starts(h, At("update", "clear", k, f))
  /\ UNCHANGED stores

\* Mutant: chunks without a hash are not found.
Without_Hashed(k, f) == {v \in vectors[k] : v.file # f \/ v.hash = NoHash}

Without(k, f) == {v \in vectors[k] : v.file # f}

\* VECTOR_DB_CLIENT.delete; Chroma's client ignores an error.
ClearVectors(h) ==
  /\ job[h].pc \in {"clear", "unindex"}
  /\ LET next == IF Is(h, "clear") THEN "read" ELSE "unfile" IN
       \/ /\ vectors' = [vectors EXCEPT ![job[h].kb] = Without(job[h].kb, job[h].file)]
          /\ GotoPc(h, next)
       \/ UNCHANGED vectors /\ GotoUnclean(h, next)
  /\ UNCHANGED <<file, pages, kb, plan, requests>>

\* remove_file_from_knowledge_by_id: the vectors ...
RemoveFile(h, k, f) ==
  /\ h \in Thread /\ Exists(k) /\ There(f)
  /\ Starts(h, [At("remove", "unindex", k, f) EXCEPT !.listed = kb[k].files])
  /\ UNCHANGED stores

\* ... the collection of the file, errors being ignored ...
RemovePages(h) ==
  /\ Is(h, "unfile")
  /\ \/ /\ pages' = [pages EXCEPT ![job[h].file] = NoContent]
        /\ GotoPc(h, "row")
     \/ UNCHANGED pages /\ GotoUnclean(h, "row")
  /\ UNCHANGED <<file, kb, vectors, plan, requests>>

\* Mutant: the row is marked, its text kept.
RemoveRow_Marked(h) ==
  /\ Is(h, "row")
  /\ file' = [file EXCEPT ![job[h].file].row = "gone"]
  /\ GotoPc(h, "write")
  /\ UNCHANGED <<pages, kb, vectors, plan, requests>>

\* ... the row, whichever other knowledge bases list the file, again
\* ignoring errors ...
RemoveRow(h) ==
  /\ Is(h, "row")
  /\ \/ /\ file' = [file EXCEPT ![job[h].file] = [row |-> "gone", content |-> NoContent]]
        /\ GotoPc(h, "write")
     \/ UNCHANGED file /\ GotoUnclean(h, "write")
  /\ UNCHANGED <<pages, kb, vectors, plan, requests>>

\* The list that add, remove and batch write: computed from what they read.
NewList(h) ==
  CASE job[h].op = "add" -> job[h].listed \cup {job[h].file}
    [] job[h].op = "remove" -> job[h].listed \ {job[h].file}
    [] job[h].op = "batch" -> job[h].listed \cup job[h].batch

\* ... and the entry in the list, which is written as a whole. A file that is
\* listed is not added again, nor one that is not removed, and a row that is
\* gone is not updated.
WriteList(h) ==
  /\ Is(h, "write")
  /\ LET k == job[h].kb
         refused == \/ job[h].op = "add" /\ job[h].file \in job[h].listed
                    \/ job[h].op = "remove" /\ job[h].file \notin job[h].listed IN
       \/ /\ ~ refused /\ Exists(k)
          /\ kb' = [kb EXCEPT ![k] = Listing(NewList(h))]
          /\ Done(h)
       \/ /\ Failed(h)
          /\ UNCHANGED kb
  /\ UNCHANGED <<file, pages, vectors, plan, requests>>

BatchOf(op, k, F, texts) ==
  [At(op, IF F = {} THEN "insert" ELSE "store", k, NoFile) EXCEPT
     !.todo = F, !.batch = F, !.texts = [f \in File |-> IF f \in F THEN texts[f] ELSE NoContent]]

\* add_files_to_knowledge_batch reads the rows of all files ...
BatchAdd(h, k, F) ==
  /\ h \in Thread /\ Exists(k) /\ \A f \in F : There(f)
  /\ Starts(h, [BatchOf("batch", k, F, [f \in F |-> file[f].content]) EXCEPT !.listed = kb[k].files])
  /\ UNCHANGED stores

\* (process_files_batch as a route of its own is given the texts)
ProcessBatch(h, k, F, texts) ==
  /\ h \in Thread /\ KnownKb(k) /\ \A f \in F : Known(f)
  /\ Starts(h, BatchOf("embedBatch", k, F, texts))
  /\ UNCHANGED stores

\* ... writes their texts back, one by one, an error being swallowed, and
\* leaves out a file with a table, or without any data, ...
BatchStore(h) ==
  /\ Is(h, "store") /\ job[h].op \in {"batch", "embedBatch"}
  /\ \E f \in job[h].todo :
       LET next == [job[h] EXCEPT !.todo = @ \ {f},
                                  !.pc = IF job[h].todo = {f} THEN "insert" ELSE "store"] IN
       \/ /\ job[h].texts[f] # Table
          /\ \/ file' = Stored(f, job[h].texts[f]) /\ Goto(h, next)
             \/ UNCHANGED file /\ Goto(h, [next EXCEPT !.clean = FALSE])
       \/ /\ job[h].texts[f] \notin Content
          /\ Goto(h, [next EXCEPT !.batch = @ \ {f}]) /\ UNCHANGED file
  /\ UNCHANGED <<pages, kb, vectors, plan, requests>>

BatchChunks(h) ==
  {[file |-> f, text |-> job[h].texts[f], hash |-> NoHash] :
     f \in {g \in job[h].batch : job[h].texts[g] # NoContent}}

\* ... and embeds them at once, whatever the collection holds. A file without
\* text counts as embedded if another has one; if no file is left there is
\* nothing to embed, and the list is written as it was. An error, or that
\* there is no text, ends in another one, of the answer's validation.
BatchInsert(h) ==
  /\ Is(h, "insert") /\ job[h].op \in {"batch", "embedBatch"}
  /\ \/ /\ job[h].batch = {} \/ BatchChunks(h) # {}
        /\ vectors' = [vectors EXCEPT ![job[h].kb] = @ \cup BatchChunks(h)]
        /\ IF job[h].op = "batch" THEN Goto(h, [job[h] EXCEPT !.pc = "write", !.texts = NoTexts])
                                  ELSE Done(h)
     \/ /\ job[h].batch # {}
        /\ Failed(h)
        /\ UNCHANGED vectors
  /\ UNCHANGED <<file, pages, kb, plan, requests>>

----------------------------------------------------------------------------
(* Knowledge bases, on the event loop. The references of models to a        *)
(* knowledge base, which its deletion removes, are left out: nothing here   *)
(* depends on them.                                                         *)

\* The data of a form is any list of files, or none; it is not looked at.
Form == {Listing(files) : files \in SUBSET {f \in File : Known(f)}} \cup {[NewKb EXCEPT !.row = "there"]}

CreateKb(k) ==
  /\ Is(Loop, "idle") /\ kb[k].row = "new"
  /\ \E form \in Form : /\ kb' = [kb EXCEPT ![k] = form]
                       /\ IF form.bare THEN UNCHANGED requests ELSE Counted
  /\ outcome' = "none"
  /\ UNCHANGED <<file, pages, vectors, job, plan>>

\* update_knowledge_by_id writes all of the form.
UpdateKb(k) ==
  /\ AtOnce /\ Exists(k)
  /\ \E form \in Form : kb' = [kb EXCEPT ![k] = form]
  /\ UNCHANGED <<file, pages, vectors>>

\* get_knowledge and reindex_knowledge_files read all knowledge bases ...
StartsAll(op) ==
  /\ Is(Loop, "idle") /\ Counted /\ \E k \in Kb : Exists(k)
  /\ plan' = [todo |-> {k \in Kb : Exists(k)},
              bare |-> {k \in Kb : Exists(k) /\ kb[k].bare},
              files |-> [k \in Kb |-> kb[k].files]]
  /\ Goto(Loop, At(op, "each", NoKb, NoFile))
  /\ UNCHANGED stores

ListKbs == StartsAll("list")
Reindex == StartsAll("reindex")

AllDone == plan' = NoPlan /\ Done(Loop)

\* ... and go through them. A listing takes the files that are gone off the
\* list it has read, and writes it if there are any; an error is swallowed,
\* unless the files cannot be read.
ListNext ==
  /\ Is(Loop, "each") /\ job[Loop].op = "list"
  /\ \/ plan.todo = {} /\ AllDone /\ UNCHANGED kb
     \/ plan.todo # {} /\ plan' = NoPlan /\ Failed(Loop) /\ UNCHANGED kb
     \/ \E k \in plan.todo :
          LET left == {f \in plan.files[k] : There(f)} IN
          /\ \/ UNCHANGED kb
             \/ /\ left # plan.files[k] /\ Exists(k)
                /\ kb' = [kb EXCEPT ![k] = Listing(left)]
          /\ plan' = [plan EXCEPT !.todo = @ \ {k}]
          /\ outcome' = "none" /\ UNCHANGED job
  /\ UNCHANGED <<file, pages, vectors, requests>>

\* A reindex deletes the collection, processes the files it has listed that
\* have a row, ...
ReindexKb(k) ==
  /\ Is(Loop, "each") /\ job[Loop].op = "reindex"
  /\ job[Loop].todo = {} /\ k \in plan.todo
  /\ \/ /\ k \notin plan.bare
        /\ vectors' = [vectors EXCEPT ![k] = {}]
        /\ plan' = [plan EXCEPT !.todo = @ \ {k}]
        /\ Goto(Loop, [job[Loop] EXCEPT !.kb = k, !.todo = {f \in plan.files[k] : There(f)}])
     \* ... and is answered with an error when a call fails, or when a
     \* knowledge base has never had a file.
     \/ /\ plan' = NoPlan /\ Failed(Loop)
        /\ UNCHANGED vectors
  /\ UNCHANGED <<file, pages, kb, requests>>

ReindexFile(f) ==
  /\ Is(Loop, "each") /\ job[Loop].op = "reindex" /\ f \in job[Loop].todo
  /\ Goto(Loop, [job[Loop] EXCEPT !.pc = "read", !.file = f, !.todo = @ \ {f}])
  /\ UNCHANGED <<stores, plan, requests>>

ReindexEnds ==
  /\ Is(Loop, "each") /\ job[Loop].op = "reindex"
  /\ job[Loop].todo = {} /\ plan.todo = {}
  /\ AllDone
  /\ UNCHANGED <<stores, requests>>

\* reset_knowledge_by_id and delete_knowledge_by_id delete the collection,
\* errors being ignored, ...
ResetKb(k) == Exists(k) /\ Starts(Loop, At("reset", "collection", k, NoFile)) /\ UNCHANGED stores
DeleteKb(k) == Exists(k) /\ Starts(Loop, At("delete", "collection", k, NoFile)) /\ UNCHANGED stores

DropCollection ==
  /\ Is(Loop, "collection")
  /\ \/ /\ vectors' = [vectors EXCEPT ![job[Loop].kb] = {}]
        /\ GotoPc(Loop, "kbRow")
     \/ UNCHANGED vectors /\ GotoUnclean(Loop, "kbRow")
  /\ UNCHANGED <<file, pages, kb, plan, requests>>

\* ... and then empty the list, or delete the row, if it is still there and no
\* error comes, which is swallowed.
WriteKbRow ==
  /\ Is(Loop, "kbRow")
  /\ \/ /\ Exists(job[Loop].kb)
        /\ kb' = [kb EXCEPT ![job[Loop].kb] =
              IF job[Loop].op = "reset" THEN Listing({})
                                        ELSE [NewKb EXCEPT !.row = "gone"]]
        /\ Done(Loop)
     \/ UNCHANGED kb /\ Failed(Loop)
  /\ UNCHANGED <<file, pages, vectors, plan, requests>>

\* reset_vector_db, in a thread: all collections go, and then all rows.
ResetDb(h) == h \in Thread /\ Starts(h, At("wipe", "wipe", NoKb, NoFile)) /\ UNCHANGED stores

WipeVectors(h) ==
  /\ Is(h, "wipe")
  /\ \/ /\ vectors' = [k \in Kb |-> {}] /\ pages' = [f \in File |-> NoContent]
        /\ GotoPc(h, "wipeRows")
     \/ UNCHANGED <<vectors, pages>> /\ Failed(h)
  /\ UNCHANGED <<file, kb, plan, requests>>

WipeKbs(h) ==
  /\ Is(h, "wipeRows")
  /\ \/ /\ kb' = [k \in Kb |-> IF Exists(k) THEN [NewKb EXCEPT !.row = "gone"] ELSE kb[k]]
        /\ Done(h)
     \/ UNCHANGED kb /\ Failed(h)
  /\ UNCHANGED <<file, pages, vectors, plan, requests>>

----------------------------------------------------------------------------

HandlerStep(h) ==
  \/ ReadFile(h) \/ DropPages(h) \/ QueryPages(h) \/ Extract(h) \/ StoreText(h) \/ CheckHash(h)
  \/ Insert(h) \/ StoreTable(h) \/ ClearVectors(h) \/ RemovePages(h) \/ RemoveRow(h)
  \/ WriteList(h) \/ BatchStore(h) \/ BatchInsert(h) \/ WipeVectors(h) \/ WipeKbs(h)

LoopStep ==
  \/ ListNext \/ ReindexEnds \/ DropCollection \/ WriteKbRow
  \/ \E k \in Kb : ReindexKb(k)
  \/ \E f \in File : ReindexFile(f)

FileRequest ==
  \/ DeleteAllFiles
  \/ \E f \in File : DeleteFile(f)
  \/ \E f \in File, c \in Page :
       \/ EditContent(f, c)
       \/ \E h \in Thread : Upload(h, f, c) \/ \E k \in Kb \cup {NoKb} : ProcessFile(h, k, f, c)

KbRequest ==
  \/ ListKbs \/ Reindex \/ \E h \in Thread : ResetDb(h)
  \/ \E k \in Kb :
       \/ CreateKb(k) \/ UpdateKb(k) \/ ResetKb(k) \/ DeleteKb(k)
       \/ \E h \in Thread, f \in File : AddFile(h, k, f) \/ UpdateFile(h, k, f) \/ RemoveFile(h, k, f)
       \/ \E h \in Thread, F \in SUBSET File :
            BatchAdd(h, k, F) \/ \E texts \in [F -> Text] : ProcessBatch(h, k, F, texts)

Next == FileRequest \/ KbRequest \/ LoopStep \/ \E h \in Handler : HandlerStep(h)

Spec == Init /\ [][Next]_vars

----------------------------------------------------------------------------
(* Properties *)

\* The rows, collections and local variables are well formed: a row that is
\* gone keeps nothing, and who has a file in hand has one that was uploaded.
TypeOK ==
  /\ file \in [File -> [row: Row, content: Text]]
  /\ pages \in [File -> Page]
  /\ kb \in [Kb -> [row: Row, bare: BOOLEAN, files: SUBSET File]]
  /\ vectors \in [Kb -> SUBSET Vector]
  /\ job \in [Handler -> Job]
  /\ requests \in 0 .. MaxRequests /\ outcome \in {"none", "clean", "failed"}
  /\ plan \in [todo: SUBSET Kb, bare: SUBSET Kb, files: [Kb -> SUBSET File]]
  /\ \A f \in File : There(f) \/ file[f].content = NoContent
  /\ \A h \in Handler : job[h].file # NoFile => file[job[h].file].row # "new"
=============================================================================
