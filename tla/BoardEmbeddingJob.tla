------------------------- MODULE BoardEmbeddingJob -------------------------
(***************************************************************************)
(* The board embedding job queue: assistants that are saved with board_ids *)
(* put one job per board into the boardEmbeddingJob collection, a          *)
(* background worker in every server process takes the oldest pending job  *)
(* and rebuilds the board's rows in the rag store, and the data-board      *)
(* service deletes a board's rows and jobs.                                *)
(*                                                                         *)
(* One action per database or HTTP call: everything between two awaits of  *)
(* one coroutine is atomic, everything else interleaves, across coroutines *)
(* of one process and across processes.                                    *)
(***************************************************************************)
EXTENDS Naturals, Sequences, FiniteSets

CONSTANTS
  Board, Assistant, NoBoard, NoAssistant,
  Worker,         \* the server processes, each with its embedding worker
  Caller,         \* requests that save an assistant, concurrently in flight
  Deleter,        \* requests that delete a board, concurrently in flight
  MaxRetries,     \* the 3 of get_pending_jobs and mark_job_failed
  MaxBatch,       \* bound: batches of 500 documents in one board export
  MaxJobs,        \* bound: jobs ever inserted
  DbType,         \* "postgresql" or "mongodb"
  StoreMayFail,   \* whether a call of the document store may fail
  MayCrash        \* whether a server process may die between two calls

ASSUME ConstantsAssumption ==
  /\ NoBoard \notin Board /\ NoAssistant \notin Assistant
  /\ IsFiniteSet(Worker)
  /\ MaxRetries \in Nat \ {0}
  /\ MaxBatch \in Nat
  /\ DbType \in {"postgresql", "mongodb"}
  /\ StoreMayFail \in BOOLEAN /\ MayCrash \in BOOLEAN

VARIABLES
  jobs,      \* the collection, in the order of created_at; the id is the index
  rag,       \* copies stored of <<board, assistant, batch, writer>>
  parquet,   \* <<board, assistant, batches>> of the parquet records saved
  embedFlag, \* boards marked is_embed in the data-board service
  run,       \* per worker: its place in the loop and its local variables
  call,      \* per caller: the same
  dboard     \* per deleter: the board, between its two calls

vars == <<jobs, rag, parquet, embedFlag, run, call, dboard>>

Status == {"pending", "in_progress", "done", "error"}
Job == [board: Board, assistant: Assistant, status: Status, retry: Nat,
        deleted: BOOLEAN]
Batch == 1 .. MaxBatch
Row == Board \X Assistant \X Batch \X Worker

RunPc == {"poll", "start", "clear", "export", "embed", "save", "finish",
          "fail", "failWrite", "down"}
Run == [pc: RunPc, job: Nat, total: 0 .. MaxBatch, batch: 0 .. MaxBatch, retry: Nat]
FreshRun(pc, j) == [pc |-> pc, job |-> j, total |-> 0, batch |-> 0, retry |-> 0]
NoRun == FreshRun("poll", 0)

CallPc == {"idle", "mark", "check", "insert"}
Call == [pc: CallPc, assistant: Assistant \cup {NoAssistant},
         boards: SUBSET Board, board: Board \cup {NoBoard}]
FreshCall(pc, a, boards) ==
  [pc |-> pc, assistant |-> a, boards |-> boards, board |-> NoBoard]
NoCall == FreshCall("idle", NoAssistant, {})

Init ==
  /\ jobs = << >>
  /\ rag = [r \in Row |-> 0]
  /\ parquet = {} /\ embedFlag = {}
  /\ run = [w \in Worker |-> NoRun]
  /\ call = [c \in Caller |-> NoCall]
  /\ dboard = [d \in Deleter |-> NoBoard]

----------------------------------------------------------------------------
(* The collection. *)

Ids == DOMAIN jobs
Live(j) == ~ jobs[j].deleted

\* Mutant: the filter loses its deleted_at condition.
Update_AnyRow(j, status, retry) ==
  [jobs EXCEPT ![j] = [@ EXCEPT !.status = status, !.retry = retry]]

\* update: the filter carries deleted_at None, a job that does not match is
\* left alone (and the call answers None).
Update(j, status, retry) ==
  IF Live(j)
    THEN [jobs EXCEPT ![j] = [@ EXCEPT !.status = status, !.retry = retry]]
    ELSE jobs

\* A store that may fail answers None whether or not the write took effect.
MaybeUpdate(j, status, retry) ==
  StoreMayFail /\ jobs' \in {jobs, Update(j, status, retry)}

\* Mutant: the query forgets the status.
Pending_AnyStatus(j) == Live(j) /\ jobs[j].retry < MaxRetries

\* The filter of get_pending_jobs.
Pending(j) ==
  jobs[j].status = "pending" /\ Live(j) /\ jobs[j].retry < MaxRetries

RowsCleared(b) == [r \in Row |-> IF r[1] = b THEN 0 ELSE rag[r]]

\* Mutant: the rows leave the collection.
SoftDelete_HardDelete(b) == SelectSeq(jobs, LAMBDA job : job.board # b)

\* Soft deletion of the live jobs of a board.
SoftDelete(b) ==
  [j \in Ids |-> IF jobs[j].board = b /\ Live(j)
                   THEN [jobs[j] EXCEPT !.deleted = TRUE]
                   ELSE jobs[j]]

----------------------------------------------------------------------------
(* create_board_embedding_jobs_for_assistant, one board per iteration. *)

SaveAssistant(c, a, boards) ==
  /\ call[c].pc = "idle" /\ boards # {}
  /\ call' = [call EXCEPT ![c] = FreshCall("mark", a, boards)]
  /\ UNCHANGED <<jobs, rag, parquet, embedFlag, run, dboard>>

\* Mutant: an error of the PUT does not skip the board.
MarkBoardAsEmbed_Unchecked(c) ==
  /\ call[c].pc = "mark"
  /\ \E b \in call[c].boards :
       /\ embedFlag' \in {embedFlag, embedFlag \cup {b}}
       /\ call' = [call EXCEPT ![c] = [@ EXCEPT !.pc = "check", !.board = b,
                                               !.boards = call[c].boards \ {b}]]
  /\ UNCHANGED <<jobs, rag, parquet, run, dboard>>

\* The PUT to the data-board service; an error there skips the board.
MarkBoardAsEmbed(c) ==
  /\ call[c].pc = "mark"
  /\ \E b \in call[c].boards :
       \/ /\ embedFlag' = embedFlag \cup {b}
          /\ call' = [call EXCEPT ![c] = [@ EXCEPT !.pc = "check", !.board = b,
                                                  !.boards = call[c].boards \ {b}]]
       \/ /\ call' = [call EXCEPT ![c].boards = @ \ {b}]
          /\ UNCHANGED embedFlag
  /\ UNCHANGED <<jobs, rag, parquet, run, dboard>>

ReturnJobIds(c) ==
  /\ call[c].pc = "mark" /\ call[c].boards = {}
  /\ call' = [call EXCEPT ![c] = NoCall]
  /\ UNCHANGED <<jobs, rag, parquet, embedFlag, run, dboard>>

\* The filter of get_by_filters.
Matches(j, b, a) == Live(j) /\ jobs[j].board = b /\ jobs[j].assistant = a

\* get_by_filters; a failing query answers the empty list.
CheckExisting(c) ==
  /\ call[c].pc = "check"
  /\ \E found \in BOOLEAN :
       /\ \/ found = \E j \in Ids : Matches(j, call[c].board, call[c].assistant)
          \/ StoreMayFail /\ found = FALSE
       /\ call' = [call EXCEPT ![c].pc = IF found THEN "mark" ELSE "insert"]
  /\ UNCHANGED <<jobs, rag, parquet, embedFlag, run, dboard>>

NewJob(b, a) == [board |-> b, assistant |-> a, status |-> "pending", retry |-> 0,
                 deleted |-> FALSE]

CreateJob(c) ==
  /\ call[c].pc = "insert" /\ Len(jobs) < MaxJobs
  /\ \/ jobs' = Append(jobs, NewJob(call[c].board, call[c].assistant))
     \/ StoreMayFail /\ UNCHANGED jobs
  /\ call' = [call EXCEPT ![c].pc = "mark"]
  /\ UNCHANGED <<rag, parquet, embedFlag, run, dboard>>

CallerStep(c) ==
  \/ \E a \in Assistant, boards \in SUBSET Board : SaveAssistant(c, a, boards)
  \/ MarkBoardAsEmbed(c) \/ CheckExisting(c) \/ CreateJob(c) \/ ReturnJobIds(c)

----------------------------------------------------------------------------
(* process_pending_board_embedding_job, called for ever by the worker of a  *)
(* server process.                                                          *)

At(w, pc) == run[w].pc = pc
Goto(w, pc) == run' = [run EXCEPT ![w].pc = pc]
Return(w) == run' = [run EXCEPT ![w] = NoRun]

\* get_pending_jobs: the oldest of the pending jobs.
GetPendingJob(w) ==
  /\ At(w, "poll")
  /\ \E j \in Ids :
       /\ Pending(j) /\ \A i \in Ids : Pending(i) => j <= i
       /\ run' = [run EXCEPT ![w] = FreshRun("start", j)]
  /\ UNCHANGED <<jobs, rag, parquet, embedFlag, call, dboard>>

\* mark_job_started: the status is written, not compared.
MarkJobStarted(w) ==
  LET j == run[w].job IN
  /\ At(w, "start")
  /\ \/ Live(j) /\ jobs' = Update(j, "in_progress", jobs[j].retry) /\ Goto(w, "clear")
     \/ ~ Live(j) /\ UNCHANGED jobs /\ Return(w)
     \/ MaybeUpdate(j, "in_progress", jobs[j].retry) /\ Return(w)
  /\ UNCHANGED <<rag, parquet, embedFlag, call, dboard>>

\* Mutant: the rows are deleted on the first attempt only.
DeleteExistingRows_FirstAttempt(w) ==
  /\ At(w, "clear")
  /\ rag' = IF jobs[run[w].job].retry = 0 THEN RowsCleared(jobs[run[w].job].board)
                                           ELSE rag
  /\ Goto(w, "export")
  /\ UNCHANGED <<jobs, parquet, embedFlag, call, dboard>>

\* _delete_existing_rag_records: the rows of every assistant go. An error is
\* raised by asyncpg, swallowed by the MongoDB client.
DeleteExistingRows(w) ==
  /\ At(w, "clear")
  /\ \/ rag' = RowsCleared(jobs[run[w].job].board) /\ Goto(w, "export")
     \/ /\ StoreMayFail /\ UNCHANGED rag
        /\ Goto(w, IF DbType = "postgresql" THEN "fail" ELSE "export")
  /\ UNCHANGED <<jobs, parquet, embedFlag, call, dboard>>

\* _get_board_parquet_s3_url and the reading of the file, which yields some
\* number of batches, 0 when the board is empty.
ExportBoard(w) ==
  /\ At(w, "export")
  /\ \/ \E n \in 0 .. MaxBatch :
          run' = [run EXCEPT ![w] = [@ EXCEPT !.total = n, !.batch = 0,
                                              !.pc = IF n = 0 THEN "save" ELSE "embed"]]
     \/ Goto(w, "fail")
  /\ UNCHANGED <<jobs, rag, parquet, embedFlag, call, dboard>>

RowOf(w, k) == <<jobs[run[w].job].board, jobs[run[w].job].assistant, k, w>>

\* Mutant: a failing batch is skipped and the run goes on.
EmbedBatch_SkipFailed(w) ==
  LET k == run[w].batch + 1 IN
  /\ At(w, "embed")
  /\ rag' = [rag EXCEPT ![RowOf(w, k)] = @ + 1] \/ UNCHANGED rag
  /\ run' = [run EXCEPT ![w] = [@ EXCEPT !.batch = k,
               !.pc = IF k = run[w].total THEN "save" ELSE "embed"]]
  /\ UNCHANGED <<jobs, parquet, embedFlag, call, dboard>>

\* afrom_documents for one batch; an error of the embedding provider or of
\* the store ends the run and leaves the batches already stored.
EmbedBatch(w) ==
  LET k == run[w].batch + 1 IN
  /\ At(w, "embed")
  /\ \/ /\ rag' = [rag EXCEPT ![RowOf(w, k)] = @ + 1]
        /\ run' = [run EXCEPT ![w] = [@ EXCEPT !.batch = k,
                     !.pc = IF k = run[w].total THEN "save" ELSE "embed"]]
     \/ Goto(w, "fail") /\ UNCHANGED rag
  /\ UNCHANGED <<jobs, parquet, embedFlag, call, dboard>>

SaveBoardToCollection(w) ==
  LET j == run[w].job IN
  /\ At(w, "save")
  /\ \/ /\ parquet' = parquet \cup {<<jobs[j].board, jobs[j].assistant, run[w].total>>}
        /\ Goto(w, "finish")
     \/ StoreMayFail /\ Goto(w, "fail") /\ UNCHANGED parquet
  /\ UNCHANGED <<jobs, rag, embedFlag, call, dboard>>

\* mark_job_completed: its answer is ignored.
MarkJobCompleted(w) ==
  LET j == run[w].job IN
  /\ At(w, "finish")
  /\ jobs' = Update(j, "done", jobs[j].retry) \/ MaybeUpdate(j, "done", jobs[j].retry)
  /\ Return(w)
  /\ UNCHANGED <<rag, parquet, embedFlag, call, dboard>>

\* mark_job_failed reads retry_count in one call ...
MarkJobFailedRead(w) ==
  LET j == run[w].job IN
  /\ At(w, "fail")
  /\ \/ /\ Live(j)
        /\ run' = [run EXCEPT ![w] = [@ EXCEPT !.pc = "failWrite",
                                               !.retry = jobs[j].retry]]
     \/ (~ Live(j) \/ StoreMayFail) /\ Return(w)
  /\ UNCHANGED <<jobs, rag, parquet, embedFlag, call, dboard>>

\* Mutant: one attempt too many before the job is in error.
MarkJobFailedWrite_OffByOne(w) ==
  LET n == run[w].retry + 1
      status == IF n <= MaxRetries THEN "pending" ELSE "error" IN
  /\ At(w, "failWrite")
  /\ jobs' = Update(run[w].job, status, n)
  /\ Return(w)
  /\ UNCHANGED <<rag, parquet, embedFlag, call, dboard>>

\* Mutant: the failed job goes back to pending with the count it had.
MarkJobFailedWrite_NotCounted(w) ==
  /\ At(w, "failWrite")
  /\ jobs' = Update(run[w].job, "pending", run[w].retry)
  /\ Return(w)
  /\ UNCHANGED <<rag, parquet, embedFlag, call, dboard>>

\* ... and writes what it computed from it in another.
MarkJobFailedWrite(w) ==
  LET j == run[w].job
      n == run[w].retry + 1
      status == IF n < MaxRetries THEN "pending" ELSE "error" IN
  /\ At(w, "failWrite")
  /\ jobs' = Update(j, status, n) \/ MaybeUpdate(j, status, n)
  /\ Return(w)
  /\ UNCHANGED <<rag, parquet, embedFlag, call, dboard>>

WorkerStep(w) ==
  \/ GetPendingJob(w) \/ MarkJobStarted(w) \/ DeleteExistingRows(w)
  \/ ExportBoard(w) \/ EmbedBatch(w) \/ SaveBoardToCollection(w)
  \/ MarkJobCompleted(w) \/ MarkJobFailedRead(w) \/ MarkJobFailedWrite(w)

----------------------------------------------------------------------------
(* delete_embedding_by_board_id: the rows first, then the jobs. *)

\* An error is raised by asyncpg (a 500, nothing changed), swallowed by the
\* MongoDB client.
DeleteBoardRows(d, b) ==
  /\ dboard[d] = NoBoard
  /\ \/ rag' = RowsCleared(b)
     \/ StoreMayFail /\ DbType = "mongodb" /\ UNCHANGED rag
  /\ dboard' = [dboard EXCEPT ![d] = b]
  /\ UNCHANGED <<jobs, parquet, embedFlag, run, call>>

SoftDeleteJobs(d) ==
  /\ dboard[d] # NoBoard
  /\ jobs' = SoftDelete(dboard[d]) \/ (StoreMayFail /\ UNCHANGED jobs)
  /\ dboard' = [dboard EXCEPT ![d] = NoBoard]
  /\ UNCHANGED <<rag, parquet, embedFlag, run, call>>

DeleterStep(d) == (\E b \in Board : DeleteBoardRows(d, b)) \/ SoftDeleteJobs(d)

----------------------------------------------------------------------------
(* A process dies between two calls; the lifespan of the one that replaces  *)
(* it starts a new worker. Requests in flight die the same way.             *)

Crash(w) ==
  /\ MayCrash /\ ~ At(w, "down")
  /\ run' = [run EXCEPT ![w] = FreshRun("down", 0)]
  /\ UNCHANGED <<jobs, rag, parquet, embedFlag, call, dboard>>

Restart(w) ==
  /\ At(w, "down")
  /\ Return(w)
  /\ UNCHANGED <<jobs, rag, parquet, embedFlag, call, dboard>>

AbortCaller(c) ==
  /\ MayCrash /\ call[c].pc # "idle"
  /\ call' = [call EXCEPT ![c] = NoCall]
  /\ UNCHANGED <<jobs, rag, parquet, embedFlag, run, dboard>>

AbortDeleter(d) ==
  /\ MayCrash /\ dboard[d] # NoBoard
  /\ dboard' = [dboard EXCEPT ![d] = NoBoard]
  /\ UNCHANGED <<jobs, rag, parquet, embedFlag, run, call>>

----------------------------------------------------------------------------
Next ==
  \/ \E w \in Worker : WorkerStep(w) \/ Crash(w) \/ Restart(w)
  \/ \E c \in Caller : CallerStep(c) \/ AbortCaller(c)
  \/ \E d \in Deleter : DeleterStep(d) \/ AbortDeleter(d)

Spec == Init /\ [][Next]_vars

----------------------------------------------------------------------------
(* Properties. *)

\* Every variable has its type: a run's job is the index of an inserted job,
\* also after the job was soft-deleted (nothing removes a row of the collection).
TypeOK ==
  /\ jobs \in Seq(Job)
  /\ rag \in [Row -> Nat]
  /\ parquet \subseteq Board \X Assistant \X (0 .. MaxBatch)
  /\ embedFlag \subseteq Board
  /\ run \in [Worker -> Run]
  /\ call \in [Caller -> Call]
  /\ dboard \in [Deleter -> Board \cup {NoBoard}]
  /\ \A w \in Worker : run[w].pc \notin {"poll", "down"} => run[w].job \in Ids
  /\ \A w \in Worker : run[w].pc = "embed" => run[w].batch < run[w].total
  /\ \A c \in Caller : /\ call[c].pc # "idle" => call[c].assistant \in Assistant
                       /\ call[c].pc \in {"check", "insert"} => call[c].board \in Board

\* No call of any worker changes a job after delete_embedding_by_board_id
\* soft-deleted it, whatever run was under way.
DeletedFrozen == [][\A j \in Ids : ~ Live(j) => jobs'[j] = jobs[j]]_vars

\* However many runs, retries, restarts and duplicate jobs a board goes through,
\* a worker process leaves at most one copy of a document in the rag store: each
\* run deletes the board's rows before it stores its own.
AtMostOneCopyPerWriter == \A r \in Row : rag[r] <= 1

\* A board is marked is_embed in the data-board service before a job for it
\* exists, across crashes of the request that creates the job.
FlaggedBeforeQueued == \A j \in Ids : jobs[j].board \in embedFlag

\* Every pending job is eventually done, in error, or deleted with its board.
PendingSettles ==
  \A j \in 1 .. MaxJobs :
    (j \in Ids /\ Pending(j))
      ~> (j \in Ids /\ (jobs[j].status \in {"done", "error"} \/ ~ Live(j)))

\* delete_embedding_by_board_id: "Delete embedding data by board ID". Once every
\* job of a board is deleted and no call or run on the board is under way, the
\* rag store has no row of it.
DeletedBoardHasNoRows ==
  \A b \in Board :
    (/\ \A j \in Ids : jobs[j].board = b => ~ Live(j)
     /\ \A d \in Deleter : dboard[d] # b
     /\ \A w \in Worker : run[w].pc \notin {"poll", "down"} => jobs[run[w].job].board # b)
    => \A r \in Row : r[1] = b => rag[r] = 0
=============================================================================
