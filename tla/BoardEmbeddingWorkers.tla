------------------------ MODULE BoardEmbeddingWorkers ------------------------
(***************************************************************************)
(* The embedding workers of several server processes. Reading the oldest   *)
(* pending job and marking it started are two calls, so two workers may    *)
(* have the same job in hand, and two jobs of one board are run at once;   *)
(* and each run deletes the rows of the whole board, whichever assistant   *)
(* they are for. History variables hold the jobs and boards with which     *)
(* that has happened, and which run has a board's rows. What there is to   *)
(* rely on is said of the others.                                          *)
(***************************************************************************)
EXTENDS BoardEmbeddingJob

VARIABLES
  shared,   \* jobs that two workers have had in hand at once
  crowded,  \* boards of which two workers have had jobs in hand at once
  cleared   \* per board: the job whose run was the last to delete its rows, if one was

history == <<shared, crowded, cleared>>

Holds(w, j) == run[w].pc \notin {"poll", "down"} /\ run[w].job = j
HeldTwice == {j \in Ids : \E v, w \in Worker : v # w /\ Holds(v, j) /\ Holds(w, j)}
Share == shared' = shared \cup HeldTwice'

AtBoard(w, b) == \E j \in Ids : Holds(w, j) /\ jobs[j].board = b
Crowd == {b \in Board : \E v, w \in Worker : v # w /\ AtBoard(v, b) /\ AtBoard(w, b)}

\* A run, or a request that deletes the board, has deleted the board's rows.
RunClears(w, b) == run[w].pc = "clear" /\ run'[w].pc = "export" /\ AtBoard(w, b)
RequestClears(b) == \E d \in Deleter : dboard[d] = NoBoard /\ dboard'[d] = b

Clearing ==
  cleared' = [b \in Board |->
    IF RequestClears(b) THEN 0
    ELSE IF \E w \in Worker : RunClears(w, b)
      THEN LET w == CHOOSE w \in Worker : RunClears(w, b) IN run[w].job
      ELSE cleared[b]]

Record == Share /\ crowded' = crowded \cup Crowd' /\ Clearing

InitW == Init /\ shared = {} /\ crowded = {} /\ cleared = [b \in Board |-> 0]
SpecW == InitW /\ [][Next /\ Record]_<<vars, history>>

\* main.py starts the worker's loop once per process and never leaves it: its
\* next step is always taken if it can be.
FairSpecW == SpecW /\ \A w \in Worker : WF_vars(WorkerStep(w))

----------------------------------------------------------------------------

\* A job that no two workers have had in hand at once is in error exactly when
\* its retries are used up, and until then it can be attempted again: whatever
\* calls of the store fail and wherever a worker dies.
RetryOk(j) == IF jobs[j].status = "error" THEN jobs[j].retry = MaxRetries
                                          ELSE jobs[j].retry < MaxRetries
RetryMatchesStatus == \A j \in Ids \ shared : RetryOk(j)

\* Such a job, once it is done or has failed for good, is never worked on again.
StaysSettled(j) ==
  jobs[j].status \in {"done", "error"} => jobs'[j].status = jobs[j].status
SettledStays == [][\A j \in Ids : j \notin shared' => StaysSettled(j)]_<<vars, shared>>

\* The rag store holds exactly one copy of each of the n batches of a run.
Complete(b, a, n) ==
  \A k \in Batch :
    LET copies(w) == rag[<<b, a, k, w>>] IN
    IF k <= n
      THEN \E w \in Worker : copies(w) = 1 /\ \A v \in Worker \ {w} : copies(v) = 0
      ELSE \A w \in Worker : copies(w) = 0

\* A live job that is done has its parquet record, and the rag store holds one
\* copy of each of the documents that the record counts, and none of another
\* assistant, unless the run of another job of the board, or a deletion of the
\* board, has deleted the rows since, or two workers have been at the board.
DoneIsEmbedded ==
  \A j \in Ids :
    LET b == jobs[j].board
        a == jobs[j].assistant IN
    (jobs[j].status = "done" /\ Live(j) /\ cleared[b] = j /\ b \notin crowded)
      => /\ \E n \in 0 .. MaxBatch : <<b, a, n>> \in parquet /\ Complete(b, a, n)
         /\ \A r \in Row : r[1] = b /\ rag[r] > 0 => r[2] = a
=============================================================================
