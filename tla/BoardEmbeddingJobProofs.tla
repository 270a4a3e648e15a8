---------------------- MODULE BoardEmbeddingJobProofs ----------------------
(* Proofs about the board embedding job queue, for every number of workers, *)
(* requests, boards and jobs.                                               *)
EXTENDS BoardEmbeddingWorkers, SequenceTheorems, FiniteSetTheorems, TLAPS

----------------------------------------------------------------------------
(* What the operations of the collection return. *)

\* A sequence of jobs stays one when each of its entries is replaced by a job.
LEMMA SeqOfJobs ==
  ASSUME NEW s \in Seq(Job), NEW f, DOMAIN f = DOMAIN s,
         f = [i \in DOMAIN s |-> f[i]],
         \A i \in DOMAIN s : f[i] \in Job
  PROVE  f \in Seq(Job)
<1>1. DOMAIN s = 1 .. Len(s) /\ Len(s) \in Nat
  BY LenProperties
<1>2. f \in [1 .. Len(s) -> Job]
  BY <1>1
<1>. QED
  BY <1>1, <1>2, SeqDef

\* update keeps the ids, and touches only the job it names.
LEMMA UpdateType ==
  ASSUME jobs \in Seq(Job), NEW j \in Ids, NEW status \in Status, NEW n \in Nat
  PROVE  /\ Update(j, status, n) \in Seq(Job)
         /\ DOMAIN Update(j, status, n) = Ids
<1>1. CASE Live(j)
  <2> DEFINE f == [jobs EXCEPT ![j] = [@ EXCEPT !.status = status, !.retry = n]]
  <2>1. \A i \in Ids : jobs[i] \in Job
    BY ElementOfSeq, LenProperties DEF Ids
  <2>2. [jobs[j] EXCEPT !.status = status, !.retry = n] \in Job
    BY <2>1 DEF Job
  <2>3. DOMAIN f = Ids /\ f = [i \in Ids |-> f[i]]
    BY LenProperties, SeqDef DEF Ids
  <2>4. \A i \in Ids : f[i] \in Job
    BY <2>1, <2>2, LenProperties DEF Ids
  <2>. QED
    BY <1>1, <2>3, <2>4, SeqOfJobs DEF Update, Ids
<1>2. CASE ~ Live(j)
  BY <1>2 DEF Update, Ids
<1>. QED
  BY <1>1, <1>2

\* Soft deletion keeps the ids too.
LEMMA SoftDeleteType ==
  ASSUME jobs \in Seq(Job), NEW b
  PROVE  SoftDelete(b) \in Seq(Job) /\ DOMAIN SoftDelete(b) = Ids
<1>1. \A i \in Ids : jobs[i] \in Job
  BY ElementOfSeq, LenProperties DEF Ids
<1>2. \A i \in Ids : SoftDelete(b)[i] \in Job
  BY <1>1 DEF SoftDelete, Job
<1>3. DOMAIN SoftDelete(b) = Ids
  BY DEF SoftDelete
<1>4. SoftDelete(b) = [i \in Ids |-> SoftDelete(b)[i]]
  BY DEF SoftDelete
<1>. QED
  BY <1>2, <1>3, <1>4, SeqOfJobs DEF Ids

\* A newly inserted job takes the next id.
LEMMA AppendType ==
  ASSUME jobs \in Seq(Job), NEW b \in Board, NEW a \in Assistant
  PROVE  /\ Append(jobs, NewJob(b, a)) \in Seq(Job)
         /\ DOMAIN Append(jobs, NewJob(b, a)) = 1 .. Len(jobs) + 1
         /\ Ids = 1 .. Len(jobs) /\ Len(jobs) \in Nat
         /\ \A i \in Ids : Append(jobs, NewJob(b, a))[i] = jobs[i]
         /\ Append(jobs, NewJob(b, a))[Len(jobs) + 1] = NewJob(b, a)
<1>1. NewJob(b, a) \in Job
  BY DEF NewJob, Job, Status
<1>. QED
  BY <1>1, AppendProperties, LenProperties DEF Ids

----------------------------------------------------------------------------
(* Type correctness. *)

LEMMA FreshRunType ==
  ASSUME NEW pc \in RunPc, NEW j \in Nat
  PROVE  /\ FreshRun(pc, j) \in Run
         /\ FreshRun(pc, j).pc = pc /\ FreshRun(pc, j).job = j
BY ConstantsAssumption DEF FreshRun, Run

LEMMA FreshCallType ==
  ASSUME NEW pc \in CallPc, NEW a \in Assistant \cup {NoAssistant}, NEW boards \in SUBSET Board
  PROVE  /\ FreshCall(pc, a, boards) \in Call
         /\ FreshCall(pc, a, boards).pc = pc /\ FreshCall(pc, a, boards).assistant = a
BY DEF FreshCall, Call

LEMMA InitTypeOK == Init => TypeOK
<1>1. << >> \in Seq(Job)
  BY EmptySeq
<1>2. NoRun \in Run /\ NoRun.pc = "poll"
  BY FreshRunType DEF NoRun, RunPc
<1>3. NoCall \in Call /\ NoCall.pc = "idle"
  BY FreshCallType DEF NoCall, CallPc
<1>. QED
  BY <1>1, <1>2, <1>3 DEF Init, TypeOK

LEMMA RowsClearedType ==
  ASSUME rag \in [Row -> Nat], NEW b
  PROVE  RowsCleared(b) \in [Row -> Nat]
BY DEF RowsCleared

\* The part of the type invariant that speaks of the workers.
RunsTyped ==
  /\ run \in [Worker -> Run]
  /\ \A w \in Worker : run[w].pc \notin {"poll", "down"} => run[w].job \in Ids
  /\ \A w \in Worker : run[w].pc = "embed" => run[w].batch < run[w].total

\* A worker that moves on keeps its job, which stays in the collection.
LEMMA MoveRunsTyped ==
  ASSUME RunsTyped, Ids \subseteq Ids', NEW w \in Worker,
         NEW r \in Run, r.pc \notin {"poll", "down"} => r.job \in Ids,
         r.pc = "embed" => r.batch < r.total,
         run' = [run EXCEPT ![w] = r]
  PROVE  RunsTyped'
BY DEF RunsTyped

LEMMA GotoRunsTyped ==
  ASSUME RunsTyped, Ids \subseteq Ids', NEW w \in Worker,
         run[w].pc \notin {"poll", "down"}, NEW pc \in RunPc \ {"embed"}, Goto(w, pc)
  PROVE  RunsTyped'
<1> DEFINE r == [run[w] EXCEPT !.pc = pc]
<1>1. run[w] \in Run /\ run[w].job \in Ids
  BY DEF RunsTyped
<1>2. r \in Run /\ r.job = run[w].job /\ r.pc # "embed"
  BY <1>1 DEF Run
<1>3. run' = [run EXCEPT ![w] = r]
  BY DEF Goto
<1> HIDE DEF r
<1>. QED
  BY <1>1, <1>2, <1>3, MoveRunsTyped

LEMMA ReturnRunsTyped ==
  ASSUME RunsTyped, Ids \subseteq Ids', NEW w \in Worker, Return(w)
  PROVE  RunsTyped'
<1>1. NoRun \in Run /\ NoRun.pc = "poll"
  BY FreshRunType DEF NoRun, RunPc
<1>. QED
  BY <1>1, MoveRunsTyped DEF Return

\* mark_job_started, mark_job_completed and mark_job_failed write a status and
\* a count into the job they name.
LEMMA WriteType ==
  ASSUME jobs \in Seq(Job), NEW j \in Ids, NEW status \in Status, NEW n \in Nat,
         jobs' = Update(j, status, n) \/ MaybeUpdate(j, status, n)
  PROVE  jobs' \in Seq(Job) /\ Ids' = Ids
<1>1. jobs' \in {jobs, Update(j, status, n)}
  BY DEF MaybeUpdate
<1>. QED
  BY <1>1, UpdateType DEF Ids

LEMMA WorkerTypeOK ==
  ASSUME TypeOK, NEW w \in Worker, WorkerStep(w)
  PROVE  TypeOK'
<1> DEFINE j == run[w].job
<1>0. RunsTyped /\ run[w] \in Run /\ jobs \in Seq(Job)
  BY DEF RunsTyped, TypeOK
<1>j. ASSUME ~ At(w, "poll"), ~ At(w, "down")
      PROVE  j \in Ids /\ jobs[j] \in Job
  BY <1>j, <1>0, ElementOfSeq, LenProperties DEF RunsTyped, At, Ids
<1>q. ASSUME RunsTyped', jobs' \in Seq(Job), rag' \in [Row -> Nat],
             parquet' \subseteq Board \X Assistant \X (0 .. MaxBatch),
             UNCHANGED <<embedFlag, call, dboard>>
      PROVE  TypeOK'
  BY <1>q DEF TypeOK, RunsTyped
<1>1. CASE GetPendingJob(w)
  <2>1. PICK i \in Ids : run' = [run EXCEPT ![w] = FreshRun("start", i)]
    BY <1>1 DEF GetPendingJob
  <2>2. i \in Nat
    BY <1>0, LenProperties DEF Ids
  <2>3. /\ FreshRun("start", i) \in Run /\ FreshRun("start", i).job = i
        /\ FreshRun("start", i).pc = "start"
    BY <2>2, FreshRunType DEF RunPc
  <2>4. UNCHANGED <<jobs, rag, parquet, embedFlag, call, dboard>> /\ Ids' = Ids
    BY <1>1 DEF GetPendingJob, Ids
  <2>5. RunsTyped'
    BY <2>1, <2>3, <2>4, <1>0, MoveRunsTyped
  <2>. QED
    BY <2>4, <2>5, <1>q DEF TypeOK
<1>2. CASE MarkJobStarted(w)
  <2>1. j \in Ids /\ jobs[j].retry \in Nat
    BY <1>2, <1>j DEF MarkJobStarted, At, Job
  <2>2. jobs' \in Seq(Job) /\ Ids' = Ids
    BY <1>2, <1>0, <2>1, WriteType DEF MarkJobStarted, Status, Ids
  <2>3. RunsTyped'
    BY <1>2, <1>0, <2>2, GotoRunsTyped, ReturnRunsTyped DEF MarkJobStarted, At, RunPc
  <2>. QED
    BY <1>2, <2>2, <2>3, <1>q DEF MarkJobStarted, TypeOK
<1>3. CASE DeleteExistingRows(w)
  <2>1. RunsTyped'
    BY <1>3, <1>0, GotoRunsTyped DEF DeleteExistingRows, At, RunPc, Ids
  <2>2. rag' \in [Row -> Nat]
    BY <1>3, RowsClearedType DEF DeleteExistingRows, TypeOK
  <2>. QED
    BY <1>3, <2>1, <2>2, <1>q DEF DeleteExistingRows, TypeOK
<1>4. CASE ExportBoard(w)
  <2>0. UNCHANGED <<jobs, rag, parquet, embedFlag, call, dboard>> /\ Ids' = Ids
    BY <1>4 DEF ExportBoard, Ids
  <2>1. CASE Goto(w, "fail")
    BY <1>4, <2>1, <2>0, <1>0, <1>q, GotoRunsTyped DEF ExportBoard, At, RunPc, TypeOK
  <2>2. ASSUME NEW n \in 0 .. MaxBatch,
               run' = [run EXCEPT ![w] = [@ EXCEPT !.total = n, !.batch = 0,
                          !.pc = IF n = 0 THEN "save" ELSE "embed"]]
        PROVE  TypeOK'
    <3> DEFINE r == [run[w] EXCEPT !.total = n, !.batch = 0,
                                !.pc = IF n = 0 THEN "save" ELSE "embed"]
    <3>1. r \in Run /\ r.job = j /\ (r.pc = "embed" => r.batch < r.total)
      <4>1. /\ r.total = n /\ r.batch = 0 /\ r.job = j
            /\ r.pc \in {"save", "embed"} /\ (r.pc = "embed" => n # 0)
        BY <1>0 DEF Run
      <4>2. r \in Run
        <5>1. 0 \in 0 .. MaxBatch
          BY ConstantsAssumption
        <5>2. CASE n = 0
          BY <1>0, <5>1, <5>2 DEF Run, RunPc
        <5>3. CASE n # 0
          BY <1>0, <5>1, <5>3 DEF Run, RunPc
        <5>. QED
          BY <5>2, <5>3
      <4>. QED
        BY <4>1, <4>2
    <3>2. j \in Ids
      BY <1>4, <1>j DEF ExportBoard, At
    <3>3. run' = [run EXCEPT ![w] = r]
      BY <2>2
    <3> HIDE DEF r
    <3>4. RunsTyped'
      BY <3>1, <3>2, <3>3, <2>0, <1>0, MoveRunsTyped
    <3>. QED
      BY <3>4, <2>0, <1>q DEF TypeOK
  <2>. QED
    BY <1>4, <2>1, <2>2 DEF ExportBoard
<1>5. CASE EmbedBatch(w)
  <2>0. UNCHANGED <<jobs, parquet, embedFlag, call, dboard>> /\ Ids' = Ids
    BY <1>5 DEF EmbedBatch, Ids
  <2>1. CASE Goto(w, "fail") /\ UNCHANGED rag
    BY <1>5, <2>1, <2>0, <1>0, <1>q, GotoRunsTyped DEF EmbedBatch, At, RunPc, TypeOK
  <2>2. CASE /\ rag' = [rag EXCEPT ![RowOf(w, run[w].batch + 1)] = @ + 1]
             /\ run' = [run EXCEPT ![w] = [@ EXCEPT !.batch = run[w].batch + 1,
                          !.pc = IF run[w].batch + 1 = run[w].total THEN "save"
                                                                   ELSE "embed"]]
    <3> DEFINE r == [run[w] EXCEPT !.batch = run[w].batch + 1,
                        !.pc = IF run[w].batch + 1 = run[w].total THEN "save" ELSE "embed"]
    <3>1. run[w].batch < run[w].total /\ j \in Ids
      BY <1>5, <1>0, <1>j DEF EmbedBatch, At, RunsTyped
    <3>2. r \in Run /\ r.job = j /\ (r.pc = "embed" => r.batch < r.total)
      <4>1. /\ r.total = run[w].total /\ r.batch = run[w].batch + 1 /\ r.job = j
            /\ r.pc = "embed" => r.batch # r.total
        BY <1>0 DEF Run
      <4>2. run[w].batch + 1 \in 0 .. MaxBatch
        BY <1>0, <3>1, ConstantsAssumption DEF Run
      <4>3. r \in Run
        BY <1>0, <4>2 DEF Run, RunPc
      <4>4. run[w].batch \in Nat /\ run[w].total \in Nat
        BY <1>0, ConstantsAssumption DEF Run
      <4> HIDE DEF r
      <4>. QED
        BY <4>1, <4>3, <4>4, <3>1
    <3>3. run' = [run EXCEPT ![w] = r]
      BY <2>2
    <3> HIDE DEF r
    <3>4. RunsTyped'
      BY <3>1, <3>2, <3>3, <2>0, <1>0, MoveRunsTyped
    <3>5. rag' \in [Row -> Nat]
      <4> DEFINE x == RowOf(w, run[w].batch + 1)
      <4>1. rag \in [Row -> Nat] /\ rag' = [rag EXCEPT ![x] = @ + 1]
        BY <2>2 DEF TypeOK
      <4>2. x \in Row => rag[x] + 1 \in Nat
        BY <4>1
      <4> HIDE DEF x
      <4>. QED
        BY <4>1, <4>2
    <3>. QED
      BY <3>4, <3>5, <2>0, <1>q DEF TypeOK
  <2>. QED
    BY <1>5, <2>1, <2>2 DEF EmbedBatch
<1>6. CASE SaveBoardToCollection(w)
  <2>1. RunsTyped'
    BY <1>6, <1>0, GotoRunsTyped DEF SaveBoardToCollection, At, RunPc, Ids
  <2>2. jobs[j].board \in Board /\ jobs[j].assistant \in Assistant
        /\ run[w].total \in 0 .. MaxBatch
    BY <1>6, <1>0, <1>j DEF SaveBoardToCollection, At, Job, Run
  <2>3. parquet' \subseteq Board \X Assistant \X (0 .. MaxBatch)
    BY <1>6, <2>2 DEF SaveBoardToCollection, TypeOK
  <2>. QED
    BY <1>6, <2>1, <2>3, <1>q DEF SaveBoardToCollection, TypeOK
<1>7. CASE MarkJobCompleted(w)
  <2>1. j \in Ids /\ jobs[j].retry \in Nat
    BY <1>7, <1>j DEF MarkJobCompleted, At, Job
  <2>2. jobs' \in Seq(Job) /\ Ids' = Ids
    BY <1>7, <1>0, <2>1, WriteType DEF MarkJobCompleted, Status
  <2>3. RunsTyped'
    BY <1>7, <1>0, <2>2, ReturnRunsTyped DEF MarkJobCompleted
  <2>. QED
    BY <1>7, <2>2, <2>3, <1>q DEF MarkJobCompleted, TypeOK
<1>8. CASE MarkJobFailedRead(w)
  <2>0. UNCHANGED <<jobs, rag, parquet, embedFlag, call, dboard>> /\ Ids' = Ids
    BY <1>8 DEF MarkJobFailedRead, Ids
  <2>1. CASE Return(w)
    BY <2>0, <2>1, <1>0, <1>q, ReturnRunsTyped DEF TypeOK
  <2>2. CASE run' = [run EXCEPT ![w] = [@ EXCEPT !.pc = "failWrite",
                                               !.retry = jobs[j].retry]]
    <3> DEFINE r == [run[w] EXCEPT !.pc = "failWrite", !.retry = jobs[j].retry]
    <3>1. j \in Ids /\ jobs[j].retry \in Nat
      BY <1>8, <1>j DEF MarkJobFailedRead, At, Job
    <3>2. r \in Run /\ r.job = j /\ r.pc # "embed"
      BY <1>0, <3>1 DEF Run, RunPc
    <3>3. run' = [run EXCEPT ![w] = r]
      BY <2>2
    <3> HIDE DEF r
    <3>4. RunsTyped'
      BY <3>1, <3>2, <3>3, <2>0, <1>0, MoveRunsTyped
    <3>. QED
      BY <3>4, <2>0, <1>q DEF TypeOK
  <2>. QED
    BY <1>8, <2>1, <2>2 DEF MarkJobFailedRead
<1>9. CASE MarkJobFailedWrite(w)
  <2>1. j \in Ids /\ run[w].retry + 1 \in Nat
    BY <1>9, <1>0, <1>j DEF MarkJobFailedWrite, At, Run
  <2>2. jobs' \in Seq(Job) /\ Ids' = Ids
    BY <1>9, <1>0, <2>1, WriteType DEF MarkJobFailedWrite, Status
  <2>3. RunsTyped'
    BY <1>9, <1>0, <2>2, ReturnRunsTyped DEF MarkJobFailedWrite
  <2>. QED
    BY <1>9, <2>2, <2>3, <1>q DEF MarkJobFailedWrite, TypeOK
<1>. QED
  BY <1>1, <1>2, <1>3, <1>4, <1>5, <1>6, <1>7, <1>8, <1>9 DEF WorkerStep

\* The part of the type invariant that speaks of the callers.
CallsTyped ==
  /\ call \in [Caller -> Call]
  /\ \A c \in Caller : /\ call[c].pc # "idle" => call[c].assistant \in Assistant
                       /\ call[c].pc \in {"check", "insert"} => call[c].board \in Board

LEMMA MoveCallsTyped ==
  ASSUME CallsTyped, NEW c \in Caller, NEW r \in Call,
         r.pc # "idle" => r.assistant \in Assistant,
         r.pc \in {"check", "insert"} => r.board \in Board,
         call' = [call EXCEPT ![c] = r]
  PROVE  CallsTyped'
BY DEF CallsTyped

LEMMA CallerTypeOK ==
  ASSUME TypeOK, NEW c \in Caller, CallerStep(c) \/ AbortCaller(c)
  PROVE  TypeOK'
<1>0. CallsTyped /\ call[c] \in Call
  BY DEF CallsTyped, TypeOK
<1>q. ASSUME CallsTyped', jobs' \in Seq(Job), Ids \subseteq Ids',
             embedFlag' \subseteq Board, UNCHANGED <<rag, parquet, run, dboard>>
      PROVE  TypeOK'
  BY <1>q DEF TypeOK, CallsTyped
<1>n. NoCall \in Call /\ NoCall.pc = "idle"
  BY FreshCallType DEF NoCall, CallPc
<1>1. ASSUME NEW a \in Assistant, NEW boards \in SUBSET Board, SaveAssistant(c, a, boards)
      PROVE  TypeOK'
  <2> DEFINE r == FreshCall("mark", a, boards)
  <2>0. r \in Call /\ r.pc = "mark" /\ r.assistant \in Assistant
    BY FreshCallType DEF CallPc
  <2>2. call' = [call EXCEPT ![c] = r]
    BY <1>1 DEF SaveAssistant
  <2> HIDE DEF r
  <2>1. CallsTyped'
    BY <2>0, <2>2, <1>0, MoveCallsTyped
  <2>. QED
    BY <1>1, <2>1, <1>q DEF SaveAssistant, TypeOK, Ids
<1>2. CASE MarkBoardAsEmbed(c)
  <2>1. PICK b \in call[c].boards :
          \/ /\ embedFlag' = embedFlag \cup {b}
             /\ call' = [call EXCEPT ![c] = [@ EXCEPT !.pc = "check", !.board = b,
                                                     !.boards = call[c].boards \ {b}]]
          \/ /\ call' = [call EXCEPT ![c].boards = @ \ {b}]
             /\ UNCHANGED embedFlag
    BY <1>2 DEF MarkBoardAsEmbed
  <2> DEFINE q == [call[c] EXCEPT !.pc = "check", !.board = b,
                                   !.boards = call[c].boards \ {b}]
             r == [call[c] EXCEPT !.boards = @ \ {b}]
  <2>2. b \in Board /\ call[c].assistant \in Assistant /\ call[c].pc = "mark"
    BY <1>2, <1>0 DEF Call, CallsTyped, MarkBoardAsEmbed
  <2>3. q \in Call /\ q.board \in Board /\ q.assistant \in Assistant
    BY <1>0, <2>2 DEF Call, CallPc
  <2>4. r \in Call /\ r.pc = "mark" /\ r.assistant \in Assistant
    BY <1>0, <2>2 DEF Call, CallPc
  <2>5. call' = [call EXCEPT ![c] = q] \/ call' = [call EXCEPT ![c] = r]
    <3>1. ASSUME call' = [call EXCEPT ![c] = [@ EXCEPT !.pc = "check", !.board = b,
                                                      !.boards = call[c].boards \ {b}]]
          PROVE  call' = [call EXCEPT ![c] = q]
      BY <3>1
    <3>2. ASSUME call' = [call EXCEPT ![c].boards = @ \ {b}]
          PROVE  call' = [call EXCEPT ![c] = r]
      BY <3>2
    <3>. QED
      BY <2>1, <3>1, <3>2
  <2>6. embedFlag' \subseteq Board
    BY <2>1, <2>2 DEF TypeOK
  <2> HIDE DEF q, r
  <2>7. CallsTyped'
    BY <2>3, <2>4, <2>5, <1>0, MoveCallsTyped
  <2>. QED
    BY <1>2, <2>6, <2>7, <1>q DEF MarkBoardAsEmbed, TypeOK, Ids
<1>3. CASE CheckExisting(c)
  <2>1. PICK pc \in {"mark", "insert"} : call' = [call EXCEPT ![c].pc = pc]
    BY <1>3 DEF CheckExisting
  <2> DEFINE r == [call[c] EXCEPT !.pc = pc]
  <2>2. call[c].board \in Board /\ call[c].assistant \in Assistant
    BY <1>3, <1>0 DEF CheckExisting, CallsTyped
  <2>3. r \in Call /\ r.board \in Board /\ r.assistant \in Assistant
    BY <1>0, <2>1, <2>2 DEF Call, CallPc
  <2>4. call' = [call EXCEPT ![c] = r]
    BY <2>1
  <2> HIDE DEF r
  <2>5. CallsTyped'
    BY <2>3, <2>4, <1>0, MoveCallsTyped
  <2>. QED
    BY <1>3, <2>5, <1>q DEF CheckExisting, TypeOK, Ids
<1>4. CASE CreateJob(c)
  <2> DEFINE r == [call[c] EXCEPT !.pc = "mark"]
  <2>1. call[c].board \in Board /\ call[c].assistant \in Assistant
    BY <1>4, <1>0 DEF CreateJob, CallsTyped
  <2>2. jobs' \in Seq(Job) /\ Ids \subseteq Ids'
    <3>1. CASE UNCHANGED jobs
      BY <3>1 DEF TypeOK, Ids
    <3>2. CASE jobs' = Append(jobs, NewJob(call[c].board, call[c].assistant))
      BY <3>2, <2>1, AppendType DEF TypeOK, Ids
    <3>. QED
      BY <1>4, <3>1, <3>2 DEF CreateJob
  <2>3. r \in Call /\ r.pc = "mark" /\ r.assistant \in Assistant
    BY <1>0, <2>1 DEF Call, CallPc
  <2>4. call' = [call EXCEPT ![c] = r]
    BY <1>4 DEF CreateJob
  <2> HIDE DEF r
  <2>5. CallsTyped'
    BY <2>3, <2>4, <1>0, MoveCallsTyped
  <2>. QED
    BY <1>4, <2>2, <2>5, <1>q DEF CreateJob, TypeOK
<1>5. CASE ReturnJobIds(c) \/ AbortCaller(c)
  <2>1. call' = [call EXCEPT ![c] = NoCall]
        /\ UNCHANGED <<jobs, rag, parquet, embedFlag, run, dboard>>
    BY <1>5 DEF ReturnJobIds, AbortCaller
  <2>2. CallsTyped'
    BY <2>1, <1>0, <1>n, MoveCallsTyped
  <2>. QED
    BY <2>1, <2>2, <1>q DEF TypeOK, Ids
<1>. QED
  BY <1>1, <1>2, <1>3, <1>4, <1>5 DEF CallerStep

LEMMA DeleterTypeOK ==
  ASSUME TypeOK, NEW d \in Deleter, DeleterStep(d) \/ AbortDeleter(d)
  PROVE  TypeOK'
<1>1. ASSUME NEW b \in Board, DeleteBoardRows(d, b)
      PROVE  TypeOK'
  BY <1>1, RowsClearedType DEF DeleteBoardRows, TypeOK, Ids
<1>2. CASE SoftDeleteJobs(d)
  <2>1. jobs' \in Seq(Job) /\ Ids' = Ids
    BY <1>2, SoftDeleteType DEF SoftDeleteJobs, TypeOK, Ids
  <2>. QED
    BY <1>2, <2>1 DEF SoftDeleteJobs, TypeOK
<1>3. CASE AbortDeleter(d)
  BY <1>3 DEF AbortDeleter, TypeOK, Ids
<1>. QED
  BY <1>1, <1>2, <1>3 DEF DeleterStep

LEMMA CrashTypeOK ==
  ASSUME TypeOK, NEW w \in Worker, Crash(w) \/ Restart(w)
  PROVE  TypeOK'
<1>0. RunsTyped
  BY DEF RunsTyped, TypeOK
<1>1. UNCHANGED <<jobs, rag, parquet, embedFlag, call, dboard>> /\ Ids' = Ids
  BY DEF Crash, Restart, Ids
<1>2. CASE Crash(w)
  <2>0. FreshRun("down", 0) \in Run /\ FreshRun("down", 0).pc = "down"
    BY FreshRunType DEF RunPc
  <2>1. RunsTyped'
    BY <1>0, <1>1, <1>2, <2>0, MoveRunsTyped DEF Crash
  <2>. QED
    BY <1>1, <2>1 DEF TypeOK, RunsTyped
<1>3. CASE Restart(w)
  <2>1. RunsTyped'
    BY <1>0, <1>1, <1>3, ReturnRunsTyped DEF Restart
  <2>. QED
    BY <1>1, <2>1 DEF TypeOK, RunsTyped
<1>. QED
  BY <1>2, <1>3

\* Every reachable state is well typed, whatever the numbers of workers, requests
\* and jobs: in particular the job a worker has in hand is always in the collection,
\* although boards are deleted under it.
THEOREM TypeCorrect == Spec => []TypeOK
<1>1. Init => TypeOK
  BY InitTypeOK
<1>2. TypeOK /\ [Next]_vars => TypeOK'
  <2> SUFFICES ASSUME TypeOK, [Next]_vars
               PROVE  TypeOK'
    OBVIOUS
  <2>1. CASE UNCHANGED vars
    BY <2>1 DEF vars, TypeOK, Ids
  <2>2. CASE Next
    BY <2>2, WorkerTypeOK, CallerTypeOK, DeleterTypeOK, CrashTypeOK DEF Next
  <2>. QED
    BY <2>1, <2>2
<1>. QED
  BY <1>1, <1>2, PTL DEF Spec

----------------------------------------------------------------------------
(* What a step may do to a job. *)

\* Only the status and the count of a live job change, or it is deleted.
JobStep(i) ==
  /\ i \in Ids'
  /\ jobs'[i].board = jobs[i].board /\ jobs'[i].assistant = jobs[i].assistant
  /\ ~ Live(i) => jobs'[i] = jobs[i]

LEMMA UpdateStep ==
  ASSUME jobs \in Seq(Job), NEW j \in Ids, NEW status \in Status, NEW n \in Nat,
         jobs' = Update(j, status, n) \/ MaybeUpdate(j, status, n)
  PROVE  \A i \in Ids : JobStep(i) /\ (i # j => jobs'[i] = jobs[i])
<1>1. jobs' = jobs \/ jobs' = Update(j, status, n)
  BY DEF MaybeUpdate
<1>2. Ids' = Ids /\ \A i \in Ids : jobs[i] \in Job
  BY WriteType, ElementOfSeq, LenProperties DEF Ids
<1>3. CASE jobs' = jobs
  BY <1>2, <1>3 DEF JobStep
<1>4. CASE jobs' = Update(j, status, n) /\ Live(j)
  <2>1. jobs' = [jobs EXCEPT ![j] = [@ EXCEPT !.status = status, !.retry = n]]
    BY <1>4 DEF Update
  <2>2. jobs'[j] = [jobs[j] EXCEPT !.status = status, !.retry = n]
    BY <2>1 DEF Ids
  <2>3. \A i \in Ids : i # j => jobs'[i] = jobs[i]
    BY <2>1 DEF Ids
  <2>. QED
    BY <1>2, <1>4, <2>2, <2>3 DEF JobStep, Job
<1>5. CASE jobs' = Update(j, status, n) /\ ~ Live(j)
  BY <1>2, <1>3, <1>5 DEF Update
<1>. QED
  BY <1>1, <1>3, <1>4, <1>5

LEMMA SoftDeleteStep ==
  ASSUME jobs \in Seq(Job), NEW b, jobs' = SoftDelete(b)
  PROVE  \A i \in Ids : /\ JobStep(i)
                        /\ jobs'[i].status = jobs[i].status
                        /\ jobs'[i].retry = jobs[i].retry
<1>1. Ids' = Ids /\ \A i \in Ids : jobs[i] \in Job
  BY SoftDeleteType, ElementOfSeq, LenProperties DEF Ids
<1> SUFFICES ASSUME NEW i \in Ids
             PROVE  /\ JobStep(i)
                    /\ jobs'[i].status = jobs[i].status
                    /\ jobs'[i].retry = jobs[i].retry
  OBVIOUS
<1>2. CASE jobs[i].board = b /\ Live(i)
  <2>1. jobs'[i] = [jobs[i] EXCEPT !.deleted = TRUE]
    BY <1>2 DEF SoftDelete
  <2>. QED
    BY <1>1, <1>2, <2>1 DEF JobStep, Job
<1>3. CASE ~ (jobs[i].board = b /\ Live(i))
  <2>1. jobs'[i] = jobs[i]
    BY <1>3 DEF SoftDelete
  <2>. QED
    BY <1>1, <2>1 DEF JobStep
<1>. QED
  BY <1>2, <1>3

LEMMA NextJobStep ==
  ASSUME TypeOK, Next, NEW i \in Ids
  PROVE  JobStep(i)
<1>0. jobs \in Seq(Job) /\ RunsTyped
  BY DEF TypeOK, RunsTyped
<1>j. ASSUME NEW w \in Worker, ~ At(w, "poll"), ~ At(w, "down")
      PROVE  run[w].job \in Ids /\ jobs[run[w].job].retry \in Nat /\ run[w].retry + 1 \in Nat
  <2>1. run[w].job \in Ids /\ run[w] \in Run
    BY <1>j, <1>0 DEF RunsTyped, At
  <2>2. jobs[run[w].job] \in Job
    BY <2>1, <1>0, ElementOfSeq, LenProperties DEF Ids
  <2>. QED
    BY <2>1, <2>2 DEF Job, Run
<1>1. CASE UNCHANGED jobs
  BY <1>1 DEF JobStep, Ids
<1>2. ASSUME NEW w \in Worker, MarkJobStarted(w)
      PROVE  JobStep(i)
  BY <1>0, <1>1, <1>2, <1>j, UpdateStep DEF MarkJobStarted, At, Status
<1>3. ASSUME NEW w \in Worker, MarkJobCompleted(w)
      PROVE  JobStep(i)
  BY <1>0, <1>3, <1>j, UpdateStep DEF MarkJobCompleted, At, Status
<1>4. ASSUME NEW w \in Worker, MarkJobFailedWrite(w)
      PROVE  JobStep(i)
  BY <1>0, <1>4, <1>j, UpdateStep DEF MarkJobFailedWrite, At, Status
<1>5. ASSUME NEW c \in Caller, CreateJob(c)
      PROVE  JobStep(i)
  <2>1. call[c].board \in Board /\ call[c].assistant \in Assistant
    BY <1>5 DEF CreateJob, TypeOK
  <2>2. CASE jobs' = Append(jobs, NewJob(call[c].board, call[c].assistant))
    BY <2>1, <2>2, <1>0, AppendType DEF JobStep, Ids
  <2>. QED
    BY <1>1, <1>5, <2>2 DEF CreateJob
<1>6. ASSUME NEW d \in Deleter, SoftDeleteJobs(d)
      PROVE  JobStep(i)
  BY <1>0, <1>1, <1>6, SoftDeleteStep DEF SoftDeleteJobs
<1>. QED
  <2>1. ASSUME NEW w \in Worker, WorkerStep(w)
        PROVE  JobStep(i)
    BY <2>1, <1>1, <1>2, <1>3, <1>4 DEF WorkerStep, GetPendingJob, DeleteExistingRows,
       ExportBoard, EmbedBatch, SaveBoardToCollection, MarkJobFailedRead
  <2>2. ASSUME NEW c \in Caller, CallerStep(c)
        PROVE  JobStep(i)
    BY <2>2, <1>1, <1>5 DEF CallerStep, SaveAssistant, MarkBoardAsEmbed, ReturnJobIds,
       CheckExisting
  <2>3. ASSUME NEW d \in Deleter, DeleterStep(d)
        PROVE  JobStep(i)
    BY <2>3, <1>1, <1>6 DEF DeleterStep, DeleteBoardRows
  <2>. QED
    BY <2>1, <2>2, <2>3, <1>1 DEF Next, Crash, Restart, AbortCaller, AbortDeleter

\* A soft-deleted job never changes again, whatever runs were under way on it and
\* however many workers there are.
THEOREM DeletedJobsFrozen == Spec => DeletedFrozen
<1>1. TypeOK /\ [Next]_vars => [\A j \in Ids : ~ Live(j) => jobs'[j] = jobs[j]]_vars
  BY NextJobStep DEF JobStep
<1>. QED
  BY <1>1, TypeCorrect, PTL DEF Spec, DeletedFrozen

----------------------------------------------------------------------------
(* Jobs and the flag of their board in the data-board service.              *)

\* A request that is past the PUT for a board has flagged that board.
FlagInv ==
  /\ TypeOK /\ FlaggedBeforeQueued
  /\ \A c \in Caller : call[c].pc \in {"check", "insert"} => call[c].board \in embedFlag

\* The flags are never taken back, and only a request that inserts adds a job.
LEMMA QuietFlag ==
  ASSUME FlagInv, TypeOK', \A i \in Ids : JobStep(i), Ids' \subseteq Ids,
         embedFlag \subseteq embedFlag',
         \A c \in Caller : call'[c].pc \in {"check", "insert"} => call'[c].board \in embedFlag'
  PROVE  FlagInv'
BY DEF FlagInv, FlaggedBeforeQueued, JobStep

LEMMA CallerFlag ==
  ASSUME FlagInv, TypeOK', Next, NEW c \in Caller, CallerStep(c) \/ AbortCaller(c)
  PROVE  FlagInv'
<1>0. /\ TypeOK /\ call \in [Caller -> Call] /\ jobs \in Seq(Job)
      /\ \A i \in Ids : JobStep(i)
  BY NextJobStep DEF FlagInv, TypeOK
<1>n. NoCall.pc = "idle"
  BY DEF NoCall, FreshCall
<1>q. ASSUME UNCHANGED jobs, embedFlag \subseteq embedFlag',
             \A d \in Caller \ {c} : call'[d] = call[d],
             call'[c].pc \in {"check", "insert"} => call'[c].board \in embedFlag'
      PROVE  FlagInv'
  <2>1. \A d \in Caller : call'[d].pc \in {"check", "insert"} => call'[d].board \in embedFlag'
    BY <1>q DEF FlagInv
  <2>. QED
    BY <1>0, <1>q, <2>1, QuietFlag DEF Ids
<1>1. ASSUME NEW a \in Assistant, NEW boards \in SUBSET Board, SaveAssistant(c, a, boards)
      PROVE  FlagInv'
  <2>1. call'[c].pc = "mark" /\ \A d \in Caller \ {c} : call'[d] = call[d]
    BY <1>0, <1>1 DEF SaveAssistant, FreshCall
  <2>. QED
    BY <1>1, <2>1, <1>q DEF SaveAssistant
<1>2. CASE MarkBoardAsEmbed(c)
  <2>1. PICK b \in call[c].boards :
          \/ /\ embedFlag' = embedFlag \cup {b}
             /\ call' = [call EXCEPT ![c] = [@ EXCEPT !.pc = "check", !.board = b,
                                                     !.boards = call[c].boards \ {b}]]
          \/ /\ call' = [call EXCEPT ![c].boards = @ \ {b}]
             /\ UNCHANGED embedFlag
    BY <1>2 DEF MarkBoardAsEmbed
  <2>2. \A d \in Caller \ {c} : call'[d] = call[d]
    BY <1>0, <2>1
  <2>3. UNCHANGED jobs /\ call[c].pc = "mark"
    BY <1>2 DEF MarkBoardAsEmbed
  <2>4. CASE /\ embedFlag' = embedFlag \cup {b}
             /\ call' = [call EXCEPT ![c] = [@ EXCEPT !.pc = "check", !.board = b,
                                                     !.boards = call[c].boards \ {b}]]
    <3>1. call'[c].board = b
      BY <1>0, <2>4 DEF Call
    <3>. QED
      BY <2>2, <2>3, <2>4, <3>1, <1>q
  <2>5. CASE call' = [call EXCEPT ![c].boards = @ \ {b}] /\ UNCHANGED embedFlag
    <3>1. call'[c].pc = "mark"
      BY <1>0, <2>3, <2>5 DEF Call
    <3>. QED
      BY <2>2, <2>3, <2>5, <3>1, <1>q
  <2>. QED
    BY <2>1, <2>4, <2>5
<1>3. CASE CheckExisting(c)
  <2>1. PICK pc \in {"mark", "insert"} : call' = [call EXCEPT ![c].pc = pc]
    BY <1>3 DEF CheckExisting
  <2>2. call'[c].board = call[c].board /\ \A d \in Caller \ {c} : call'[d] = call[d]
    BY <1>0, <2>1 DEF Call
  <2>. QED
    BY <1>3, <2>2, <1>q DEF CheckExisting, FlagInv
<1>4. CASE CreateJob(c)
  <2>1. /\ call[c].board \in Board \cap embedFlag /\ call[c].assistant \in Assistant
        /\ call'[c].pc = "mark" /\ UNCHANGED embedFlag
        /\ \A d \in Caller \ {c} : call'[d] = call[d]
    BY <1>0, <1>4 DEF CreateJob, FlagInv, TypeOK, Call
  <2>2. CASE UNCHANGED jobs
    BY <2>1, <2>2, <1>q
  <2>3. CASE jobs' = Append(jobs, NewJob(call[c].board, call[c].assistant))
    <3>1. \A i \in Ids' : i \in Ids \/ jobs'[i].board = call[c].board
      BY <1>0, <2>1, <2>3, AppendType DEF Ids, NewJob
    <3>2. FlaggedBeforeQueued'
      BY <1>0, <2>1, <3>1 DEF FlaggedBeforeQueued, FlagInv, JobStep
    <3>. QED
      BY <2>1, <3>2 DEF FlagInv
  <2>. QED
    BY <1>4, <2>2, <2>3 DEF CreateJob
<1>5. CASE ReturnJobIds(c) \/ AbortCaller(c)
  <2>1. call'[c].pc = "idle" /\ \A d \in Caller \ {c} : call'[d] = call[d]
    BY <1>0, <1>5, <1>n DEF ReturnJobIds, AbortCaller
  <2>. QED
    BY <1>5, <2>1, <1>q DEF ReturnJobIds, AbortCaller
<1>. QED
  BY <1>1, <1>2, <1>3, <1>4, <1>5 DEF CallerStep

\* Workers and deletions add no job.
LEMMA OthersFlag ==
  ASSUME FlagInv, TypeOK', Next, UNCHANGED <<embedFlag, call>>, Ids' = Ids
  PROVE  FlagInv'
<1>1. \A i \in Ids : JobStep(i)
  BY NextJobStep DEF FlagInv
<1>. QED
  BY <1>1, QuietFlag DEF FlagInv

LEMMA WorkerIds ==
  ASSUME TypeOK, NEW w \in Worker, WorkerStep(w)
  PROVE  UNCHANGED <<embedFlag, call>> /\ Ids' = Ids
<1>0. jobs \in Seq(Job) /\ RunsTyped
  BY DEF TypeOK, RunsTyped
<1>j. ASSUME ~ At(w, "poll"), ~ At(w, "down")
      PROVE  run[w].job \in Ids /\ jobs[run[w].job].retry \in Nat /\ run[w].retry + 1 \in Nat
  <2>1. run[w].job \in Ids /\ run[w] \in Run
    BY <1>j, <1>0 DEF RunsTyped, At
  <2>2. jobs[run[w].job] \in Job
    BY <2>1, <1>0, ElementOfSeq, LenProperties DEF Ids
  <2>. QED
    BY <2>1, <2>2 DEF Job, Run
<1>1. CASE MarkJobStarted(w)
  BY <1>0, <1>1, <1>j, WriteType DEF MarkJobStarted, At, Status, Ids
<1>2. CASE MarkJobCompleted(w)
  BY <1>0, <1>2, <1>j, WriteType DEF MarkJobCompleted, At, Status
<1>3. CASE MarkJobFailedWrite(w)
  BY <1>0, <1>3, <1>j, WriteType DEF MarkJobFailedWrite, At, Status
<1>. QED
  BY <1>1, <1>2, <1>3 DEF WorkerStep, GetPendingJob, DeleteExistingRows, ExportBoard,
     EmbedBatch, SaveBoardToCollection, MarkJobFailedRead, Ids

LEMMA DeleterIds ==
  ASSUME TypeOK, NEW d \in Deleter, DeleterStep(d)
  PROVE  UNCHANGED <<embedFlag, call>> /\ Ids' = Ids
BY SoftDeleteType DEF TypeOK, DeleterStep, DeleteBoardRows, SoftDeleteJobs, Ids

LEMMA NextFlag ==
  ASSUME FlagInv, TypeOK', [Next]_vars
  PROVE  FlagInv'
<1>1. CASE UNCHANGED vars
  BY <1>1 DEF vars, FlagInv, FlaggedBeforeQueued, Ids
<1>2. CASE Next
  <2>0. TypeOK
    BY DEF FlagInv
  <2>1. ASSUME NEW c \in Caller, CallerStep(c) \/ AbortCaller(c)
        PROVE  FlagInv'
    BY <1>2, <2>1, CallerFlag
  <2>2. ASSUME NEW w \in Worker, WorkerStep(w)
        PROVE  FlagInv'
    BY <1>2, <2>0, <2>2, WorkerIds, OthersFlag
  <2>3. ASSUME NEW w \in Worker, Crash(w) \/ Restart(w)
        PROVE  FlagInv'
    BY <1>2, <2>3, OthersFlag DEF Crash, Restart, Ids
  <2>4. ASSUME NEW d \in Deleter, DeleterStep(d)
        PROVE  FlagInv'
    BY <1>2, <2>0, <2>4, DeleterIds, OthersFlag
  <2>5. ASSUME NEW d \in Deleter, AbortDeleter(d)
        PROVE  FlagInv'
    BY <1>2, <2>5, OthersFlag DEF AbortDeleter, Ids
  <2>. QED
    BY <1>2, <2>1, <2>2, <2>3, <2>4, <2>5 DEF Next
<1>. QED
  BY <1>1, <1>2

\* No job is ever in the queue for a board that the data-board service was not
\* asked to mark, whatever requests fail, die or run side by side.
THEOREM JobsOfFlaggedBoards == Spec => []FlaggedBeforeQueued
<1>1. Init => FlagInv
  <2>1. Init => Ids = {}
    BY EmptySeq DEF Init, Ids
  <2>2. NoCall.pc = "idle"
    BY DEF NoCall, FreshCall
  <2>. QED
    BY <2>1, <2>2, InitTypeOK DEF Init, FlagInv, FlaggedBeforeQueued
<1>2. FlagInv /\ TypeOK' /\ [Next]_vars => FlagInv'
  BY NextFlag
<1>3. FlagInv => FlaggedBeforeQueued
  BY DEF FlagInv
<1>. QED
  BY <1>1, <1>2, <1>3, TypeCorrect, PTL DEF Spec

----------------------------------------------------------------------------
(* Why a worker leaves at most one copy of a document in the rag store: the *)
(* rows of a run's board that its worker could still store are absent from  *)
(* the moment the run has deleted the board's rows.                         *)

\* The rows worker w has yet to store in its run.
ToStore(w) ==
  {r \in Row : /\ r[1] = jobs[run[w].job].board /\ r[4] = w
               /\ run[w].pc = "embed" => r[3] > run[w].batch}

Storing(w) == run[w].pc \in {"export", "embed"}

NothingToStoreYet == \A w \in Worker : Storing(w) => \A r \in ToStore(w) : rag[r] = 0

RowInv == TypeOK /\ AtMostOneCopyPerWriter /\ NothingToStoreYet

\* A step that stores no row and moves no worker into or within its storing
\* phase keeps the invariant: workers leave the phase, rows disappear, boards of
\* jobs do not change.
LEMMA QuietStep ==
  ASSUME RowInv, TypeOK',
         \A r \in Row : rag'[r] = rag[r] \/ rag'[r] = 0,
         \A w \in Worker : Storing(w)' => run'[w] = run[w],
         \A i \in Ids : JobStep(i)
  PROVE  RowInv'
<1>1. \A r \in Row : rag[r] \in Nat /\ rag[r] <= 1
  BY DEF RowInv, TypeOK, AtMostOneCopyPerWriter
<1>2. AtMostOneCopyPerWriter'
  BY <1>1 DEF AtMostOneCopyPerWriter
<1>3. ASSUME NEW w \in Worker, Storing(w)'
      PROVE  ToStore(w)' = ToStore(w) /\ Storing(w)
  <2>1. run'[w] = run[w] /\ Storing(w)
    BY <1>3 DEF Storing
  <2>2. run[w].job \in Ids
    BY <2>1 DEF RowInv, TypeOK, Storing
  <2>3. jobs'[run[w].job].board = jobs[run[w].job].board
    BY <2>2 DEF JobStep
  <2>. QED
    BY <2>1, <2>3 DEF ToStore
<1>4. NothingToStoreYet'
  <2> SUFFICES ASSUME NEW w \in Worker, Storing(w)', NEW r \in ToStore(w)'
               PROVE  rag'[r] = 0
    BY DEF NothingToStoreYet
  <2>1. r \in ToStore(w) /\ Storing(w)
    BY <1>3
  <2>2. r \in Row /\ rag[r] = 0
    BY <2>1 DEF ToStore, RowInv, NothingToStoreYet
  <2>. QED
    BY <2>2
<1>. QED
  BY <1>2, <1>4 DEF RowInv

\* Storing a row of the worker's own that was absent leaves one copy of it, and
\* touches no row another worker has yet to store.
LEMMA StoreStep ==
  ASSUME RowInv, TypeOK', NEW w \in Worker, EmbedBatch(w)
  PROVE  RowInv'
<1> DEFINE j == run[w].job
           k == run[w].batch + 1
           x == RowOf(w, k)
<1>0. /\ run \in [Worker -> Run] /\ jobs \in Seq(Job) /\ rag \in [Row -> Nat]
      /\ j \in Ids /\ run[w].batch < run[w].total /\ run[w].pc = "embed"
  BY DEF EmbedBatch, At, RowInv, TypeOK
<1>1. jobs[j] \in Job /\ run[w].batch \in Nat /\ run[w].total \in 0 .. MaxBatch
  BY <1>0, ElementOfSeq, LenProperties, ConstantsAssumption DEF Ids, Run
<1>2. k \in Batch /\ k \in Nat /\ k > run[w].batch
  BY <1>0, <1>1, ConstantsAssumption DEF Batch
<1>3. x \in Row /\ x[1] = jobs[j].board /\ x[3] = k /\ x[4] = w
  BY <1>1, <1>2 DEF RowOf, Row, Job
<1>4. \A i \in Ids : JobStep(i)
  BY NextJobStep DEF RowInv, Next, WorkerStep
<1> HIDE DEF x, k
<1>5. CASE Goto(w, "fail") /\ UNCHANGED rag
  <2>1. \A v \in Worker : Storing(v)' => run'[v] = run[v]
    BY <1>0, <1>5 DEF Goto, Storing, Run
  <2>. QED
    BY <1>4, <1>5, <2>1, QuietStep
<1>6. CASE /\ rag' = [rag EXCEPT ![x] = @ + 1]
           /\ run' = [run EXCEPT ![w] = [@ EXCEPT !.batch = k,
                        !.pc = IF k = run[w].total THEN "save" ELSE "embed"]]
  <2>1. x \in ToStore(w)
    BY <1>0, <1>2, <1>3 DEF ToStore
  <2>2. rag[x] = 0
    BY <1>0, <2>1 DEF RowInv, NothingToStoreYet, Storing
  <2>3. rag'[x] = 1 /\ \A r \in Row \ {x} : rag'[r] = rag[r]
    BY <1>0, <1>3, <1>6, <2>2
  <2>4. AtMostOneCopyPerWriter'
    BY <2>3 DEF AtMostOneCopyPerWriter, RowInv
  <2>5. run'[w].job = j /\ run'[w].batch = k /\ \A v \in Worker \ {w} : run'[v] = run[v]
    BY <1>0, <1>6 DEF Run
  <2>6. ASSUME NEW v \in Worker, Storing(v)', NEW r \in ToStore(v)'
        PROVE  r # x /\ r \in ToStore(v) /\ Storing(v)
    <3>1. CASE v = w
      <4>1. jobs'[j].board = jobs[j].board
        BY <1>0, <1>4 DEF JobStep
      <4>2. run'[w].pc = "embed"
        BY <1>0, <1>6, <2>6, <3>1 DEF Storing, Run
      <4>3. r \in Row /\ r[1] = jobs[j].board /\ r[4] = w /\ r[3] > k
        BY <2>5, <2>6, <3>1, <4>1, <4>2 DEF ToStore
      <4>4. r[3] \in Nat
        BY <4>3 DEF Row, Batch
      <4>. QED
        BY <1>0, <1>1, <1>2, <1>3, <3>1, <4>3, <4>4 DEF ToStore, Storing
    <3>2. CASE v # w
      <4>1. run'[v] = run[v] /\ Storing(v)
        BY <2>5, <2>6, <3>2 DEF Storing
      <4>2. run[v].job \in Ids
        BY <4>1 DEF RowInv, TypeOK, Storing
      <4>3. jobs'[run[v].job].board = jobs[run[v].job].board
        BY <1>4, <4>2 DEF JobStep
      <4>4. r \in ToStore(v) /\ r[4] = v
        BY <2>6, <4>1, <4>3 DEF ToStore
      <4>. QED
        BY <1>3, <3>2, <4>1, <4>4
    <3>. QED
      BY <3>1, <3>2
  <2>7. NothingToStoreYet'
    <3> SUFFICES ASSUME NEW v \in Worker, Storing(v)', NEW r \in ToStore(v)'
                 PROVE  rag'[r] = 0
      BY DEF NothingToStoreYet
    <3>1. r # x /\ r \in ToStore(v) /\ Storing(v)
      BY <2>6
    <3>2. r \in Row /\ rag[r] = 0
      BY <3>1 DEF ToStore, RowInv, NothingToStoreYet
    <3>. QED
      BY <2>3, <3>1, <3>2
  <2>. QED
    BY <2>4, <2>7 DEF RowInv
<1>. QED
  BY <1>5, <1>6 DEF EmbedBatch, x, k

\* The deletion of the board's rows makes all of its rows absent, those the
\* worker is about to store among them. This is where an error of the deletion
\* that is swallowed would break the invariant.
LEMMA ClearStep ==
  ASSUME RowInv, TypeOK', NEW w \in Worker, DeleteExistingRows(w),
         DbType = "postgresql" \/ ~ StoreMayFail
  PROVE  RowInv'
<1> DEFINE j == run[w].job
<1>0. /\ run \in [Worker -> Run] /\ j \in Ids /\ rag \in [Row -> Nat]
      /\ UNCHANGED jobs
  BY DEF DeleteExistingRows, At, RowInv, TypeOK
<1>4. \A i \in Ids : JobStep(i)
  BY NextJobStep DEF RowInv, Next, WorkerStep
<1>5. CASE Goto(w, "fail") /\ UNCHANGED rag
  <2>1. \A v \in Worker : Storing(v)' => run'[v] = run[v]
    BY <1>0, <1>5 DEF Goto, Storing, Run
  <2>. QED
    BY <1>4, <1>5, <2>1, QuietStep
<1>6. CASE rag' = RowsCleared(jobs[j].board) /\ Goto(w, "export")
  <2>1. \A r \in Row : rag'[r] = IF r[1] = jobs[j].board THEN 0 ELSE rag[r]
    BY <1>6 DEF RowsCleared
  <2>2. AtMostOneCopyPerWriter'
    <3>1. \A r \in Row : rag[r] <= 1
      BY DEF RowInv, AtMostOneCopyPerWriter
    <3>. QED
      BY <2>1, <3>1 DEF AtMostOneCopyPerWriter
  <2>3. run'[w].job = j /\ \A v \in Worker \ {w} : run'[v] = run[v]
    BY <1>0, <1>6 DEF Goto, Run
  <2>4. NothingToStoreYet'
    <3> SUFFICES ASSUME NEW v \in Worker, Storing(v)', NEW r \in ToStore(v)'
                 PROVE  rag'[r] = 0
      BY DEF NothingToStoreYet
    <3>0. r \in Row
      BY DEF ToStore
    <3>1. CASE v = w
      BY <1>0, <2>1, <2>3, <3>0, <3>1 DEF ToStore
    <3>2. CASE v # w
      <4>1. run'[v] = run[v]
        BY <2>3, <3>2
      <4>2. Storing(v) /\ r \in ToStore(v)
        BY <1>0, <4>1 DEF ToStore, Storing
      <4>3. rag[r] = 0
        BY <4>2 DEF RowInv, NothingToStoreYet
      <4>. QED
        BY <2>1, <3>0, <4>3
    <3>. QED
      BY <3>1, <3>2
  <2>. QED
    BY <2>2, <2>4 DEF RowInv
<1>. QED
  BY <1>5, <1>6 DEF DeleteExistingRows

\* The parquet file is read after the rows are gone and before the first is
\* stored: the run's rows stay absent.
LEMMA ExportStep ==
  ASSUME RowInv, TypeOK', NEW w \in Worker, ExportBoard(w)
  PROVE  RowInv'
<1> DEFINE j == run[w].job
<1>0. /\ run \in [Worker -> Run] /\ UNCHANGED <<jobs, rag>> /\ run[w].pc = "export"
  BY DEF ExportBoard, At, RowInv, TypeOK
<1>1. run'[w].job = j /\ \A v \in Worker \ {w} : run'[v] = run[v]
  BY <1>0 DEF ExportBoard, Goto, Run
<1>2. NothingToStoreYet'
  <2> SUFFICES ASSUME NEW v \in Worker, Storing(v)', NEW r \in ToStore(v)'
               PROVE  rag'[r] = 0
    BY DEF NothingToStoreYet
  <2>1. CASE v = w
    <3>1. r \in ToStore(w) /\ Storing(w)
      BY <1>0, <1>1, <2>1 DEF ToStore, Storing
    <3>. QED
      BY <1>0, <3>1 DEF RowInv, NothingToStoreYet
  <2>2. CASE v # w
    <3>1. run'[v] = run[v]
      BY <1>1, <2>2
    <3>2. r \in ToStore(v) /\ Storing(v)
      BY <1>0, <3>1 DEF ToStore, Storing
    <3>. QED
      BY <1>0, <3>2 DEF RowInv, NothingToStoreYet
  <2>. QED
    BY <2>1, <2>2
<1>. QED
  BY <1>0, <1>2 DEF RowInv, AtMostOneCopyPerWriter

LEMMA RowInvStep ==
  ASSUME RowInv, TypeOK', Next, DbType = "postgresql" \/ ~ StoreMayFail
  PROVE  RowInv'
<1>0. \A i \in Ids : JobStep(i)
  BY NextJobStep DEF RowInv
<1>1. run \in [Worker -> Run]
  BY DEF RowInv, TypeOK
<1>2. NoRun.pc = "poll"
  BY FreshRunType DEF NoRun, RunPc
<1>3. ASSUME NEW w \in Worker, WorkerStep(w) \/ Crash(w) \/ Restart(w)
      PROVE  RowInv'
  <2>1. CASE EmbedBatch(w) \/ DeleteExistingRows(w) \/ ExportBoard(w)
    BY <2>1, StoreStep, ClearStep, ExportStep
  <2>2. CASE GetPendingJob(w)
    <3>1. PICK i \in Ids : run' = [run EXCEPT ![w] = FreshRun("start", i)]
      BY <2>2 DEF GetPendingJob
    <3>2. FreshRun("start", i).pc = "start"
      BY DEF FreshRun
    <3>3. \A v \in Worker : Storing(v)' => run'[v] = run[v]
      BY <1>1, <3>1, <3>2 DEF Storing
    <3>. QED
      BY <1>0, <2>2, <3>3, QuietStep DEF GetPendingJob
  <2>3. CASE Crash(w)
    <3>1. FreshRun("down", 0).pc = "down"
      BY DEF FreshRun
    <3>2. \A v \in Worker : Storing(v)' => run'[v] = run[v]
      BY <1>1, <2>3, <3>1 DEF Storing, Crash
    <3>. QED
      BY <1>0, <2>3, <3>2, QuietStep DEF Crash
  <2>4. CASE \/ MarkJobStarted(w) \/ SaveBoardToCollection(w) \/ MarkJobCompleted(w)
             \/ MarkJobFailedRead(w) \/ MarkJobFailedWrite(w) \/ Restart(w)
    <3>1. UNCHANGED rag
      BY <2>4 DEF MarkJobStarted, SaveBoardToCollection, MarkJobCompleted,
         MarkJobFailedRead, MarkJobFailedWrite, Restart
    <3>2. \/ Return(w) \/ UNCHANGED run
          \/ \E pc \in {"clear", "finish", "fail", "failWrite"}, n \in {run[w].retry, jobs[run[w].job].retry} :
               run' = [run EXCEPT ![w] = [@ EXCEPT !.pc = pc, !.retry = n]]
      <4>1. ASSUME NEW pc, Goto(w, pc)
            PROVE  run' = [run EXCEPT ![w] = [@ EXCEPT !.pc = pc, !.retry = run[w].retry]]
        BY <1>1, <4>1 DEF Goto, Run
      <4>. QED
        BY <2>4, <4>1 DEF MarkJobStarted, SaveBoardToCollection, MarkJobCompleted,
           MarkJobFailedRead, MarkJobFailedWrite, Restart
    <3>3. \A v \in Worker : Storing(v)' => run'[v] = run[v]
      <4>1. CASE Return(w) \/ UNCHANGED run
        BY <1>1, <1>2, <4>1 DEF Return, Storing
      <4>2. ASSUME NEW pc \in {"clear", "finish", "fail", "failWrite"}, NEW n,
                   run' = [run EXCEPT ![w] = [@ EXCEPT !.pc = pc, !.retry = n]]
            PROVE  \A v \in Worker : Storing(v)' => run'[v] = run[v]
        BY <1>1, <4>2 DEF Storing, Run
      <4>. QED
        BY <3>2, <4>1, <4>2
    <3>. QED
      BY <1>0, <3>1, <3>3, QuietStep
  <2>. QED
    BY <1>3, <2>1, <2>2, <2>3, <2>4 DEF WorkerStep
<1>4. ASSUME NEW c \in Caller, CallerStep(c) \/ AbortCaller(c)
      PROVE  RowInv'
  BY <1>0, <1>4, QuietStep DEF CallerStep, SaveAssistant, MarkBoardAsEmbed, CheckExisting,
     CreateJob, ReturnJobIds, AbortCaller
<1>5. ASSUME NEW d \in Deleter, DeleterStep(d) \/ AbortDeleter(d)
      PROVE  RowInv'
  <2>1. \A r \in Row : rag'[r] = rag[r] \/ rag'[r] = 0
    BY <1>5 DEF DeleterStep, DeleteBoardRows, SoftDeleteJobs, AbortDeleter, RowsCleared
  <2>2. UNCHANGED run
    BY <1>5 DEF DeleterStep, DeleteBoardRows, SoftDeleteJobs, AbortDeleter
  <2>. QED
    BY <1>0, <2>1, <2>2, QuietStep
<1>. QED
  BY <1>3, <1>4, <1>5 DEF Next

\* Whatever the number of workers, requests, boards, retries and crashes, a
\* worker leaves at most one copy of a document in the rag store: with
\* PostgreSQL, where a deletion that fails ends the run, or with a store whose
\* deletions do not fail.
THEOREM OneCopyPerWriter ==
  ASSUME DbType = "postgresql" \/ ~ StoreMayFail
  PROVE  Spec => []AtMostOneCopyPerWriter
<1>1. Init => RowInv
  <2> SUFFICES ASSUME Init
               PROVE  RowInv
    OBVIOUS
  <2>1. AtMostOneCopyPerWriter
    BY DEF Init, AtMostOneCopyPerWriter
  <2>2. NothingToStoreYet
    BY DEF Init, NothingToStoreYet, ToStore
  <2>. QED
    BY <2>1, <2>2, InitTypeOK DEF RowInv
<1>2. RowInv /\ TypeOK' /\ [Next]_vars => RowInv'
  <2> SUFFICES ASSUME RowInv, TypeOK', [Next]_vars
               PROVE  RowInv'
    OBVIOUS
  <2>1. CASE UNCHANGED vars
    BY <2>1 DEF vars, RowInv, AtMostOneCopyPerWriter, NothingToStoreYet, Storing, ToStore
  <2>2. CASE Next
    BY <2>2, RowInvStep
  <2>. QED
    BY <2>1, <2>2
<1>3. RowInv => AtMostOneCopyPerWriter
  BY DEF RowInv
<1>. QED
  BY <1>1, <1>2, <1>3, TypeCorrect, PTL DEF Spec

----------------------------------------------------------------------------
(* What the embedding workers guarantee about the retry count and about     *)
(* settled jobs, of a job that no two of them have in hand: it keeps the    *)
(* status and the count that its worker last saw.                           *)

Busy == {"clear", "export", "embed", "save", "finish", "fail", "failWrite"}

\* The job in a worker's hand is not settled and has a retry left.
InHand(w) ==
  LET job == jobs[run[w].job] IN
  /\ run[w].pc = "start" => job.status = "pending" /\ job.retry < MaxRetries
  /\ run[w].pc \in Busy => job.status = "in_progress" /\ job.retry < MaxRetries
  /\ run[w].pc = "failWrite" => run[w].retry = job.retry

HandKnown(w) == run[w].job \notin shared => InHand(w)
SharedKnown == HeldTwice \subseteq shared

RetryInv ==
  TypeOK /\ SharedKnown /\ RetryMatchesStatus /\ \A w \in Worker : HandKnown(w)

UnsharedSettled == \A i \in Ids : i \notin shared' => StaysSettled(i)

\* What two workers hold is known at once.
LEMMA Sharing == Share => SharedKnown' /\ shared \subseteq shared'
BY DEF Share, SharedKnown

\* A step that changes the status and the count of no job.
LEMMA QuietRetry ==
  ASSUME RetryInv, TypeOK', Share,
         \A i \in Ids : /\ i \in Ids' /\ jobs'[i].status = jobs[i].status
                        /\ jobs'[i].retry = jobs[i].retry,
         \A i \in Ids' \ Ids : RetryOk(i)',
         \A w \in Worker : \/ run'[w] = run[w]
                           \/ HandKnown(w)'
  PROVE  RetryInv' /\ UnsharedSettled
<1>0. SharedKnown' /\ shared \subseteq shared'
  BY Sharing
<1>1. \A i \in Ids \ shared : RetryOk(i)
  BY DEF RetryInv, RetryMatchesStatus
<1>2. \A i \in Ids \ shared' : RetryOk(i)'
  BY <1>0, <1>1 DEF RetryOk
<1>3. RetryMatchesStatus'
  BY <1>2 DEF RetryMatchesStatus
<1>4. ASSUME NEW w \in Worker, run'[w] = run[w]
      PROVE  HandKnown(w)'
  <2>1. CASE run[w].pc \in {"poll", "down"}
    BY <1>4, <2>1 DEF HandKnown, InHand, Busy
  <2>2. CASE run[w].pc \notin {"poll", "down"}
    <3>1. run[w].job \in Ids
      BY <2>2 DEF RetryInv, TypeOK
    <3>2. HandKnown(w)
      BY DEF RetryInv
    <3>. QED
      BY <1>0, <1>4, <3>1, <3>2 DEF HandKnown, InHand
  <2>. QED
    BY <2>1, <2>2
<1>. QED
  BY <1>0, <1>3, <1>4 DEF RetryInv, StaysSettled, UnsharedSettled

\* The write of a status and a count into the job in hand.
LEMMA WriteRetry ==
  ASSUME RetryInv, TypeOK', Share, NEW w \in Worker, run[w].job \in Ids,
         run[w].pc \notin {"poll", "down"},
         NEW status \in Status, NEW n \in Nat,
         run[w].job \notin shared => /\ jobs[run[w].job].status \notin {"done", "error"}
                                    /\ IF status = "error" THEN n = MaxRetries
                                                          ELSE n < MaxRetries,
         jobs' = Update(run[w].job, status, n) \/ MaybeUpdate(run[w].job, status, n),
         \A v \in Worker : v # w => run'[v] = run[v],
         HandKnown(w)'
  PROVE  RetryInv' /\ UnsharedSettled
<1> DEFINE j == run[w].job
<1>0. jobs \in Seq(Job) /\ \A i \in Ids : jobs[i] \in Job
  BY ElementOfSeq, LenProperties DEF RetryInv, TypeOK, Ids
<1>s. SharedKnown' /\ shared \subseteq shared'
  BY Sharing
<1>1. Ids' = Ids
  BY <1>0, WriteType
<1>2. \A i \in Ids : i # j => jobs'[i] = jobs[i]
  BY <1>0, UpdateStep
<1>3. \/ jobs'[j] = jobs[j]
      \/ jobs'[j].status = status /\ jobs'[j].retry = n
  <2>1. CASE jobs' = jobs
    BY <2>1
  <2>2. CASE jobs' # jobs
    <3>1. jobs' = [jobs EXCEPT ![j] = [@ EXCEPT !.status = status, !.retry = n]]
      BY <2>2 DEF Update, MaybeUpdate
    <3>2. jobs'[j] = [jobs[j] EXCEPT !.status = status, !.retry = n]
      BY <3>1 DEF Ids
    <3>. QED
      BY <1>0, <3>2 DEF Job
  <2>. QED
    BY <2>1, <2>2
<1>4. \A i \in Ids \ shared : RetryOk(i)
  BY DEF RetryInv, RetryMatchesStatus
<1>5. \A i \in Ids \ shared' : RetryOk(i)'
  BY <1>s, <1>2, <1>3, <1>4 DEF RetryOk
<1>6. RetryMatchesStatus'
  BY <1>1, <1>5 DEF RetryMatchesStatus
<1>7. ASSUME NEW v \in Worker, v # w
      PROVE  HandKnown(v)'
  <2>0. run'[v] = run[v] /\ HandKnown(v)
    BY <1>7 DEF RetryInv
  <2>1. CASE run[v].pc \in {"poll", "down"}
    BY <2>0, <2>1 DEF HandKnown, InHand, Busy
  <2>2. CASE run[v].pc \notin {"poll", "down"} /\ run[v].job = j
    <3>1. j \in HeldTwice
      BY <1>7, <2>2 DEF HeldTwice, Holds
    <3>. QED
      BY <1>s, <2>0, <2>2, <3>1 DEF HandKnown, RetryInv, SharedKnown
  <2>3. CASE run[v].pc \notin {"poll", "down"} /\ run[v].job # j
    <3>1. run[v].job \in Ids
      BY <2>3 DEF RetryInv, TypeOK
    <3>. QED
      BY <1>s, <1>2, <2>0, <2>3, <3>1 DEF HandKnown, InHand
  <2>. QED
    BY <2>1, <2>2, <2>3
<1>8. UnsharedSettled
  BY <1>s, <1>2 DEF StaysSettled, UnsharedSettled
<1>. QED
  BY <1>s, <1>6, <1>7, <1>8 DEF RetryInv

LEMMA WorkerRetry ==
  ASSUME RetryInv, TypeOK', Share, NEW w \in Worker,
         WorkerStep(w) \/ Crash(w) \/ Restart(w)
  PROVE  RetryInv' /\ UnsharedSettled
<1> DEFINE j == run[w].job
<1>0. /\ run \in [Worker -> Run] /\ run[w] \in Run /\ jobs \in Seq(Job)
      /\ \A i \in Ids : jobs[i] \in Job
      /\ ~ At(w, "poll") /\ ~ At(w, "down") => j \in Ids
      /\ HandKnown(w)
  BY ElementOfSeq, LenProperties DEF RetryInv, TypeOK, Ids, At
<1>s. shared \subseteq shared'
  BY Sharing
<1>f. ASSUME NEW v \in Worker, v # w
      PROVE  run'[v] = run[v]
  BY <1>0, <1>f DEF WorkerStep, Crash, Restart, GetPendingJob, MarkJobStarted,
     DeleteExistingRows, ExportBoard, EmbedBatch, SaveBoardToCollection, MarkJobCompleted,
     MarkJobFailedRead, MarkJobFailedWrite, Goto, Return
<1>p. NoRun.pc = "poll"
  BY DEF NoRun, FreshRun
<1>r. ASSUME Return(w)
      PROVE  HandKnown(w)'
  BY <1>0, <1>p, <1>r DEF Return, HandKnown, InHand, Busy
<1>k. ASSUME j \in shared, run'[w].job = j
      PROVE  HandKnown(w)'
  BY <1>s, <1>k DEF HandKnown
<1>i. ASSUME UNCHANGED jobs
      PROVE  \A i \in Ids : i \in Ids' /\ jobs'[i].status = jobs[i].status
                             /\ jobs'[i].retry = jobs[i].retry
  BY <1>i DEF Ids
<1>n. ASSUME UNCHANGED jobs
      PROVE  Ids' \ Ids = {}
  BY <1>n DEF Ids
<1>o. ASSUME HandKnown(w)'
      PROVE  \A v \in Worker : run'[v] = run[v] \/ HandKnown(v)'
  BY <1>o, <1>f
<1>q. ASSUME UNCHANGED jobs, HandKnown(w)'
      PROVE  RetryInv' /\ UnsharedSettled
  BY <1>q, <1>i, <1>n, <1>o, QuietRetry
<1>1. CASE GetPendingJob(w)
  <2>1. PICK i \in Ids : Pending(i) /\ run' = [run EXCEPT ![w] = FreshRun("start", i)]
    BY <1>1 DEF GetPendingJob
  <2>2. FreshRun("start", i).pc = "start" /\ FreshRun("start", i).job = i
    BY DEF FreshRun
  <2>3. UNCHANGED jobs
    BY <1>1 DEF GetPendingJob
  <2>4. InHand(w)'
    BY <1>0, <2>1, <2>2, <2>3 DEF InHand, Pending, Busy
  <2>. QED
    BY <2>3, <2>4, <1>q DEF HandKnown
<1>2. CASE MarkJobStarted(w)
  <2>1. /\ j \in Ids /\ jobs[j].status \in Status /\ jobs[j].retry \in Nat
        /\ run[w].pc \notin {"poll", "down"}
        /\ j \notin shared => jobs[j].status = "pending" /\ jobs[j].retry < MaxRetries
    BY <1>0, <1>2 DEF MarkJobStarted, At, HandKnown, InHand, Job
  <2>2. CASE ~ Live(j) /\ UNCHANGED jobs /\ Return(w)
    BY <2>2, <1>q, <1>r
  <2>3. CASE Live(j) /\ jobs' = Update(j, "in_progress", jobs[j].retry) /\ Goto(w, "clear")
    <3>1. jobs'[j] = [jobs[j] EXCEPT !.status = "in_progress", !.retry = jobs[j].retry]
      BY <2>1, <2>3 DEF Update, Ids
    <3>2. jobs'[j].status = "in_progress" /\ jobs'[j].retry = jobs[j].retry
      BY <1>0, <2>1, <3>1 DEF Job
    <3>3. run'[w].pc = "clear" /\ run'[w].job = j
      BY <1>0, <2>3 DEF Goto, Run
    <3>4. HandKnown(w)'
      BY <1>s, <2>1, <3>2, <3>3 DEF HandKnown, InHand, Busy
    <3>. QED
      BY <2>1, <2>3, <3>4, <1>f, WriteRetry DEF Status
  <2>4. CASE MaybeUpdate(j, "in_progress", jobs[j].retry) /\ Return(w)
    BY <2>1, <2>4, <1>f, <1>r, WriteRetry DEF Status
  <2>. QED
    BY <1>2, <2>2, <2>3, <2>4 DEF MarkJobStarted
<1>3. CASE \/ DeleteExistingRows(w) \/ ExportBoard(w) \/ EmbedBatch(w)
           \/ SaveBoardToCollection(w)
  <2>1. UNCHANGED jobs /\ run[w].pc \in Busy \ {"finish", "fail", "failWrite"}
    BY <1>3 DEF DeleteExistingRows, ExportBoard, EmbedBatch, SaveBoardToCollection, Busy, At
  <2>2. run'[w].pc \in Busy \ {"failWrite"} /\ run'[w].job = j
    <3>1. ASSUME NEW pc, Goto(w, pc)
          PROVE  run'[w].pc = pc /\ run'[w].job = j
      BY <1>0, <3>1 DEF Goto, Run
    <3>2. CASE DeleteExistingRows(w) \/ SaveBoardToCollection(w)
      BY <3>1, <3>2 DEF DeleteExistingRows, SaveBoardToCollection, Busy
    <3>3. CASE ExportBoard(w)
      BY <1>0, <3>1, <3>3 DEF ExportBoard, Busy, Run
    <3>4. CASE EmbedBatch(w)
      BY <1>0, <3>1, <3>4 DEF EmbedBatch, Busy, Run
    <3>. QED
      BY <1>3, <3>2, <3>3, <3>4
  <2>3. HandKnown(w)'
    BY <1>0, <1>s, <2>1, <2>2 DEF HandKnown, InHand, Busy
  <2>. QED
    BY <2>1, <2>3, <1>q
<1>4. CASE MarkJobCompleted(w)
  <2>1. /\ j \in Ids /\ jobs[j].retry \in Nat /\ run[w].pc \notin {"poll", "down"}
        /\ j \notin shared => jobs[j].status = "in_progress" /\ jobs[j].retry < MaxRetries
    BY <1>0, <1>4 DEF MarkJobCompleted, At, HandKnown, InHand, Job, Busy
  <2>. QED
    BY <1>4, <2>1, <1>f, <1>r, WriteRetry DEF MarkJobCompleted, Status
<1>5. CASE MarkJobFailedRead(w)
  <2>1. UNCHANGED jobs /\ run[w].pc = "fail"
    BY <1>5 DEF MarkJobFailedRead, At
  <2>2. CASE Return(w)
    BY <2>1, <2>2, <1>q, <1>r
  <2>3. CASE run' = [run EXCEPT ![w] = [@ EXCEPT !.pc = "failWrite", !.retry = jobs[j].retry]]
    <3>1. run'[w].pc = "failWrite" /\ run'[w].job = j /\ run'[w].retry = jobs[j].retry
      BY <1>0, <2>3 DEF Run
    <3>2. HandKnown(w)'
      BY <1>0, <1>s, <2>1, <3>1 DEF HandKnown, InHand, Busy
    <3>. QED
      BY <2>1, <3>2, <1>q
  <2>. QED
    BY <1>5, <2>2, <2>3 DEF MarkJobFailedRead
<1>6. CASE MarkJobFailedWrite(w)
  <2> DEFINE n == run[w].retry + 1
             status == IF n < MaxRetries THEN "pending" ELSE "error"
  <2>1. /\ j \in Ids /\ run[w].retry \in Nat /\ run[w].pc \notin {"poll", "down"}
        /\ j \notin shared => jobs[j].status = "in_progress" /\ run[w].retry < MaxRetries
    BY <1>0, <1>6 DEF MarkJobFailedWrite, At, HandKnown, InHand, Job, Busy, Run
  <2>2. n \in Nat /\ status \in Status
    BY <2>1 DEF Status
  <2>3. j \notin shared => IF status = "error" THEN n = MaxRetries ELSE n < MaxRetries
    BY <2>1, ConstantsAssumption
  <2>4. Return(w) /\ (jobs' = Update(j, status, n) \/ MaybeUpdate(j, status, n))
    BY <1>6 DEF MarkJobFailedWrite
  <2> HIDE DEF n, status
  <2>. QED
    BY <2>1, <2>2, <2>3, <2>4, <1>f, <1>r, WriteRetry
<1>7. CASE Crash(w)
  <2>1. UNCHANGED jobs /\ run'[w].pc = "down"
    BY <1>0, <1>7 DEF Crash, FreshRun
  <2>2. HandKnown(w)'
    BY <2>1 DEF HandKnown, InHand, Busy
  <2>. QED
    BY <2>1, <2>2, <1>q
<1>8. CASE Restart(w)
  BY <1>8, <1>q, <1>r DEF Restart
<1>. QED
  BY <1>1, <1>2, <1>3, <1>4, <1>5, <1>6, <1>7, <1>8 DEF WorkerStep

LEMMA StepRetry ==
  ASSUME RetryInv, TypeOK', Next, Share
  PROVE  RetryInv' /\ UnsharedSettled
<1>0. jobs \in Seq(Job) /\ \A i \in Ids : jobs[i] \in Job
  BY ElementOfSeq, LenProperties DEF RetryInv, TypeOK, Ids
<1>q. ASSUME UNCHANGED <<jobs, run>>
      PROVE  RetryInv' /\ UnsharedSettled
  <2>1. Ids' = Ids /\ \A i \in Ids : jobs'[i].status = jobs[i].status
                                     /\ jobs'[i].retry = jobs[i].retry
    BY <1>q DEF Ids
  <2>. QED
    BY <1>q, <2>1, QuietRetry
<1>2. ASSUME NEW c \in Caller, CreateJob(c)
      PROVE  RetryInv' /\ UnsharedSettled
  <2>1. UNCHANGED run /\ call[c].board \in Board /\ call[c].assistant \in Assistant
    BY <1>2 DEF CreateJob, RetryInv, TypeOK
  <2>2. CASE jobs' = Append(jobs, NewJob(call[c].board, call[c].assistant))
    <3>1. \A i \in Ids : i \in Ids' /\ jobs'[i] = jobs[i]
      BY <1>0, <2>1, <2>2, AppendType DEF Ids
    <3>2. \A i \in Ids' \ Ids : jobs'[i] = NewJob(call[c].board, call[c].assistant)
      BY <1>0, <2>1, <2>2, AppendType DEF Ids
    <3>3. \A i \in Ids' \ Ids : RetryOk(i)'
      BY <3>2, ConstantsAssumption DEF RetryOk, NewJob
    <3>. QED
      BY <2>1, <3>1, <3>3, QuietRetry
  <2>. QED
    BY <1>2, <1>q, <2>1, <2>2 DEF CreateJob
<1>3. ASSUME NEW c \in Caller, CallerStep(c) \/ AbortCaller(c)
      PROVE  RetryInv' /\ UnsharedSettled
  BY <1>2, <1>3, <1>q DEF CallerStep, AbortCaller, SaveAssistant, MarkBoardAsEmbed,
     CheckExisting, ReturnJobIds
<1>4. ASSUME NEW d \in Deleter, SoftDeleteJobs(d)
      PROVE  RetryInv' /\ UnsharedSettled
  <2>1. UNCHANGED run
    BY <1>4 DEF SoftDeleteJobs
  <2>2. CASE jobs' = SoftDelete(dboard[d])
    <3>1. Ids' = Ids /\ \A i \in Ids : jobs'[i].status = jobs[i].status
                                       /\ jobs'[i].retry = jobs[i].retry
      BY <1>0, <2>2, SoftDeleteStep, SoftDeleteType DEF Ids
    <3>. QED
      BY <2>1, <3>1, QuietRetry
  <2>. QED
    BY <1>4, <1>q, <2>1, <2>2 DEF SoftDeleteJobs
<1>5. ASSUME NEW d \in Deleter, DeleterStep(d) \/ AbortDeleter(d)
      PROVE  RetryInv' /\ UnsharedSettled
  BY <1>4, <1>5, <1>q DEF DeleterStep, AbortDeleter, DeleteBoardRows
<1>. QED
  BY <1>3, <1>5, WorkerRetry DEF Next

LEMMA NextRetry ==
  ASSUME RetryInv, TypeOK', [Next /\ Record]_<<vars, history>>
  PROVE  RetryInv' /\ UnsharedSettled
<1>1. CASE UNCHANGED <<vars, history>>
  <2>0. UNCHANGED <<vars, shared>>
    BY <1>1 DEF history
  <2>1. HeldTwice' = HeldTwice /\ Ids' = Ids
    BY <2>0 DEF vars, HeldTwice, Holds, Ids
  <2>2. SharedKnown' /\ RetryMatchesStatus'
    BY <2>0, <2>1 DEF vars, RetryInv, SharedKnown, RetryMatchesStatus, RetryOk
  <2>3. \A w \in Worker : HandKnown(w)'
    BY <2>0 DEF vars, RetryInv, HandKnown, InHand
  <2>. QED
    BY <2>0, <2>2, <2>3 DEF vars, RetryInv, UnsharedSettled, StaysSettled
<1>2. CASE Next /\ Record
  BY <1>2, StepRetry DEF Record
<1>. QED
  BY <1>1, <1>2

LEMMA InitRetry == InitW => RetryInv
<1> SUFFICES ASSUME InitW
             PROVE  RetryInv
  OBVIOUS
<1>1. NoRun.pc = "poll"
  BY DEF NoRun, FreshRun
<1>2. \A w \in Worker : HandKnown(w)
  BY <1>1 DEF InitW, Init, HandKnown, InHand, Busy
<1>3. Ids = {}
  BY EmptySeq DEF InitW, Init, Ids
<1>4. TypeOK
  BY InitTypeOK DEF InitW
<1>. QED
  BY <1>2, <1>3, <1>4 DEF RetryInv, RetryMatchesStatus, SharedKnown, HeldTwice

\* The workers' runs are runs of the queue.
LEMMA WorkersTypeOK == SpecW => []TypeOK
<1>1. InitW => Init
  BY DEF InitW
<1>2. [Next /\ Record]_<<vars, history>> => [Next]_vars
  OBVIOUS
<1>. QED
  BY <1>1, <1>2, TypeCorrect, PTL DEF Spec, SpecW

\* Whatever the number of workers, retries, jobs and requests: a job that no two
\* workers have had in hand at once is in error exactly when its retries are
\* used up. Crashes, failing calls of the store and deletions under a run do not
\* change that.
THEOREM RetryCountMatches == SpecW => []RetryMatchesStatus
<1>1. RetryInv /\ TypeOK' /\ [Next /\ Record]_<<vars, history>> => RetryInv'
  BY NextRetry
<1>2. RetryInv => RetryMatchesStatus
  BY DEF RetryInv
<1>. QED
  BY <1>1, <1>2, InitRetry, WorkersTypeOK, PTL DEF SpecW

\* Such a job, once done or in error, is never worked on again. Of a job that
\* two workers share it is not true: one fails what the other has completed.
THEOREM SettledJobsStay == SpecW => SettledStays
<1>1. RetryInv /\ TypeOK' /\ [Next /\ Record]_<<vars, history>> => RetryInv'
  BY NextRetry
<1>2. RetryInv /\ TypeOK' /\ [Next /\ Record]_<<vars, history>>
        => [\A j \in Ids : j \notin shared' => StaysSettled(j)]_<<vars, shared>>
  BY NextRetry DEF UnsharedSettled
<1>. QED
  BY <1>1, <1>2, InitRetry, WorkersTypeOK, PTL DEF SpecW, SettledStays

----------------------------------------------------------------------------
(* What a run that is done has left in the rag store, when no other worker  *)
(* was at its board: from the moment it has deleted the board's rows until  *)
(* another run or a request deletes them, they are what it has stored.      *)

Working(w) == run[w].pc \notin {"poll", "down"}
After(w) == run[w].pc \in {"export", "embed", "save", "finish"}
MyBoard(w) == jobs[run[w].job].board
MyAssistant(w) == jobs[run[w].job].assistant
Stored(w) == IF run[w].pc = "export" THEN 0
             ELSE IF run[w].pc = "embed" THEN run[w].batch ELSE run[w].total

\* The rows of board b are the first n batches that w has stored for a.
Filled(b, a, w, n) ==
  \A r \in Row : r[1] = b => rag[r] = IF r[2] = a /\ r[3] <= n /\ r[4] = w THEN 1 ELSE 0

Filling(w) ==
  After(w) /\ MyBoard(w) \notin crowded =>
    /\ cleared[MyBoard(w)] \in {0, run[w].job}
    /\ cleared[MyBoard(w)] = run[w].job => Filled(MyBoard(w), MyAssistant(w), w, Stored(w))
    /\ run[w].pc = "finish" => <<MyBoard(w), MyAssistant(w), run[w].total>> \in parquet

Unsettled(w) ==
  Working(w) /\ MyBoard(w) \notin crowded => jobs[run[w].job].status # "done"

FilledBy(j, n, w) ==
  /\ <<jobs[j].board, jobs[j].assistant, n>> \in parquet
  /\ Filled(jobs[j].board, jobs[j].assistant, w, n)

Embedded(j) ==
  (/\ jobs[j].status = "done" /\ Live(j)
   /\ cleared[jobs[j].board] = j /\ jobs[j].board \notin crowded)
    => \E n \in 0 .. MaxBatch, w \in Worker : FilledBy(j, n, w)

EmbeddedInv ==
  /\ TypeOK /\ Crowd \subseteq crowded /\ cleared \in [Board -> Nat]
  /\ \A w \in Worker : Filling(w) /\ Unsettled(w)
  /\ \A j \in Ids : Embedded(j)

\* A step leaves job i in its place, with its board and its assistant.
SameJob(i) ==
  /\ i \in Ids' /\ jobs'[i].board = jobs[i].board /\ jobs'[i].assistant = jobs[i].assistant
  /\ Live(i)' => Live(i)

\* Away from the boards that a step is at, nothing changes for the workers
\* that stay where they are, nor for the jobs that are done.
LEMMA AwayFrom ==
  ASSUME EmbeddedInv, crowded \subseteq crowded', parquet \subseteq parquet', NEW B,
         \A r \in Row : r[1] \notin B => rag'[r] = rag[r],
         \A b \in Board \ B : cleared'[b] = cleared[b],
         \A i \in Ids : SameJob(i) /\ (jobs[i].board \notin B => jobs'[i].status = jobs[i].status)
  PROVE  /\ \A v \in Worker : run'[v] = run[v] /\ (Working(v) => MyBoard(v) \notin B)
                                => Filling(v)' /\ Unsettled(v)'
         /\ \A j \in Ids : jobs[j].board \notin B => Embedded(j)'
<1>0. \A j \in Ids : jobs[j].board \in Board
  <2>1. \A j \in Ids : jobs[j] \in Job
    BY ElementOfSeq, LenProperties DEF EmbeddedInv, TypeOK, Ids
  <2>. QED
    BY <2>1 DEF Job
<1>f. ASSUME NEW b \in Board \ B, NEW a, NEW w, NEW n, Filled(b, a, w, n)
      PROVE  Filled(b, a, w, n)'
  BY <1>f DEF Filled
<1>1. ASSUME NEW v \in Worker, run'[v] = run[v], Working(v) => MyBoard(v) \notin B
      PROVE  Filling(v)' /\ Unsettled(v)'
  <2>1. CASE ~ Working(v)
    BY <1>1, <2>1 DEF Filling, Unsettled, Working, After
  <2>2. CASE Working(v)
    <3>1. PICK i \in Ids : i = run[v].job
      BY <2>2 DEF EmbeddedInv, TypeOK, Working
    <3>2. PICK b \in Board \ B : b = jobs[i].board
      BY <1>0, <1>1, <2>2, <3>1 DEF MyBoard
    <3>3. PICK a : a = jobs[i].assistant
      OBVIOUS
    <3>4. /\ run'[v].job = i /\ jobs'[i].board = b /\ jobs'[i].assistant = a
          /\ jobs'[i].status = jobs[i].status /\ cleared'[b] = cleared[b]
      BY <1>1, <3>1, <3>2, <3>3 DEF SameJob
    <3>5. Filling(v) /\ Unsettled(v)
      BY DEF EmbeddedInv
    <3>6. PICK n : n = Stored(v)
      OBVIOUS
    <3>7. Stored(v)' = n
      BY <1>1, <3>6 DEF Stored
    <3>8. Unsettled(v)'
      BY <1>1, <3>1, <3>2, <3>4, <3>5 DEF Unsettled, Working, MyBoard
    <3>9. ASSUME run[v].pc \in {"export", "embed", "save", "finish"}, b \notin crowded'
          PROVE  /\ cleared[b] \in {0, i}
                 /\ cleared[b] = i => Filled(b, a, v, n)
                 /\ run[v].pc = "finish" => <<b, a, run[v].total>> \in parquet
      BY <3>1, <3>2, <3>3, <3>5, <3>6, <3>9 DEF Filling, After, MyBoard, MyAssistant
    <3>10. Filling(v)'
      <4> SUFFICES ASSUME run[v].pc \in {"export", "embed", "save", "finish"}, b \notin crowded'
                   PROVE  /\ cleared'[b] \in {0, i}
                          /\ cleared'[b] = i => Filled(b, a, v, n)'
                          /\ run[v].pc = "finish" => <<b, a, run[v].total>> \in parquet'
        BY <1>1, <3>4, <3>7 DEF Filling, After, MyBoard, MyAssistant
      <4>. QED
        BY <1>f, <3>4, <3>9
    <3>. QED
      BY <3>8, <3>10
  <2>. QED
    BY <2>1, <2>2
<1>2. ASSUME NEW j \in Ids, jobs[j].board \notin B
      PROVE  Embedded(j)'
  <2>1. PICK b \in Board \ B : b = jobs[j].board
    BY <1>0, <1>2
  <2>2. PICK a : a = jobs[j].assistant
    OBVIOUS
  <2>3. /\ jobs'[j].board = b /\ jobs'[j].assistant = a /\ cleared'[b] = cleared[b]
        /\ jobs'[j].status = jobs[j].status /\ (Live(j)' => Live(j))
    BY <1>2, <2>1, <2>2 DEF SameJob
  <2> SUFFICES ASSUME jobs[j].status = "done", Live(j), cleared[b] = j, b \notin crowded
               PROVE  \E n \in 0 .. MaxBatch, w \in Worker : FilledBy(j, n, w)'
    BY <2>3 DEF Embedded
  <2>4. PICK n \in 0 .. MaxBatch, w \in Worker : FilledBy(j, n, w)
    BY <2>1 DEF EmbeddedInv, Embedded
  <2>5. FilledBy(j, n, w)'
    BY <1>f, <2>1, <2>2, <2>3, <2>4 DEF FilledBy
  <2>. QED
    BY <2>5
<1>. QED
  BY <1>1, <1>2

\* A step of a worker at board b leaves alone who is at another board, and says
\* nothing of who is at the same one: two of them crowd it.
LEMMA OneWorkerMoves ==
  ASSUME EmbeddedInv, Record, parquet \subseteq parquet', NEW w \in Worker, NEW b \in Board,
         Working(w) => b = MyBoard(w),
         \A v \in Worker : v # w => run'[v] = run[v],
         \A r \in Row : (Working(w) /\ r[1] = b) \/ rag'[r] = rag[r],
         \A c \in Board : (Working(w) /\ c = b) \/ cleared'[c] = cleared[c],
         Ids' = Ids,
         \A i \in Ids : /\ SameJob(i)
                        /\ (Working(w) /\ jobs[i].board = b) \/ jobs'[i].status = jobs[i].status,
         TypeOK', Filling(w)' /\ Unsettled(w)',
         Working(w) /\ b \notin crowded' =>
           \A i \in Ids : jobs[i].board = b => Embedded(i)'
  PROVE  EmbeddedInv'
<1> DEFINE B == IF Working(w) THEN {b} ELSE {}
<1>0. crowded \subseteq crowded' /\ Crowd' \subseteq crowded'
  BY DEF Record
<1>1. cleared' \in [Board -> Nat]
  <2>1. ASSUME NEW v \in Worker, NEW c, RunClears(v, c)
        PROVE  run[v].job \in Nat
    BY <2>1 DEF RunClears, AtBoard, Holds, EmbeddedInv, TypeOK, Run
  <2>2. ASSUME NEW c \in Board, \E v \in Worker : RunClears(v, c)
        PROVE  run[CHOOSE v \in Worker : RunClears(v, c)].job \in Nat
    BY <2>1, <2>2
  <2>. QED
    BY <2>2 DEF Record, Clearing, EmbeddedInv
<1>2. /\ \A v \in Worker : run'[v] = run[v] /\ (Working(v) => MyBoard(v) \notin B)
                             => Filling(v)' /\ Unsettled(v)'
      /\ \A j \in Ids : jobs[j].board \notin B => Embedded(j)'
  <2>1. \A r \in Row : r[1] \notin B => rag'[r] = rag[r]
    OBVIOUS
  <2>2. \A c \in Board \ B : cleared'[c] = cleared[c]
    OBVIOUS
  <2>3. \A i \in Ids : SameJob(i) /\ (jobs[i].board \notin B => jobs'[i].status = jobs[i].status)
    OBVIOUS
  <2> HIDE DEF B
  <2>. QED
    BY <1>0, <2>1, <2>2, <2>3, AwayFrom
<1>3. ASSUME NEW v \in Worker
      PROVE  Filling(v)' /\ Unsettled(v)'
  <2>1. CASE v # w /\ Working(v) /\ Working(w) /\ MyBoard(v) = b
    <3>1. b \in Crowd
      <4>1. run[v].job \in Ids /\ run[w].job \in Ids
        BY <2>1 DEF EmbeddedInv, TypeOK, Working
      <4>2. AtBoard(v, b) /\ AtBoard(w, b)
        BY <2>1, <4>1 DEF AtBoard, Holds, Working, MyBoard
      <4>. QED
        BY <2>1, <4>2 DEF Crowd
    <3>2. b \in crowded'
      BY <1>0, <3>1 DEF EmbeddedInv
    <3>3. run[v].job \in Ids
      BY <2>1 DEF EmbeddedInv, TypeOK, Working
    <3>4. MyBoard(v)' = b
      BY <2>1, <3>3 DEF MyBoard, SameJob
    <3>. QED
      BY <3>2, <3>4 DEF Filling, Unsettled
  <2>2. CASE v # w /\ ~ (Working(v) /\ Working(w) /\ MyBoard(v) = b)
    BY <1>2, <2>2
  <2>. QED
    BY <2>1, <2>2
<1>4. ASSUME NEW i \in Ids
      PROVE  Embedded(i)'
  <2>1. CASE jobs[i].board \notin B
    BY <1>2, <2>1
  <2>2. CASE jobs[i].board \in B /\ b \in crowded'
    BY <2>2 DEF Embedded, SameJob
  <2>3. CASE jobs[i].board \in B /\ b \notin crowded'
    BY <2>3
  <2>. QED
    BY <2>1, <2>2, <2>3
<1>. QED
  BY <1>0, <1>1, <1>3, <1>4 DEF EmbeddedInv

\* What a worker's step records of the boards whose rows are deleted.
LEMMA WorkerClears ==
  ASSUME Record, NEW w \in Worker, \A v \in Worker : v # w => run'[v] = run[v],
         UNCHANGED dboard, NEW c \in Board
  PROVE  cleared'[c] = IF RunClears(w, c) THEN run[w].job ELSE cleared[c]
<1>1. ~ RequestClears(c)
  BY ConstantsAssumption DEF RequestClears
<1>2. \A v \in Worker : RunClears(v, c) => v = w
  BY DEF RunClears
<1>. QED
  BY <1>1, <1>2 DEF Record, Clearing

\* A worker that has a job in hand and goes on with it, or lets it go.
LEMMA WorkerGoesOn ==
  ASSUME EmbeddedInv, Record, TypeOK', NEW w \in Worker, Working(w),
         NEW j \in Ids, j = run[w].job, NEW b \in Board, b = jobs[j].board,
         \A v \in Worker : v # w => run'[v] = run[v], UNCHANGED dboard,
         parquet \subseteq parquet', Ids' = Ids,
         \A r \in Row : r[1] = b \/ rag'[r] = rag[r],
         \A i \in Ids : SameJob(i) /\ (i # j => jobs'[i] = jobs[i]),
         Filling(w)' /\ Unsettled(w)',
         b \notin crowded' =>
           \A i \in Ids : jobs[i].board = b => Embedded(i)'
  PROVE  EmbeddedInv'
<1>1. \A c \in Board : c = b \/ cleared'[c] = cleared[c]
  BY WorkerClears DEF RunClears, AtBoard, Holds
<1>2. \A i \in Ids : jobs[i].board = b \/ jobs'[i].status = jobs[i].status
  OBVIOUS
<1>. QED
  BY <1>1, <1>2, OneWorkerMoves DEF MyBoard

\* What is known of a worker alone at a board.
LEMMA AloneAtBoard ==
  ASSUME EmbeddedInv, Record, NEW w \in Worker, Working(w),
         NEW j \in Ids, j = run[w].job, NEW b \in Board, b = jobs[j].board, b \notin crowded'
  PROVE  /\ b \notin crowded /\ jobs[j].status # "done"
         /\ After(w) => cleared[b] \in {0, j}
         /\ After(w) /\ cleared[b] = j => Filled(b, jobs[j].assistant, w, Stored(w))
         /\ run[w].pc = "finish" => <<b, jobs[j].assistant, run[w].total>> \in parquet
<1>1. b \notin crowded /\ Filling(w) /\ Unsettled(w)
  BY DEF Record, EmbeddedInv
<1>. QED
  BY <1>1 DEF Filling, Unsettled, MyBoard, MyAssistant, After

\* If neither the board's rows nor who has deleted them change, a job that is
\* done and is not in the worker's hand remains embedded.
LEMMA StaysEmbedded ==
  ASSUME EmbeddedInv, NEW i \in Ids, NEW b \in Board, b = jobs[i].board,
         crowded \subseteq crowded', parquet \subseteq parquet', cleared'[b] = cleared[b],
         \A r \in Row : rag'[r] = rag[r], SameJob(i),
         jobs'[i].status = jobs[i].status
  PROVE  Embedded(i)'
<1>1. Embedded(i)
  BY DEF EmbeddedInv
<1>2. ASSUME NEW n, NEW w, FilledBy(i, n, w)
      PROVE  FilledBy(i, n, w)'
  BY <1>2 DEF FilledBy, Filled, SameJob
<1> SUFFICES ASSUME jobs[i].status = "done", Live(i), cleared[b] = i, b \notin crowded
             PROVE  \E n \in 0 .. MaxBatch, w \in Worker : FilledBy(i, n, w)'
  BY DEF Embedded, SameJob
<1>3. PICK n \in 0 .. MaxBatch, w \in Worker : FilledBy(i, n, w)
  BY <1>1 DEF Embedded
<1>. QED
  BY <1>2, <1>3

\* The worker's next step, while it has job j of board b in hand.
LEMMA RunStep ==
  ASSUME EmbeddedInv, Record, TypeOK', NEW w \in Worker, Working(w),
         DbType = "postgresql" \/ ~ StoreMayFail,
         NEW j \in Ids, j = run[w].job, NEW b \in Board, b = jobs[j].board,
         WorkerStep(w) \/ Crash(w) \/ Restart(w)
  PROVE  EmbeddedInv'
<1>0. /\ run \in [Worker -> Run] /\ run[w] \in Run /\ jobs \in Seq(Job) /\ rag \in [Row -> Nat]
      /\ \A i \in Ids : jobs[i] \in Job
      /\ run[w].batch \in Nat /\ run[w].total \in 0 .. MaxBatch
      /\ run[w].pc = "embed" => run[w].batch < run[w].total
  <2>1. run \in [Worker -> Run] /\ run[w] \in Run
    BY DEF EmbeddedInv, TypeOK
  <2>2. \A i \in Ids : jobs[i] \in Job
    BY ElementOfSeq, LenProperties DEF EmbeddedInv, TypeOK, Ids
  <2>3. run[w].batch \in 0 .. MaxBatch /\ run[w].total \in 0 .. MaxBatch
    BY <2>1 DEF Run
  <2>4. /\ jobs \in Seq(Job) /\ rag \in [Row -> Nat]
        /\ run[w].pc = "embed" => run[w].batch < run[w].total
    BY DEF EmbeddedInv, TypeOK
  <2>. QED
    BY <2>1, <2>2, <2>3, <2>4, ConstantsAssumption
<1>f. ASSUME NEW v \in Worker, v # w
      PROVE  run'[v] = run[v]
  BY <1>0, <1>f DEF WorkerStep, Crash, Restart, GetPendingJob, MarkJobStarted,
     DeleteExistingRows, ExportBoard, EmbedBatch, SaveBoardToCollection, MarkJobCompleted,
     MarkJobFailedRead, MarkJobFailedWrite, Goto, Return
<1>d. UNCHANGED dboard /\ parquet \subseteq parquet' /\ crowded \subseteq crowded'
  BY DEF Record, WorkerStep, Crash, Restart, GetPendingJob, MarkJobStarted,
     DeleteExistingRows, ExportBoard, EmbedBatch, SaveBoardToCollection, MarkJobCompleted,
     MarkJobFailedRead, MarkJobFailedWrite
<1>c. cleared'[b] = IF run[w].pc = "clear" /\ run'[w].pc = "export" THEN j ELSE cleared[b]
  <2>1. RunClears(w, b) <=> run[w].pc = "clear" /\ run'[w].pc = "export"
    BY DEF RunClears, AtBoard, Holds, Working
  <2>. QED
    BY <1>d, <1>f, <2>1, WorkerClears
<1>a. ASSUME b \notin crowded'
      PROVE  /\ jobs[j].status # "done"
             /\ After(w) => cleared[b] \in {0, j}
             /\ After(w) /\ cleared[b] = j => Filled(b, jobs[j].assistant, w, Stored(w))
             /\ run[w].pc = "finish" => <<b, jobs[j].assistant, run[w].total>> \in parquet
  BY <1>a, AloneAtBoard
<1>j. j \in Nat /\ j # 0
  BY LenProperties DEF EmbeddedInv, TypeOK, Ids
<1>s. UNCHANGED jobs => Ids' = Ids /\ \A i \in Ids : SameJob(i) /\ jobs'[i] = jobs[i]
  BY DEF Ids, SameJob, Live
\* Who has let its job go.
<1>g. ASSUME Return(w) \/ run'[w].pc = "down"
      PROVE  Filling(w)' /\ Unsettled(w)'
  <2>1. run'[w].pc \in {"poll", "down"}
    BY <1>0, <1>g DEF Return, NoRun, FreshRun
  <2>. QED
    BY <2>1 DEF Filling, Unsettled, Working, After
\* Who goes on with its job, but is not at work on the rows.
<1>h. ASSUME run'[w].pc \notin {"poll", "down", "export", "embed", "save", "finish"},
             run'[w].job = j, SameJob(j), jobs'[j].status = "done" => b \in crowded'
      PROVE  Filling(w)' /\ Unsettled(w)'
  BY <1>h DEF Filling, Unsettled, Working, After, MyBoard, SameJob
\* Steps that change no job, no row and do not clear.
<1>q. ASSUME UNCHANGED <<jobs, rag>>, ~ (run[w].pc = "clear" /\ run'[w].pc = "export"),
             Filling(w)' /\ Unsettled(w)'
      PROVE  EmbeddedInv'
  <2>1. \A i \in Ids : jobs[i].board = b => Embedded(i)'
    BY <1>c, <1>d, <1>q, <1>s, StaysEmbedded
  <2>. QED
    BY <1>d, <1>f, <1>q, <1>s, <2>1, WorkerGoesOn
\* The write of a status into the job in hand.
<1>w. ASSUME NEW status \in Status, NEW n \in Nat,
             jobs' = Update(j, status, n) \/ MaybeUpdate(j, status, n),
             UNCHANGED rag, ~ (run[w].pc = "clear" /\ run'[w].pc = "export"),
             status = "done" =>
               (cleared[b] = j /\ b \notin crowded' =>
                  \E k \in 0 .. MaxBatch : FilledBy(j, k, w)),
             (jobs'[j].status \in {status, jobs[j].status}) => (Filling(w)' /\ Unsettled(w)')
      PROVE  EmbeddedInv'
  <2>1. Ids' = Ids
    BY <1>0, <1>w, WriteType
  <2>2. \A i \in Ids : JobStep(i) /\ (i # j => jobs'[i] = jobs[i])
    BY <1>0, <1>w, UpdateStep
  <2>3. \A i \in Ids : SameJob(i)
    BY <2>1, <2>2 DEF JobStep, SameJob, Live
  <2>4. jobs'[j].status \in {status, jobs[j].status}
    <3>1. CASE jobs' = jobs
      BY <3>1
    <3>2. CASE jobs' # jobs
      <4>1. jobs' = [jobs EXCEPT ![j] = [@ EXCEPT !.status = status, !.retry = n]]
        BY <1>w, <3>2 DEF Update, MaybeUpdate
      <4>2. jobs'[j] = [jobs[j] EXCEPT !.status = status, !.retry = n]
        BY <4>1 DEF Ids
      <4>. QED
        BY <1>0, <4>2 DEF Job
    <3>. QED
      BY <3>1, <3>2
  <2>5. ASSUME NEW i \in Ids, jobs[i].board = b, b \notin crowded'
        PROVE  Embedded(i)'
    <3>1. CASE i # j
      BY <1>c, <1>d, <1>w, <2>2, <2>3, <2>5, <3>1, StaysEmbedded
    <3>2. CASE i = j /\ jobs'[j].status # "done"
      BY <3>2 DEF Embedded
    <3>3. CASE i = j /\ jobs'[j].status = "done"
      <4>1. status = "done" /\ cleared'[b] = cleared[b]
        BY <1>a, <1>c, <1>w, <2>4, <2>5, <3>3
      <4>2. ASSUME NEW k, FilledBy(j, k, w)
            PROVE  FilledBy(j, k, w)'
        <5>1. jobs'[j].board = b /\ jobs'[j].assistant = jobs[j].assistant
          BY <2>3 DEF SameJob
        <5>. QED
          BY <1>d, <1>w, <4>2, <5>1 DEF FilledBy, Filled
      <4> SUFFICES ASSUME cleared'[b] = j
                   PROVE  \E k \in 0 .. MaxBatch, v \in Worker : FilledBy(j, k, v)'
        BY <2>3, <3>3 DEF Embedded, SameJob
      <4>3. PICK k \in 0 .. MaxBatch : FilledBy(j, k, w)
        BY <1>w, <2>5, <4>1
      <4>. QED
        BY <4>2, <4>3
    <3>. QED
      BY <3>1, <3>2, <3>3
  <2>6. Filling(w)' /\ Unsettled(w)'
    BY <1>w, <2>4
  <2>7. \A r \in Row : r[1] = b \/ rag'[r] = rag[r]
    BY <1>w
  <2>. QED
    BY <1>d, <1>f, <2>1, <2>2, <2>3, <2>5, <2>6, <2>7, WorkerGoesOn
<1>r. jobs[j].retry \in Nat /\ run[w].retry + 1 \in Nat
  BY <1>0 DEF Run, Job
<1>1. CASE GetPendingJob(w) \/ Restart(w)
  BY <1>1 DEF GetPendingJob, Restart, At, Working
<1>2. CASE MarkJobStarted(w)
  <2>1. CASE ~ Live(j) /\ UNCHANGED jobs /\ Return(w)
    <3>1. run[w].pc = "start" /\ UNCHANGED rag
      BY <1>2 DEF MarkJobStarted, At
    <3>. QED
      BY <1>g, <1>q, <2>1, <3>1
  <2>2. CASE MaybeUpdate(j, "in_progress", jobs[j].retry) /\ Return(w)
    <3>1. run[w].pc = "start" /\ UNCHANGED rag
      BY <1>2 DEF MarkJobStarted, At
    <3>. QED
      BY <1>g, <1>r, <1>w, <2>2, <3>1 DEF Status
  <2>3. CASE Live(j) /\ jobs' = Update(j, "in_progress", jobs[j].retry) /\ Goto(w, "clear")
    <3>1. run[w].pc = "start" /\ UNCHANGED rag
      BY <1>2 DEF MarkJobStarted, At
    <3>2. run'[w].pc = "clear" /\ run'[w].job = j
      BY <1>0, <2>3 DEF Goto, Run
    <3>3. SameJob(j)
      BY <1>0, <1>r, <2>3, UpdateStep, WriteType DEF JobStep, SameJob, Live, Status
    <3>4. ASSUME jobs'[j].status \in {"in_progress", jobs[j].status}
          PROVE  Filling(w)' /\ Unsettled(w)'
      BY <1>a, <1>h, <3>2, <3>3, <3>4
    <3>. QED
      BY <1>r, <1>w, <2>3, <3>1, <3>4 DEF Status
  <2>. QED
    BY <1>2, <2>1, <2>2, <2>3 DEF MarkJobStarted
<1>3. CASE DeleteExistingRows(w)
  <2>0. run[w].pc = "clear" /\ UNCHANGED jobs
    BY <1>3 DEF DeleteExistingRows, At
  <2>1. CASE Goto(w, "fail") /\ UNCHANGED rag
    <3>1. run'[w].pc = "fail" /\ run'[w].job = j
      BY <1>0, <2>1 DEF Goto, Run
    <3>. QED
      BY <1>a, <1>h, <1>q, <1>s, <2>0, <2>1, <3>1
  <2>2. CASE rag' = RowsCleared(b) /\ Goto(w, "export")
    <3>1. run'[w].pc = "export" /\ run'[w].job = j
      BY <1>0, <2>2 DEF Goto, Run
    <3>2. cleared'[b] = j
      BY <1>c, <2>0, <3>1
    <3>3. \A r \in Row : rag'[r] = IF r[1] = b THEN 0 ELSE rag[r]
      BY <2>2 DEF RowsCleared
    <3>4. Filled(b, jobs[j].assistant, w, 0)'
      <4>1. \A r \in Row : r[3] \in Nat /\ r[3] # 0
        BY ConstantsAssumption DEF Row, Batch
      <4>. QED
        BY <2>0, <3>3, <4>1 DEF Filled
    <3>5. Filling(w)' /\ Unsettled(w)'
      <4>1. MyBoard(w)' = b /\ MyAssistant(w)' = jobs[j].assistant /\ Stored(w)' = 0
        BY <2>0, <3>1 DEF MyBoard, MyAssistant, Stored
      <4>. QED
        BY <1>a, <2>0, <3>1, <3>2, <3>4, <4>1 DEF Filling, Unsettled
    <3>6. ASSUME NEW i \in Ids, jobs[i].board = b, b \notin crowded'
          PROVE  Embedded(i)'
      BY <1>a, <2>0, <3>2, <3>6 DEF Embedded
    <3>. QED
      BY <1>d, <1>f, <1>s, <2>0, <3>3, <3>5, <3>6, WorkerGoesOn
  <2>. QED
    BY <1>3, <2>1, <2>2 DEF DeleteExistingRows
<1>4. CASE ExportBoard(w)
  <2>0. run[w].pc = "export" /\ UNCHANGED <<jobs, rag>>
    BY <1>4 DEF ExportBoard, At
  <2>1. CASE Goto(w, "fail")
    <3>1. run'[w].pc = "fail" /\ run'[w].job = j
      BY <1>0, <2>1 DEF Goto, Run
    <3>. QED
      BY <1>a, <1>h, <1>q, <1>s, <2>0, <3>1
  <2>2. ASSUME NEW n \in 0 .. MaxBatch,
               run' = [run EXCEPT ![w] = [@ EXCEPT !.total = n, !.batch = 0,
                                                   !.pc = IF n = 0 THEN "save" ELSE "embed"]]
        PROVE  EmbeddedInv'
    <3>1. /\ run'[w].pc = IF n = 0 THEN "save" ELSE "embed"
          /\ run'[w].job = j /\ run'[w].batch = 0 /\ run'[w].total = n
      BY <1>0, <2>2 DEF Run
    <3>2. Stored(w) = 0 /\ Stored(w)' = 0
      BY <2>0, <3>1 DEF Stored
    <3>3. MyBoard(w)' = b /\ MyAssistant(w)' = jobs[j].assistant /\ cleared'[b] = cleared[b]
      BY <1>c, <2>0, <3>1 DEF MyBoard, MyAssistant
    <3>4. Filled(b, jobs[j].assistant, w, 0) => Filled(b, jobs[j].assistant, w, 0)'
      BY <2>0 DEF Filled
    <3>5. Filling(w)' /\ Unsettled(w)'
      BY <1>a, <2>0, <3>1, <3>2, <3>3, <3>4 DEF Filling, Unsettled, After
    <3>. QED
      BY <1>q, <2>0, <3>5
  <2>. QED
    BY <1>4, <2>1, <2>2 DEF ExportBoard
<1>5. CASE EmbedBatch(w)
  <2>0. run[w].pc = "embed" /\ UNCHANGED jobs
    BY <1>5 DEF EmbedBatch, At
  <2>1. CASE Goto(w, "fail") /\ UNCHANGED rag
    <3>1. run'[w].pc = "fail" /\ run'[w].job = j
      BY <1>0, <2>1 DEF Goto, Run
    <3>. QED
      BY <1>a, <1>h, <1>q, <1>s, <2>0, <2>1, <3>1
  <2>2. CASE /\ rag' = [rag EXCEPT ![RowOf(w, run[w].batch + 1)] = @ + 1]
             /\ run' = [run EXCEPT ![w] = [@ EXCEPT !.batch = run[w].batch + 1,
                          !.pc = IF run[w].batch + 1 = run[w].total THEN "save" ELSE "embed"]]
    <3>1. PICK n \in Nat : n = run[w].batch
      BY <1>0
    <3>2. PICK a \in Assistant : a = jobs[j].assistant
      BY <1>0 DEF Job
    <3>3. /\ run'[w].pc = IF n + 1 = run[w].total THEN "save" ELSE "embed"
          /\ run'[w].job = j /\ run'[w].batch = n + 1 /\ run'[w].total = run[w].total
      BY <1>0, <2>2, <3>1 DEF Run
    <3>4. RowOf(w, n + 1) = <<b, a, n + 1, w>>
      BY <3>2 DEF RowOf
    <3>5. <<b, a, n + 1, w>> \in Row
      BY <1>0, <2>0, <3>1, ConstantsAssumption DEF Row, Batch
    <3>6. \A r \in Row : rag'[r] = IF r = <<b, a, n + 1, w>> THEN rag[r] + 1 ELSE rag[r]
      BY <1>0, <2>2, <3>1, <3>4, <3>5
    <3>7. Stored(w) = n /\ Stored(w)' = n + 1
      BY <2>0, <3>1, <3>3 DEF Stored
    <3>8. MyBoard(w)' = b /\ MyAssistant(w)' = a /\ cleared'[b] = cleared[b]
      BY <1>c, <2>0, <3>2, <3>3 DEF MyBoard, MyAssistant
    <3>9. ASSUME Filled(b, a, w, n)
          PROVE  Filled(b, a, w, n + 1)'
      <4> SUFFICES ASSUME NEW r \in Row, r[1] = b
                   PROVE  rag'[r] = IF r[2] = a /\ r[3] <= n + 1 /\ r[4] = w THEN 1 ELSE 0
        BY DEF Filled
      <4>1. /\ r[3] \in Nat /\ r = <<r[1], r[2], r[3], r[4]>>
            /\ rag[r] = IF r[2] = a /\ r[3] <= n /\ r[4] = w THEN 1 ELSE 0
        BY <3>9, ConstantsAssumption DEF Filled, Row, Batch
      <4>2. r = <<b, a, n + 1, w>> <=> r[2] = a /\ r[3] = n + 1 /\ r[4] = w
        BY <4>1
      <4>. QED
        BY <3>6, <4>1, <4>2
    <3>10. Filling(w)' /\ Unsettled(w)'
      BY <1>a, <2>0, <3>2, <3>3, <3>7, <3>8, <3>9 DEF Filling, Unsettled, After
    <3>11. ASSUME NEW i \in Ids, jobs[i].board = b, b \notin crowded'
           PROVE  Embedded(i)'
      <4>1. cleared[b] \in {0, j} /\ jobs[j].status # "done"
        BY <1>a, <2>0, <3>11 DEF After
      <4>2. i # 0
        BY LenProperties DEF EmbeddedInv, TypeOK, Ids
      <4>. QED
        BY <2>0, <3>8, <3>11, <4>1, <4>2 DEF Embedded
    <3>12. \A r \in Row : r[1] = b \/ rag'[r] = rag[r]
      BY <3>6
    <3>. QED
      BY <1>d, <1>f, <1>s, <2>0, <3>10, <3>11, <3>12, WorkerGoesOn
  <2>. QED
    BY <1>5, <2>1, <2>2 DEF EmbedBatch
<1>6. CASE SaveBoardToCollection(w)
  <2>0. run[w].pc = "save" /\ UNCHANGED <<jobs, rag>>
    BY <1>6 DEF SaveBoardToCollection, At
  <2>1. CASE Goto(w, "fail")
    <3>1. run'[w].pc = "fail" /\ run'[w].job = j
      BY <1>0, <2>1 DEF Goto, Run
    <3>. QED
      BY <1>a, <1>h, <1>q, <1>s, <2>0, <3>1
  <2>2. CASE parquet' = parquet \cup {<<b, jobs[j].assistant, run[w].total>>}
             /\ Goto(w, "finish")
    <3>1. run'[w].pc = "finish" /\ run'[w].job = j /\ run'[w].total = run[w].total
      BY <1>0, <2>2 DEF Goto, Run
    <3>2. Stored(w) = run[w].total /\ Stored(w)' = run[w].total
      BY <2>0, <3>1 DEF Stored
    <3>3. MyBoard(w)' = b /\ MyAssistant(w)' = jobs[j].assistant /\ cleared'[b] = cleared[b]
      BY <1>c, <2>0, <3>1 DEF MyBoard, MyAssistant
    <3>4. ASSUME NEW a, NEW n, Filled(b, a, w, n)
          PROVE  Filled(b, a, w, n)'
      BY <2>0, <3>4 DEF Filled
    <3>5. Filling(w)' /\ Unsettled(w)'
      BY <1>a, <2>0, <2>2, <3>1, <3>2, <3>3, <3>4 DEF Filling, Unsettled, After
    <3>. QED
      BY <1>q, <2>0, <3>5
  <2>. QED
    BY <1>6, <2>1, <2>2 DEF SaveBoardToCollection
<1>7. CASE MarkJobCompleted(w)
  <2>0. run[w].pc = "finish" /\ UNCHANGED rag /\ Return(w)
    BY <1>7 DEF MarkJobCompleted, At
  <2>1. ASSUME cleared[b] = j, b \notin crowded'
        PROVE  \E k \in 0 .. MaxBatch : FilledBy(j, k, w)
    <3>1. FilledBy(j, run[w].total, w)
      BY <1>a, <2>0, <2>1 DEF FilledBy, After, Stored
    <3>. QED
      BY <1>0, <3>1
  <2>. QED
    BY <1>7, <1>g, <1>r, <1>w, <2>0, <2>1 DEF MarkJobCompleted, Status
<1>8. CASE MarkJobFailedRead(w)
  <2>0. run[w].pc = "fail" /\ UNCHANGED <<jobs, rag>>
    BY <1>8 DEF MarkJobFailedRead, At
  <2>1. CASE run' = [run EXCEPT ![w] = [@ EXCEPT !.pc = "failWrite", !.retry = jobs[j].retry]]
    <3>1. run'[w].pc = "failWrite" /\ run'[w].job = j
      BY <1>0, <2>1 DEF Run
    <3>. QED
      BY <1>a, <1>h, <1>q, <1>s, <2>0, <3>1
  <2>. QED
    BY <1>8, <1>g, <1>q, <2>0, <2>1 DEF MarkJobFailedRead
<1>9. CASE MarkJobFailedWrite(w)
  <2>0. run[w].pc = "failWrite" /\ UNCHANGED rag /\ Return(w)
    BY <1>9 DEF MarkJobFailedWrite, At
  <2>1. PICK n \in Nat, status \in {"pending", "error"} :
          jobs' = Update(j, status, n) \/ MaybeUpdate(j, status, n)
    BY <1>9, <1>r DEF MarkJobFailedWrite
  <2>. QED
    BY <1>g, <1>w, <2>0, <2>1 DEF Status
<1>10. CASE Crash(w)
  <2>1. run'[w].pc = "down" /\ UNCHANGED <<jobs, rag>>
    BY <1>0, <1>10 DEF Crash, FreshRun
  <2>. QED
    BY <1>g, <1>q, <2>1
<1>. QED
  BY <1>1, <1>2, <1>3, <1>4, <1>5, <1>6, <1>7, <1>8, <1>9, <1>10 DEF WorkerStep

\* The caller inserts a job, or moves on.
LEMMA CallerEmbedded ==
  ASSUME EmbeddedInv, Record, TypeOK', NEW c \in Caller, CallerStep(c) \/ AbortCaller(c)
  PROVE  EmbeddedInv'
<1>0. jobs \in Seq(Job)
  BY DEF EmbeddedInv, TypeOK
<1>1. UNCHANGED <<rag, parquet, run, dboard>>
  BY DEF CallerStep, SaveAssistant, MarkBoardAsEmbed, CheckExisting, CreateJob, ReturnJobIds,
     AbortCaller
<1>2. /\ \A i \in Ids : i \in Ids' /\ jobs'[i] = jobs[i]
      /\ \A i \in Ids' \ Ids : jobs'[i].status = "pending"
  <2>1. CASE UNCHANGED jobs
    BY <2>1 DEF Ids
  <2>2. CASE CreateJob(c) /\ jobs' = Append(jobs, NewJob(call[c].board, call[c].assistant))
    <3>1. call[c].board \in Board /\ call[c].assistant \in Assistant
      BY <2>2 DEF CreateJob, EmbeddedInv, TypeOK
    <3>2. \A i \in Ids' \ Ids : jobs'[i] = NewJob(call[c].board, call[c].assistant)
      BY <1>0, <2>2, <3>1, AppendType DEF Ids
    <3>. QED
      BY <1>0, <2>2, <3>1, <3>2, AppendType DEF Ids, NewJob
  <2>. QED
    BY <2>1, <2>2 DEF CallerStep, SaveAssistant, MarkBoardAsEmbed, CheckExisting, CreateJob,
       ReturnJobIds, AbortCaller
<1>3. crowded \subseteq crowded' /\ Crowd' \subseteq crowded'
  BY DEF Record
<1>4. cleared' = cleared
  <2>1. \A b \in Board : ~ RequestClears(b)
    BY <1>1, ConstantsAssumption DEF RequestClears
  <2>2. \A b \in Board, w \in Worker : ~ RunClears(w, b)
    BY <1>1 DEF RunClears
  <2>3. \A b \in Board : cleared'[b] = cleared[b]
    BY <2>1, <2>2 DEF Record, Clearing
  <2>4. cleared' = [b \in Board |-> cleared'[b]]
    BY DEF Record, Clearing
  <2>. QED
    BY <2>3, <2>4 DEF EmbeddedInv
<1>5. \A i \in Ids : SameJob(i) /\ jobs'[i].status = jobs[i].status
  BY <1>2 DEF SameJob, Live
<1>6. /\ \A v \in Worker : Filling(v)' /\ Unsettled(v)'
      /\ \A j \in Ids : Embedded(j)'
  <2> DEFINE B == {}
  <2>1. \A r \in Row : r[1] \notin B => rag'[r] = rag[r]
    BY <1>1
  <2>2. \A b \in Board \ B : cleared'[b] = cleared[b]
    BY <1>4
  <2>3. \A i \in Ids : SameJob(i) /\ (jobs[i].board \notin B => jobs'[i].status = jobs[i].status)
    BY <1>5
  <2>4. /\ \A v \in Worker : (Working(v) => MyBoard(v) \notin B) => Filling(v)' /\ Unsettled(v)'
        /\ \A j \in Ids : jobs[j].board \notin B => Embedded(j)'
    <3> HIDE DEF B
    <3>. QED
      BY <1>1, <1>3, <2>1, <2>2, <2>3, AwayFrom
  <2>. QED
    BY <2>4
<1>7. \A j \in Ids' \ Ids : Embedded(j)'
  BY <1>2 DEF Embedded
<1>. QED
  BY <1>3, <1>4, <1>6, <1>7 DEF EmbeddedInv

\* A request deletes the rows of a board, then its jobs.
LEMMA DeleterEmbedded ==
  ASSUME EmbeddedInv, Record, TypeOK', NEW d \in Deleter, DeleterStep(d) \/ AbortDeleter(d)
  PROVE  EmbeddedInv'
<1>0. jobs \in Seq(Job) /\ dboard \in [Deleter -> Board \cup {NoBoard}]
  BY DEF EmbeddedInv, TypeOK
<1>1. UNCHANGED <<parquet, run>>
  BY DEF DeleterStep, DeleteBoardRows, SoftDeleteJobs, AbortDeleter
<1>3. crowded \subseteq crowded' /\ Crowd' \subseteq crowded'
  BY DEF Record
<1>4. \A b \in Board : cleared'[b] = IF RequestClears(b) THEN 0 ELSE cleared[b]
  <2>1. \A b \in Board, w \in Worker : ~ RunClears(w, b)
    BY <1>1 DEF RunClears
  <2>. QED
    BY <2>1 DEF Record, Clearing
<1>5. cleared' \in [Board -> Nat]
  <2>1. cleared' = [b \in Board |-> cleared'[b]]
    BY DEF Record, Clearing
  <2>. QED
    BY <1>4, <2>1 DEF EmbeddedInv
<1>6. CASE SoftDeleteJobs(d) \/ AbortDeleter(d)
  <2>1. \A b \in Board : cleared'[b] = cleared[b]
    BY <1>0, <1>4, <1>6, ConstantsAssumption DEF RequestClears, SoftDeleteJobs, AbortDeleter
  <2>2. Ids' = Ids /\ \A i \in Ids : JobStep(i) /\ jobs'[i].status = jobs[i].status
    <3>1. CASE UNCHANGED jobs
      BY <3>1 DEF Ids, JobStep
    <3>2. CASE jobs' = SoftDelete(dboard[d])
      BY <1>0, <3>2, SoftDeleteStep, SoftDeleteType DEF Ids
    <3>. QED
      BY <1>6, <3>1, <3>2 DEF SoftDeleteJobs, AbortDeleter
  <2>3. \A i \in Ids : SameJob(i)
    BY <2>2 DEF JobStep, SameJob, Live
  <2>4. UNCHANGED rag
    BY <1>6 DEF SoftDeleteJobs, AbortDeleter
  <2>5. /\ \A v \in Worker : Filling(v)' /\ Unsettled(v)'
        /\ \A j \in Ids : Embedded(j)'
    <3> DEFINE B == {}
    <3>1. \A r \in Row : r[1] \notin B => rag'[r] = rag[r]
      BY <2>4
    <3>2. \A b \in Board \ B : cleared'[b] = cleared[b]
      BY <2>1
    <3>3. \A i \in Ids : SameJob(i) /\ (jobs[i].board \notin B => jobs'[i].status = jobs[i].status)
      BY <2>2, <2>3
    <3>4. /\ \A v \in Worker : (Working(v) => MyBoard(v) \notin B) => Filling(v)' /\ Unsettled(v)'
          /\ \A j \in Ids : jobs[j].board \notin B => Embedded(j)'
      <4> HIDE DEF B
      <4>. QED
        BY <1>1, <1>3, <3>1, <3>2, <3>3, AwayFrom
    <3>. QED
      BY <3>4
  <2>. QED
    BY <1>3, <1>5, <2>2, <2>5 DEF EmbeddedInv
<1>7. ASSUME NEW b \in Board, DeleteBoardRows(d, b)
      PROVE  EmbeddedInv'
  <2>0. UNCHANGED jobs /\ Ids' = Ids
    BY <1>7 DEF DeleteBoardRows, Ids
  <2>1. cleared'[b] = 0 /\ \A c \in Board \ {b} : cleared'[c] = cleared[c]
    <3>1. RequestClears(b) /\ \A c \in Board \ {b} : ~ RequestClears(c)
      BY <1>0, <1>7, ConstantsAssumption DEF DeleteBoardRows, RequestClears
    <3>. QED
      BY <1>4, <3>1
  <2>2. \A i \in Ids : SameJob(i) /\ jobs'[i].status = jobs[i].status
    BY <2>0 DEF SameJob, Live
  <2>3. \A i \in Ids : i # 0
    BY LenProperties DEF EmbeddedInv, TypeOK, Ids
  <2>4. /\ \A v \in Worker : (Working(v) => MyBoard(v) # b) => Filling(v)' /\ Unsettled(v)'
        /\ \A j \in Ids : jobs[j].board # b => Embedded(j)'
    <3> DEFINE B == {b}
    <3>1. \A r \in Row : r[1] \notin B => rag'[r] = rag[r]
      BY <1>7 DEF DeleteBoardRows, RowsCleared
    <3>2. \A c \in Board \ B : cleared'[c] = cleared[c]
      BY <2>1
    <3>3. \A i \in Ids : SameJob(i) /\ (jobs[i].board \notin B => jobs'[i].status = jobs[i].status)
      BY <2>2
    <3>4. /\ \A v \in Worker : (Working(v) => MyBoard(v) \notin B) => Filling(v)' /\ Unsettled(v)'
          /\ \A j \in Ids : jobs[j].board \notin B => Embedded(j)'
      <4> HIDE DEF B
      <4>. QED
        BY <1>1, <1>3, <3>1, <3>2, <3>3, AwayFrom
    <3>. QED
      BY <3>4
  <2>5. ASSUME NEW v \in Worker, Working(v), MyBoard(v) = b
        PROVE  Filling(v)' /\ Unsettled(v)'
    <3>1. run[v].job \in Ids /\ run'[v] = run[v] /\ MyBoard(v)' = b
      BY <1>1, <2>0, <2>5 DEF EmbeddedInv, TypeOK, Working, MyBoard
    <3>2. MyAssistant(v)' = MyAssistant(v) /\ run[v].job # 0
      BY <1>1, <2>0, <2>3, <3>1 DEF MyAssistant
    <3>3. Filling(v) /\ Unsettled(v)
      BY DEF EmbeddedInv
    <3>4. Unsettled(v)'
      BY <1>3, <2>0, <2>5, <3>1, <3>3 DEF Unsettled, Working
    <3>5. Filling(v)'
      BY <1>1, <1>3, <2>1, <2>5, <3>1, <3>2, <3>3 DEF Filling, After
    <3>. QED
      BY <3>4, <3>5
  <2>6. ASSUME NEW j \in Ids, jobs[j].board = b
        PROVE  Embedded(j)'
    BY <2>0, <2>1, <2>3, <2>6 DEF Embedded
  <2>. QED
    BY <1>3, <1>5, <2>0, <2>4, <2>5, <2>6 DEF EmbeddedInv
<1>. QED
  BY <1>6, <1>7 DEF DeleterStep

LEMMA WorkerEmbedded ==
  ASSUME EmbeddedInv, Record, TypeOK', NEW w \in Worker,
         WorkerStep(w) \/ Crash(w) \/ Restart(w),
         DbType = "postgresql" \/ ~ StoreMayFail
  PROVE  EmbeddedInv'
<1>0. jobs \in Seq(Job) /\ (\A i \in Ids : jobs[i] \in Job) /\ run \in [Worker -> Run]
  BY ElementOfSeq, LenProperties DEF EmbeddedInv, TypeOK, Ids
<1>1. CASE Working(w)
  <2>1. PICK j \in Ids : j = run[w].job
    BY <1>1 DEF Working, EmbeddedInv, TypeOK
  <2>2. PICK b \in Board : b = jobs[j].board
    BY <1>0 DEF Job
  <2>. QED
    BY <1>1, <2>1, <2>2, RunStep
<1>2. CASE ~ Working(w)
  <2>1. GetPendingJob(w) \/ Crash(w) \/ Restart(w)
    BY <1>2 DEF Working, WorkerStep, MarkJobStarted, DeleteExistingRows, ExportBoard, EmbedBatch,
       SaveBoardToCollection, MarkJobCompleted, MarkJobFailedRead, MarkJobFailedWrite, At
  <2>2. /\ UNCHANGED <<jobs, rag, parquet, dboard>>
        /\ \A v \in Worker : v # w => run'[v] = run[v]
    BY <1>0, <2>1 DEF GetPendingJob, Crash, Restart, Return
  <2>3. Filling(w)' /\ Unsettled(w)'
    <3>1. CASE GetPendingJob(w)
      <4>1. PICK i \in Ids : Pending(i) /\ run' = [run EXCEPT ![w] = FreshRun("start", i)]
        BY <3>1 DEF GetPendingJob
      <4>2. run'[w].pc = "start" /\ run'[w].job = i
        BY <1>0, <4>1 DEF FreshRun
      <4>3. jobs'[i].status = "pending"
        BY <2>2, <4>1 DEF Pending
      <4>. QED
        BY <4>2, <4>3 DEF Filling, Unsettled, After
    <3>2. CASE Crash(w) \/ Restart(w)
      <4>1. run'[w].pc \in {"poll", "down"}
        BY <1>0, <3>2 DEF Crash, Restart, Return, NoRun, FreshRun
      <4>. QED
        BY <4>1 DEF Filling, Unsettled, After, Working
    <3>. QED
      BY <2>1, <3>1, <3>2
  <2>4. \A c \in Board : cleared'[c] = cleared[c]
    BY <1>2, <2>2, WorkerClears DEF RunClears, AtBoard, Holds, Working
  <2>5. Ids' = Ids /\ \A i \in Ids : SameJob(i) /\ jobs'[i].status = jobs[i].status
    BY <2>2 DEF Ids, SameJob, Live
  <2>6. CASE Board = {}
    <3>1. Ids = {}
      BY <1>0, <2>6 DEF Job
    <3>2. crowded \subseteq crowded' /\ Crowd' \subseteq crowded' /\ cleared' \in [Board -> Nat]
      BY <2>6 DEF Record, Clearing
    <3>3. \A v \in Worker : Filling(v)' /\ Unsettled(v)'
      <4>1. \A v \in Worker : ~ Working(v)'
        BY <2>5, <3>1 DEF TypeOK, Working
      <4>. QED
        BY <4>1 DEF Filling, Unsettled, After, Working
    <3>. QED
      BY <2>5, <3>1, <3>2, <3>3 DEF EmbeddedInv
  <2>7. ASSUME NEW b \in Board
        PROVE  EmbeddedInv'
    BY <1>2, <2>2, <2>3, <2>4, <2>5, OneWorkerMoves
  <2>. QED
    BY <2>6, <2>7
<1>. QED
  BY <1>1, <1>2

LEMMA NextEmbedded ==
  ASSUME EmbeddedInv, TypeOK', [Next /\ Record]_<<vars, history>>,
         DbType = "postgresql" \/ ~ StoreMayFail
  PROVE  EmbeddedInv'
<1>1. CASE UNCHANGED <<vars, history>>
  <2>1. Ids' = Ids /\ Crowd' = Crowd
    BY <1>1 DEF vars, Ids, Crowd, AtBoard, Holds
  <2>2. \A w \in Worker : Filling(w)' /\ Unsettled(w)'
    BY <1>1 DEF vars, history, EmbeddedInv, Filling, Unsettled, Filled, After, Working, MyBoard,
       MyAssistant, Stored
  <2>3. \A j \in Ids : Embedded(j)'
    BY <1>1 DEF vars, history, EmbeddedInv, Embedded, FilledBy, Filled, Live
  <2>. QED
    BY <1>1, <2>1, <2>2, <2>3 DEF vars, history, EmbeddedInv
<1>2. CASE Next /\ Record
  BY <1>2, CallerEmbedded, DeleterEmbedded, WorkerEmbedded DEF Next
<1>. QED
  BY <1>1, <1>2

LEMMA InitEmbedded == InitW => EmbeddedInv
<1> SUFFICES ASSUME InitW
             PROVE  EmbeddedInv
  OBVIOUS
<1>1. NoRun.pc = "poll"
  BY DEF NoRun, FreshRun
<1>2. \A w \in Worker : run[w].pc = "poll"
  BY <1>1 DEF InitW, Init
<1>3. Ids = {}
  BY EmptySeq DEF InitW, Init, Ids
<1>4. TypeOK
  BY InitTypeOK DEF InitW
<1>5. Crowd = {} /\ \A w \in Worker : Filling(w) /\ Unsettled(w)
  BY <1>2 DEF Crowd, AtBoard, Holds, Filling, Unsettled, After, Working
<1>6. cleared \in [Board -> Nat]
  BY DEF InitW
<1>. QED
  BY <1>3, <1>4, <1>5, <1>6 DEF EmbeddedInv

\* What is filled is complete, and has nothing of another assistant.
LEMMA FilledIsComplete ==
  ASSUME NEW b \in Board, NEW a \in Assistant, NEW w \in Worker, NEW n \in 0 .. MaxBatch,
         Filled(b, a, w, n)
  PROVE  Complete(b, a, n) /\ \A r \in Row : r[1] = b /\ rag[r] > 0 => r[2] = a
<1>1. ASSUME NEW k \in Batch, NEW v \in Worker
      PROVE  rag[<<b, a, k, v>>] = IF k <= n /\ v = w THEN 1 ELSE 0
  <2>1. <<b, a, k, v>> \in Row
    BY DEF Row
  <2>. QED
    BY <2>1 DEF Filled
<1>2. Complete(b, a, n)
  BY <1>1 DEF Complete
<1>3. \A r \in Row : r[1] = b /\ rag[r] > 0 => r[2] = a
  BY DEF Filled
<1>. QED
  BY <1>2, <1>3

\* Whatever the number of workers, requests, boards, assistants and jobs: the rows
\* that the run of a job that is done has left are the whole of its board, each
\* once, until another run or a request deletes them; unless two workers were at
\* the board at once. With PostgreSQL, or a store whose deletions do not fail.
THEOREM DoneJobsAreEmbedded ==
  ASSUME DbType = "postgresql" \/ ~ StoreMayFail
  PROVE  SpecW => []DoneIsEmbedded
<1>1. EmbeddedInv /\ TypeOK' /\ [Next /\ Record]_<<vars, history>> => EmbeddedInv'
  BY NextEmbedded
<1>2. EmbeddedInv => DoneIsEmbedded
  <2> SUFFICES ASSUME EmbeddedInv, NEW j \in Ids, NEW b, b = jobs[j].board,
                      NEW a, a = jobs[j].assistant,
                      jobs[j].status = "done", Live(j), cleared[b] = j, b \notin crowded
               PROVE  /\ \E n \in 0 .. MaxBatch : <<b, a, n>> \in parquet /\ Complete(b, a, n)
                      /\ \A r \in Row : r[1] = b /\ rag[r] > 0 => r[2] = a
    BY DEF DoneIsEmbedded
  <2>1. jobs[j] \in Job
    BY ElementOfSeq, LenProperties DEF EmbeddedInv, TypeOK, Ids
  <2>2. b \in Board /\ a \in Assistant
    BY <2>1 DEF Job
  <2>3. PICK n \in 0 .. MaxBatch, w \in Worker : FilledBy(j, n, w)
    BY DEF EmbeddedInv, Embedded
  <2>4. <<b, a, n>> \in parquet /\ Filled(b, a, w, n)
    BY <2>3 DEF FilledBy
  <2>. QED
    BY <2>2, <2>4, FilledIsComplete
<1>. QED
  BY <1>1, <1>2, InitEmbedded, WorkersTypeOK, PTL DEF SpecW

=============================================================================
