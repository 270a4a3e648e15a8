# A TLA+ verification project for the chat-ai backend

The repository is a FastAPI backend (`src/backend/open_webui`, a fork of Open WebUI with an
AI-agent layer). Chats, folders, tags, knowledge bases and files live in an SQL database;
assistants, embedding jobs, parquet records and checkpoints in a document store (MongoDB or
PostgreSQL); embedded texts in a `rag` table; presence in dictionaries that may be Redis
hashes. A server process (there may be several, `UVICORN_WORKERS`) runs one event loop, a
thread pool for handlers declared with `def`, and background tasks.

Every definition of the modules is translated from the source; `PROJECT.json` says for each
one which lines. Paths below are relative to `src/backend/open_webui/`.

## 1. Inventory

| Component | State | Operations | Interacts through | What is hard, and what makes it correct |
|---|---|---|---|---|
| Board embedding jobs: `utils/board_embedding_job.py`, `models/ai_agents/board_embedding_job.py` | job collection, rows of `rag`, parquet records, the board's `is_embed` flag | create, poll, start, complete, fail, soft delete; delete, export, embed, save per run | saving an assistant, deleting a board, one worker per process | no atomic claim, check-then-insert, a crash in progress, retries, deletion under a run. A job's retries match its status; what is done is embedded once; what is deleted stays so; pending jobs settle |
| Chat sharing: `models/chats.py`, `routers/chats.py` | chat rows with `share_id`, copies of user `shared-<chat>` | share, refresh, unshare, three kinds of deletion, edits | deletion of folders, readers of links | two or three commits per operation, several processes, a deletion that looks for no owner. A link serves its chat only, a dead link stays dead, an unshare leaves nothing |
| Folders: `models/folders.py`, `routers/folders.py` | folder tree, `folder_id` of chats | create, rename, move, recursive delete | chats | look-then-write, look-ups whose failure reads as no answer, places that nobody checks, cycles, a deletion that stops half way. Siblings have different names; a deletion leaves nothing below a row that is gone |
| Models in use: `socket/main.py`, `socket/utils.py` | USAGE_POOL, the cleanup lock in Redis | usage event, periodic clean-up, acquire, renew, release | Redis, shutdown of processes | expiry of the lock, read-modify-write over Redis, calls that raise. One cleaner at a time; what is in use is listed, what expired is not |
| Chat completion task: `utils/middleware.py`, `tasks.py` | message content, `tasks`, `chat_tasks`, requests to stop | stream, tools, code, save, tell, background, cancel, stop, done callback | chats, event emitters, models, tools | a cancellation at any await, saves that fail unnoticed, exceptions nobody catches, whole-chat writes, loops driven by a model. What ended is saved, done means saved, a stop finds and ends its task |
| Knowledge bases and files: `routers/knowledge.py`, `routers/files.py`, `routers/retrieval.py` | knowledge rows with `file_ids`, file rows, vector collections | upload, edit, process, extract, add, update, remove, batch, reindex, list, forms, delete, reset, wipe | thread pool, vector database | three stores, read-modify-write of `file_ids`, ignored errors. The list, the rows and the vectors should agree |
| Chat tags: `models/tags.py`, `models/chats.py` | tag rows, `meta.tags` of chats | add, remove, replace, clear, delete with the chat | deletion and archiving of chats, title generation | rows dropped by counting, imported tags that are not spelt as their ids. A tag that a chat carries has a row |
| Sessions and users: `socket/main.py` | SESSION_POOL, USER_POOL, rooms | connect, user-join, join-channels, disconnect | Redis, event emitters | several Redis calls per event, double joins, processes that die. A user is online exactly while a session is |
| Agent answers and chat history: `llm/agent.py`, `llm/utils/pg_adapters.py` | messages and counters of a request, rows of `history` | load, ask the model, run tools, limits, answer, reset; append, clear, read | models, tool servers, workflows, other requests of the thread | a loop driven by a model, tasks nobody awaits, a lock per instance. A request ends; each call has its result; the history is the conversation, in order |
| Accounts, groups, API keys | user, auth and group rows | sign-up, update, delete | everything | the first account is the admin; two tables |
| Agent graph, rest of the middleware, routers of resources, document store clients, document and OCR pipelines, RAG ingestion and search, vector databases, model endpoints, storage, OAuth, audit, telemetry, configuration, migrations | | | | listed in `PROJECT.json` with the reason each is not modelled |

How they interact: handlers of one process that do not await are atomic against each other;
handlers in the thread pool, background tasks between awaits, and all that several processes
do interleave. SQL transactions are short (`with get_db()`), one per model function, so an
operation of a router is a sequence of commits. Redis dictionaries are one call per access.

## 2. Modules

| Module | What it is |
|---|---|
| `BoardEmbeddingJob` | the job queue, its workers, the requests that create and delete jobs |
| `BoardEmbeddingWorkers` | the same with a history of the jobs that two workers have had in hand, of the boards at which two have been, and of whose run has last cleared each board |
| `BoardEmbeddingJobProofs` | the theorems of both |
| `ChatSharing` | sharing of chats, one transaction per step |
| `SharedLinks` | abstract specification: the life of a shared link |
| `SharingRepair` | `ChatSharing` with a history of the chats that a fault or an overlap has left in disorder |
| `ChatSharingProofs` | invariants of `ChatSharing`, the refinement, and what `SharingRepair` promises |
| `ChatFolders`, `ChatFoldersProofs` | the folder tree |
| `UsageCleanup`, `UsageCleanupProofs` | the usage pool, its cleaner and the Redis lock, with time |
| `UsageOverlaps` | `UsageCleanup` with a history of the models whose entry overlapping writes have put in doubt |
| `ChatCompletion`, `ChatCompletionProofs` | the task that answers a message, and the registry of tasks |
| `KnowledgeFiles`, `KnowledgeFilesProofs` | files, knowledge bases and their vector collections, one call of a store per step |
| `KnowledgeSearch` | `KnowledgeFiles` with a history of what faults and overlaps have put in doubt; what a search finds |
| `AgentAnswer` | the loop that answers a question put to the agent, and the tasks that save it |
| `ThreadMemory`, `ThreadMemoryProofs` | `AgentAnswer` with the conversation that should be remembered |
| `ChatTags` | tags of chats and tag rows, one call of the database per step |
| `TagRows` | `ChatTags` with a history of the tags that a fault, an overlap or a miscount has left wrong |
| `ChatTagsProofs` | the theorems of both |
| `MC...` | the sets, functions and symmetries of the runs |

Several components promise something only while nothing fails and nobody gets in between. The
module that states such a promise extends the component by history variables, which say what
was hit and since when, and until which undisturbed request the damage lasts. They are written
from what happens in the behaviour, restrict no step, and the component is left as it is: its
failures, crashes and overlaps are all taken.

Definitions whose name contains an underscore and a second word (`Unexpired_Strict`) are
mutants: plausible bugs of the definition they are named after. No behaviour uses them; they
are put in the place of the original, one at a time, to see that a property notices.

### BoardEmbeddingJob

One action per awaited call. `jobs` is the collection in the order of `created_at`, `rag`
counts copies per board, assistant, batch and writing process, `run` is a worker's place in
`process_pending_board_embedding_job`, `call` a request's in
`create_board_embedding_jobs_for_assistant`, `dboard` that of `delete_embedding_by_board_id`.
The store is the PostgreSQL or the MongoDB client: the MongoDB one swallows errors and
answers None, whether or not the write took effect. Abstracted: texts and vectors, the 30 s
between polls, the optional limit on jobs, job listing; `ENABLE_BOARD_EMBEDDING` is on.
In `BoardEmbeddingWorkers`, `shared` holds the jobs that two workers have had in hand at once,
`crowded` the boards of which two workers have had jobs in hand at once, and `cleared` the job
whose run was the last to delete a board's rows.

### ChatSharing, SharedLinks and SharingRepair

One action per transaction. A chat row has its `share_id` and a version number for its
content; `copies` are the rows of the users `shared-<chat>`; `proc` is the handler each
process runs, with its local variables and its answer. `SharedLinks` says what a reader of a
link can rely on: unused, live (of one chat, in a version the chat has had), dead; and
`LinksSpec` is that specification under the mapping "live if a chat has the id and a copy has
the id, dead if issued and not live, unused while it is in the hand of a handler".
`DELETE /chats/{id}` looks for no owner: asked for by another user it deletes no row, and the
copies all the same (`own` is FALSE); it cannot take the row, so the chat keeps a link without a copy.
In `SharingRepair` a handler is `touched` when another one changes the chat or the copies it
works on, and a chat is `broken` by a handler that failed, died or was touched, or by such a
deletion of a linked chat, until an unshare that was answered True.

### ChatFolders

A request looks up names in one step and writes in the next, as the handlers do; a look-up that
fails is answered None by the code, so the write goes ahead (`blind`). A folder or chat is put
(filed, moved, imported) into any place a client may know (`Known`), one that is gone included,
since no handler looks for it. The recursive deletion is an explicit stack of activations of `delete_children`, one commit per
row. `ILike` is the comparison of the database, a parameter (any relation with
`ILike(n, n)`): in the runs it is case-insensitive and has a wildcard, as SQL's is. Loops of
folders can be made, and deleting one ends at the recursion limit. Auxiliary fields record what the properties
except: a folder is `unsure` if its name or place was last written after a look that failed, a
folder or chat is `adrift` if it was put where there was no folder, and a chat is `missed` if the
deletion of the chats of its folder failed, which the code ignores.

### UsageCleanup

One action per Redis call, and `Tick` for a second. Any call may raise (`MayRaise`), carried out or
not; in the cleaner the `finally` then releases the lock and the coroutine is over, although its
process runs on (`raised`). Between two awaits a process does not run
another coroutine (`Occupied`). `Overdue` bounds how long a process can be held up between two
renewals: `MaxPause`, a parameter. `reported` is a history of the reports stored, and
`overlapped`, in `UsageOverlaps`, of the models whose entry one process wrote while another was
about to, until the entry is again what the reports say.

### ChatCompletion

A step ends where the coroutine awaits, or between the read and the write of a save, where
only another process can come in between (`Free`). `task` holds the local variables of
`post_response_handler`; content is the number of its parts, `saved` what the database has of
it. `update_chat_by_id` swallows every exception, so a save may leave all as it was and the task goes
on (`SaveFails`; `failed` tells that the last save of the content did); and whatever else the task
calls may raise, outside of what the code catches, and ends it (`Raises`, outcome "raised"). `tasks` and `chat_tasks` are the dictionaries of `tasks.py`. A stop sets `cancel`, which
is delivered where the task awaits; what is cancelled while it handles a cancellation ends.
asyncio (delivery of cancellations, done callbacks before waiters) is modelled from how the
code uses it. Left out: filters and retrieval before the answer, answers without a session,
the text of messages and the tags they generate, the death of a process.

### KnowledgeFiles and KnowledgeSearch

`file` and `pages` are a file's row and its own collection, `kb` and `vectors` a knowledge
base's row, with `file_ids`, and its collection; `job` is the handler each thread of the pool
(`def`) and the event loop (`async def`) runs, with its local variables. Handlers of the event
loop do not await, so it runs one at a time, but threads come in between any two calls of a
store.

`process_file` is there with its three branches, in the order of its calls: a text that is given
(the file's collection is dropped, then text and embedding follow), the text of the row or of the
file's collection, for a knowledge base, and the extraction, which an edit with an empty text
takes too, and which drops nothing; then the storing of the text, the check of the hash and the
insertion. It is called by uploads and edits, by add, update and reindex, and as a route of its
own with any text and collection. `process_files_batch` is called by the batch addition and as a
route: it stores the texts one by one, leaves out files that have none or a table, embeds the rest at once, and
where that fails builds a result without its required status, so that the answer is an error and
the list is not written; after a successful embedding it is. A tabular upload stores the records
of the table as the content of its row; its text, `Table`, is no text that `process_file` can embed.
Additions, updates and removals do not ask whether the knowledge base lists the file; a form
(`CreateKb`, `UpdateKb`) writes any list; `reset/db` drops all collections and then all knowledge
bases. A failing embedding or store is taken where the code catches it and goes on (Chroma's client
logs a failed deletion) and where it raises. Chunks are abstracted to one vector per file and text;
ids are not used twice.

Left out: what a loader extracts (any text), access, the references of models to knowledge bases,
collections of web pages and bare texts, the routes that write such texts into a collection whose
name the client gives (`process_text`, `process_web`, `process_youtube`; the id of a knowledge base
is possible there), `BYPASS_EMBEDDING_AND_RETRIEVAL`, and `POST /retrieval/delete`, which passes
Chroma's client an argument it does not take and so deletes nothing.

`KnowledgeSearch` keeps the handlers that were disturbed, and for each pair of a knowledge base
and a file whether list and collection may disagree (`doubt`) and whether the collection may
have another text (`stale`), and the files whose row and own collection may have different texts
(`unsure`); a request that rebuilds the pair and ends undisturbed clears it. A pair is put in doubt by
what the code does not follow up: a handler that failed or was disturbed, the deletion of a file,
a form that changes the list, an embedding of a file the knowledge base does not list, a batch
that lists a file without a text. A text that changes makes its pairs stale.

### AgentAnswer and ThreadMemory

`req` is a request's place in `_process_streaming_response_v2`, `_v4` (Bedrock) or
`_process_non_streaming_response`, with the messages so far, the calls that are left and the
counts of runs; its variant and whether it remembers are chosen at the start. A message of the
model is an answer, calls, blank, or an error; a tool is one of a workflow, a server or the user
interface, `reset_memory`, unknown or nameless, and each way through the loop over the calls is
an action, as are the limits of runs and of turns. `tasks` are the clear and the appends that
`PgChatMessageHistory` has been given and nobody awaits, `hand` what the first of them has read
under the lock of its instance, and `rows` the rows of `history` (its `sessionId` is no key, so
there may be two). The end of the client's connection cancels a stream where it waits, and a
stop of the process ends requests and tasks. `ThreadMemory` adds the conversation that should be
found: the questions and answers, in order, of the requests that remember.

### ChatTags and TagRows

`chat` has each chat's row with its tags, `rows` the tags that have a row, `proc` the handler of
each process with the tags it is about to count, drop, find, insert and attach. A count and a
drop are two calls, as are a look for the row and its insertion. An import stores the tags as
they come (`Given`) and looks for, and inserts, the rows of the ids made from them (`Id`): a chat
may carry `My Tag` and have the row `my_tag`. Counts, searches and removals take the id, and do
not find a tag spelt otherwise. `TagRows` remembers the tags that may lack a row (`lost`) or have
one for nothing (`loose`); `Miscounts` is a deletion whose count leaves out the very chat it is about.

## 3. Runs

The deadlock check is on for `usage_pool`, where time goes on; elsewhere it is off, since those
systems may stop (no job, no request).

| Run | Question | Bounds |
|---|---|---|
| `job_queue_workers` | types; board flagged before a job exists; retry count matches status and settled jobs stay settled, unless two workers had the job; at most one copy per writer; deleted jobs are frozen; with faults and crashes at every call | 2 workers, 1 request, 1 deletion, 1 board, 2 jobs, 2 retries, 1 batch, PostgreSQL |
| `job_queue_live` | the rows that the run of a done job has left are the whole of its board, each once; every pending job settles | 1 worker, 1 board of 2 assistants, 2 batches, 2 jobs, 1 deletion, no crash, a store that answers, 3 retries as in the code |
| `job_queue_orphan_rows` | (violated) a deleted board has no rows | 1 of each |
| `sharing` | a link serves its chat; a dead link stays dead; `LinksSpec`; an unshare or deletion that answered success left no copy; between handlers link and copy match, and a share serves the chat as it is, unless a handler, or another user's deletion, left the chat in disorder | 2 processes, 2 chats, 3 ids, 1 edit, faults and crashes |
| `folders_serial` | sibling names differ unless a look-up failed; no folder below one that is gone and no chat out of sight, unless a request put it there or its deletion failed | 1 request at a time, 3 folders, 1 chat, 3 names, depth 4, stale requests, failing look-ups, faults and crashes |
| `usage_pool` | one cleaner, which goes on as long as no call raises; what is reported is listed and what has expired is gone after a sweep, unless writes overlapped | 2 processes, 2 sessions, 1 model, 6 s, hold-ups within the lock's life, crashes, calls that raise |
| `completion_one_process` | ended is saved and done is saved, unless that save failed; the end is told, unless an exception ended the task; an answered stop's task is over; the registry lists what runs; stops find it | 2 answers of one chat, 1 stop, 1 round of tools and of code, 3 parts, anything may raise, any save may fail |
| `completion_ends` | a stop is answered; a task ends | 1 answer, 2 stops, 2 rounds, 4 parts, anything may raise, any save may fail |
| `completion_two_processes` | (violated) done is saved | 2 processes, one answer each |
| `knowledge_files` | what is listed is searchable, what is searchable is listed and current, except pairs in doubt; texts change by the requests that bring one alone, unless a handler was disturbed | 2 threads and the event loop, 1 knowledge base, a text and a spreadsheet, 2 texts, 3 requests beside creations without data, failing stores |
| `agent_memory` | the history is the conversation, and grows in its order, unless requests overlapped or a task was lost; calls have their results; requests end | 2 requests of one thread, 5 lists of calls with tools of every kind, 2 turns, 1 run per function, 3 stored messages, failures, one stop of the process |
| `chat_tags` | a tag in use has its row, and a row its chat, except where a fault, an overlap or a miscount left it otherwise | 2 processes, 2 chats, 1 tag in 2 spellings, 3 requests from every consistent state |

Why the bounds are enough: each hazard needs two actors, two chats or jobs, and one fault or
stop in between; retries need two rounds to show an off-by-one; a link needs a second and a
third id to be re-shared after it died; a loop of folders needs two and a walk that stops
half way three; a knowledge base needs an upload, and two requests that meet, or an addition and
what comes after it. A run of `chat_tags` starts in any consistent state and takes three requests,
two of them at once, so it shows that requests, however they interleave, lead from consistent states
to consistent ones, up to the tags that are excepted; one spelling beside the id is enough, since all of them
are treated alike. `agent_memory` has two requests; what a third finds after two that
overlapped, perhaps more than `MaxStored` messages, is in the theorem. Versions, seconds, requests and parts of content are capped in guards by
named constants (`MaxVersion`, `MaxTime`, `MaxContent`, `MaxJobs`, `MaxBatch`, `MaxDepth`,
`MaxRequests`, `MaxStops`). Symmetry is used only in runs without liveness. `job_queue_workers` takes states that
differ in the parquet records, `crowded` and `cleared` alone as one (VIEW): no step changes anything
else by them, and no property of the run but `TypeOK` reads them. `HistoryFollows`,
`SearchMatchesList`, `PoolMatchesReports`, `RowsMatchTags`, `NothingOutOfReach` and
`TakenBackLeavesNoCopy` are conjunctions of two or three named properties, each with a mutant.

Fairness. `BoardEmbeddingWorkers!FairSpecW`: the worker's loop is started by the lifespan of every
process and catches all exceptions, so its next step is taken (weak fairness of
`WorkerStep`); requests are not assumed to finish. `ChatCompletion!FairSpec`: the event loop
runs what can run. That streams, tools, code and models come to an answer is no assumption of
the specification but a hypothesis of `EveryTaskEnds` (`WorldAnswers`: connections have
timeouts; strong fairness for the end of a stream because deltas disable it); `StopIsAnswered`
does without it. `ThreadMemory!LiveSpecM`, for `RequestsEnd`: the model answers in some way, tools
come back (both are called with timeouts), and the tasks of the history run, which the event loop
sees to; nothing is assumed of when a request begins, or that it is not cut off.

### What the two violated runs show

* `DeletedBoardHasNoRows`: `delete_embedding_by_board_id` deletes the rows, then the jobs, and
  does not stop a run: the run goes on to store its batches, and nothing deletes them.
* `DoneIsSaved` with two processes: a save reads the whole chat and writes it back, so the
  answer another process saved in between, and announced as done, is lost.

### Known limits of the properties

These were met while modelling; the modules have the behaviour, the properties exclude it by
a bound or a condition, and most are hazards in `PROJECT.json`, with a note.

* Jobs: two concurrent saves of an assistant insert two jobs for one board; two workers that
  fail one job count one failure; a crash leaves a job in progress for good; a run deletes all rows
  of its board, those of another assistant's finished job on the same board included.
* Sharing: a share broken off between its commits leaves a second copy, and a later share may
  refresh the one that is not linked; an unshare broken off leaves a link without a copy; the
  copies of chats deleted with their folder stay; the deletion of a chat by another user takes its
copies and leaves its link, which then serves nothing; two processes sharing one chat: the second
  answers an error.
* Folders: two creations of one name in the thread pool both succeed, as does one whose look for a
  sibling failed; a folder or chat put into a folder that is gone is accepted and shown nowhere; a
  folder moved or filled while it is being deleted by another process ends up below a row that is gone; a loop cannot
  be deleted.
* Usage: a hold-up longer than the lock lives gives two cleaners (`UsageCleanup` has it, the run
  bounds hold-ups below that); a sweep overwrites reports another process stores meanwhile; when
  the cleaner's process goes, or a call of Redis raises in it, nobody takes over: the processes that
  run have tried once, when they started.
* Completion: a save that fails is announced as done all the same, or ends with nothing saved; what
  raises outside of the streams (the result of a tool that is no JSON, an emitter) ends the task
  without a word, as does a first stream that raises, and with what was last saved; a second stop
  while the first is handled loses the content; with realtime saving trailing parts are not saved; a
  stop that reaches another process finds nothing; a stop that worked is answered as failed;
  code without an end tag is run.
* Knowledge: two handlers that overlap on a knowledge base lose an entry of the list and keep the
  vectors; a deleted file, or an emptied list, leaves its vectors; an edited text is not embedded
  again in the knowledge bases; a batch embeds what is there already, and lists files without a
  text; one whose embedding fails answers an error that is about its own answer; an update or
  `process_file` embeds files that are not listed, and a removal deletes a file that the knowledge
  base did not list before it says so; an emptied text is extracted again beside the old vectors; a
  reindex goes on after a failure and answers True. The code takes a file
  for a table by its content type when it is uploaded and by the extension of its name when it is
  added; one on which the two differ is not modelled. The collections that other routes may write into by name are left out
  (see above): after such a call, what a search finds has no file at all.
* Agent: requests of one thread that overlap overwrite each other's history and may insert two
  rows, of which either is read from then on; a stop of the process between the clear and the
  appends loses the conversation; a stream that reaches the limit of turns ends without a word,
  where its log line speaks of returning the last response (`llm/agent.py:4497`); a stream skips
  a nameless call, and that of Bedrock the calls from an unknown function on, and leaves them
  without a result.
* Tags: the deletion of an archived chat, or by an administrator of another user's, drops the row
  of a tag that one other chat carries, and the tag cannot be put on that chat again; a tag that an
  import brought in another spelling than its id has a row and is found by no search, is not counted,
  and loses its row when another chat's tag is removed.

## 4. Theorems

| Theorem | Property | Assumes | Argument |
|---|---|---|---|
| `TypeCorrect` | `TypeOK` (jobs) | constants | inductive as it stands; lemmas on sequences of jobs, one per kind of step |
| `DeletedJobsFrozen` | `DeletedFrozen` | constants | every step changes at most one job, through `Update` or `SoftDelete`, and both leave deleted jobs alone |
| `OneCopyPerWriter` | `AtMostOneCopyPerWriter` | PostgreSQL, or a store that answers | `RowInv`: while a run embeds, it has stored nothing beyond its batch, because it has cleared its board first |
| `JobsOfFlaggedBoards` | `FlaggedBeforeQueued` | constants | `FlagInv`: a request that looks for a job or creates one has flagged its board, and a flag is never taken back |
| `RetryCountMatches`, `SettledJobsStay` | `RetryMatchesStatus`, `SettledStays` | constants | `RetryInv`: unless two workers hold it, the job in hand is not settled, and the count in hand is the job's |
| `DoneJobsAreEmbedded` | `DoneIsEmbedded` | PostgreSQL, or a store that answers | `EmbeddedInv`: a run that has cleared its board, alone there, has the batches it has been through in the store, each once, and nothing else is there; what is done was filled so, and a step at another board changes none of it. Crashes are allowed |
| `SharingTypeCorrect` | `TypeOK` (sharing) | constants | part of the invariant of the next |
| `LinksServeTheirChat` | `LinkServesItsChat` | constants | an id in a handler's hand is in no other's and in no chat; copies have distinct ids |
| `LinksStayDead` | `DeadLinkStaysDead` | constants | the same invariant: a dead id is in no handler's hand at `link`, and no write brings a copy back |
| `SharingImplementsLinks` | `LinksSpec` | constants | the refinement, step by step: each transaction publishes, refreshes, retires, edits or stutters |
| `LinksMatchCopies`, `SharesServeTheChat`, `TakenBackIsGone` | `LinkMatchesCopy`, `ShareServesCurrent`, `TakenBackLeavesNoCopy` | constants; except chats whose copies another user's deletion has taken | `RepairInv`: two undisturbed handlers are never at one chat; what an undisturbed handler has found, at each of its commits, still holds (`Taken`, and `Given` if the chat was in order); a chat that is not broken and at which nobody works is in order |
| `SiblingsStayDistinct` | `SiblingsDistinct` | one request at a time; except folders written after a look that failed | `LookupHolds`: what the look for a sibling found still holds at the write, or it was blind and the folder is `unsure` from then on |
| `FoldersTypeCorrect` | `TypeOK` (folders) | constants | `TypeInv`: a handler that is to write has a name in hand, and one that deletes a folder of the stack |
| `DeletionsLeaveNothingBehind` | `NothingOutOfReach` | one request at a time; except what a request put where there was no folder | `ReachInv`: below each folder of the stack is only what is left to handle or the next folder of the stack, and no chat but those that were missed, so that a row is deleted when nothing hangs below it |
| `OneCleanerAtATime`, `CleanersGoOn` | `OneCleaner`, `CleanerGoesOn` | hold-up plus sleep shorter than the lock's life | `CleanersGoOn` says that a cleaner's renewals and deletions find what they need, so that it ends only with its process or when a call raises. The lock of a process that cleans has not expired, since it was renewed at `at` and `at` is not long ago |
| `UsageTypeCorrect` | `TypeOK` (usage) | constants | inductive as it stands |
| `PoolHasTheReports` | `PoolMatchesReports` | constants | `PoolInv`: what a process has read of a model's entry is what the pool has, unless writes overlapped, and what a sweep has left had not expired when it began; no assumption on hold-ups is needed |
| `WellTyped` | `TypeOK` (completion) | constants | inductive as it stands |
| `RunningTasksAreListed` | `RunningIsListed` | constants | the registry changes only with `CreateTask`, `CleanupTask` and the end of a stop |
| `AnsweredStopsAreOver` | `AnsweredStopIsOver` | constants | a stop is answered only about a task with an outcome, and outcomes stay |
| `StopsAtHomeFind` | `StopFindsRunning` | a single process | from the two above |
| `EndedTasksAreSaved` | `EndedIsSaved` | requests of a chat reach one process, no realtime saving, no task stopped twice; of tasks that no exception ended, unless the last save failed | the content is saved from the save on, or that save has failed, and only the handler of a cancellation can come in between |
| `AnnouncedMessagesAreSaved` | `DoneIsSaved` | requests of a chat reach one process, no realtime saving; unless the save failed | `AnnouncedInv`: between the save and the announcement nothing is added to the content; `SoleInv`: a save that is under way has read what the database has, since its process saves one message at a time |
| `EndedTasksHaveTold` | `EndIsTold` | no task stopped twice; of tasks that no exception ended | `ToldInv`: whoever is past the announcement, or the handler of the cancellation, has told; one that is being cancelled is not cancelled again |
| `KnowledgeTypeCorrect` | `TypeOK` (knowledge) | constants | `KnowledgeInv`: what a handler has in hand at each point (a text once it inserts, a file to remove, files that were uploaded) |
| `TextsChangedByEdits` | `TextChangedByEdits` | constants | `TextInv`: a handler that nobody has disturbed and that brings no text has the row's text in hand as long as it is to write it back |
| `AgentTypeCorrect` | `TypeOK` (agent) | constants | `AgentInv`: messages, tasks and hands are sequences of messages, a task that has read has a row or is to make one |
| `CallsHaveResults` | `CallsAnswered` | constants | the same invariant: in the loop over the calls of a message, the calls before the one at hand have their results behind the message and the rest are those that are left; earlier messages are complete, or a stream has skipped their calls; what is loaded from the history has no calls |
| `HistoryHasTheConversation` | `HistoryFollows` | constants | `MemoryInv`: requests that are at work together have overlapped; one that has not, and will be remembered, has in hand the conversation and its question; the tasks that are left are of one request, and what they append to what is there, or to nothing if they are to clear it first, completes the conversation. Lemmas: what saving and trimming drop is not spoken, and what is appended extends the conversation |
| `TagsTypeCorrect` | `TypeOK` (tags) | constants | a handler that is to write a tag has a chat and a tag in hand |
| `RowsAreTheTags` | `RowsMatchTags` | finitely many chats | `TagInv`: a tag that no handler has in hand has a row if a chat carries it under its id, and only if one carries it in some spelling, up to `lost` and `loose`; what an undisturbed handler is about to count, drop, find or attach is the only exception (`HandOf`) |

"Constants" are the assumptions the module states about its parameters (ids that are distinct,
bounds that are numbers); the numbers of processes, workers, chats, files and so on are free.

The proofs are checked by TLAPS for every value of the constants that the named assumptions
allow. Every safety property that a passing run checks is stated by a theorem, but `SearchMatchesList`, which is model-checked only. Of induction over
data only what a least counterexample gives is used, for the messages that are saved
(`ConversationOfThose`); the conversation of a history is the messages at its spoken places, not a
fold. The largest inductive invariant, `MemoryInv`, was model-checked first, also with three requests.
`KnowledgeFilesProofs`, a third of the lines of proof because each kind of step of a handler is
taken with each part, takes some six minutes to prove from nothing. Liveness (`PendingSettles`,
`StopIsAnswered`, `EveryTaskEnds`, `RequestsEnd`) is out of the prover's reach, with fairness and
ENABLED, and stays with TLC. No module a theorem reaches declares a RECURSIVE operator.

## 5. Plan

Done: the job queue, sharing with its abstract specification, folders, the usage pool, the
completion task, knowledge bases and files, the agent's answers and history, chat tags. What is
left, in order:

1. Composition: the deletion of a folder (`ChatFolders`) with the links of its chats
   (`ChatSharing`) and their tags (`ChatTags`), whose common variable is the chat rows.
2. `Presence`: session and user pools. A user's list holds the user's sessions, at one process;
   with several, what is still true; a process that dies.
3. `Accounts`: the first account and two-table deletions.

## 6. Not modelled

`PROJECT.json` lists every component and says why one is left out. In short: the graphs of agents
(their states and checkpoints are LangGraph's), document, OCR, vision and tabular pipelines and
RAG ingestion (functions of their input, fanned out under semaphores; their results are data),
model endpoints, web search, storage, OAuth and telemetry (adapters to other systems, without a
state of their own), the tables with one row per call (prompts, memories, feedbacks, models,
tools, functions, assistants and what goes with them), configuration, migrations and scripts.
They make up most of the lines of the repository and little of its state. Presence and accounts
have state and are on the plan above.
