---------------------------- MODULE ChatCompletion ----------------------------
(***************************************************************************)
(* The background task that answers a chat message: it relays the stream   *)
(* of the model, calls tools and runs code for it, saves the answer, tells *)
(* the client and generates a title; and the registry through which users  *)
(* stop it.                                                                *)
(*                                                                         *)
(* A step ends where a coroutine awaits, or between the two database calls *)
(* of a save. A save reads the whole chat and writes it back; it does not  *)
(* await, so only another process can come in between. Of a message the    *)
(* model keeps how many parts its content has.                             *)
(***************************************************************************)
EXTENDS Naturals, FiniteSets

CONSTANTS
  Process,                    \* the server processes
  Task,                       \* answers, each with its message and its task
  Chat, ChatOf,               \* the chats, and the chat of each message
  ProcessOf,                  \* the process that serves each request
  Request,                    \* requests to stop a task
  MAX_TOOL_CALL_RETRIES, MAX_RETRIES,  \* rounds of tool calls and of code
  CodeInterpreter,            \* the code_interpreter feature is on
  ENABLE_REALTIME_CHAT_SAVE,  \* save at every delta and not at the end
  MaxContent                  \* bound: the parts after which models fall silent

ASSUME ConstantsAssumption ==
  /\ ChatOf \in [Task -> Chat] /\ ProcessOf \in [Task -> Process]
  /\ MAX_TOOL_CALL_RETRIES \in Nat /\ MAX_RETRIES \in Nat /\ MaxContent \in Nat
  /\ CodeInterpreter \in BOOLEAN /\ ENABLE_REALTIME_CHAT_SAVE \in BOOLEAN

VARIABLES
  task,        \* per answer: the state of process_chat_response and its task
  saved,       \* per message: the parts of its content in the database
  tasks,       \* per process: the dictionary of running tasks
  chat_tasks,  \* per process and chat: the tasks of the chat
  stop         \* per request to stop: what it asks for and what it was told

vars == <<task, saved, tasks, chat_tasks, stop>>

Awaiting == {"stream", "tool", "model", "code", "done", "background", "cancelled", "after"}
Saving == {"read", "write"}

\* pc: what the task awaits, or the database call of the save it makes, which
\* goes on to next and puts the content, or other fields. view: the chat that
\* the save has read. calls, called: tool_calls and response_tool_calls are not
\* empty. last: the last block, "open" being code whose end tag has not come;
\* fresh: an empty text follows it. failed: the last save of the content failed.
\* told: the last word the client got.
Record == [pc: {"none", "create", "ended", "gone"} \cup Saving \cup Awaiting,
           next: {"none", "create"} \cup Awaiting, put: BOOLEAN,
           view: [Task -> Nat], content: Nat, phase: {"first", "tools", "code"},
           calls: BOOLEAN, called: BOOLEAN, tries: Nat, retries: Nat,
           last: {"text", "tools", "open", "code"}, fresh: BOOLEAN,
           failed: BOOLEAN, cancel: BOOLEAN, told: {"nothing", "done", "cancelled"},
           outcome: {"none", "returned", "cancelled", "raised"}]

Empty == [t \in Task |-> 0]
NotStarted ==
  [pc |-> "none", next |-> "none", put |-> FALSE, view |-> Empty, content |-> 0,
   phase |-> "first", calls |-> FALSE, called |-> FALSE, tries |-> 0, retries |-> 0,
   last |-> "text", fresh |-> TRUE, failed |-> FALSE, cancel |-> FALSE,
   told |-> "nothing", outcome |-> "none"]

Stop == [pc: {"idle"}] \cup
        [pc: {"waiting", "answered"}, task: Task,
         answer: {"none", "stopped", "failed", "error", "not_found"}]

Init ==
  /\ task = [t \in Task |-> NotStarted]
  /\ saved = Empty
  /\ tasks = [p \in Process |-> {}]
  /\ chat_tasks = [p \in Process |-> [c \in Chat |-> {}]]
  /\ stop = [r \in Request |-> [pc |-> "idle"]]

\* No coroutine of p is between two awaits.
Free(p) == \A t \in Task : ProcessOf[t] = p => task[t].pc \notin Saving \cup {"create"}

\* The task runs on from its await, and no cancellation is on its way to it.
Runs(t, pc) == task[t].pc = pc /\ ~task[t].cancel /\ Free(ProcessOf[t])
Running(t) == task[t].pc \in Awaiting \cup Saving /\ task[t].next # "create"

Goes(t, c) == task' = [task EXCEPT ![t] = c] /\ UNCHANGED <<saved, tasks, chat_tasks, stop>>

----------------------------------------------------------------------------
(* Saves: Chats.upsert_message_to_chat_by_id_and_message_id *)

Save(c, next, put) == [c EXCEPT !.pc = "read", !.next = next, !.put = put]

ReadChat(t) ==
  /\ task[t].pc = "read"
  /\ Goes(t, [task[t] EXCEPT !.pc = "write", !.view = saved])

\* The chat is written as it was read, with the message merged into it.
WriteChat(t) ==
  /\ task[t].pc = "write"
  /\ saved' = [u \in Task |->
       IF u = t /\ task[t].put THEN task[t].content
       ELSE IF ChatOf[u] = ChatOf[t] THEN task[t].view[u] ELSE saved[u]]
  /\ task' = [task EXCEPT ![t].pc = task[t].next, ![t].next = "none", ![t].view = Empty,
                          ![t].put = FALSE, ![t].failed = @ /\ ~task[t].put]
  /\ UNCHANGED <<tasks, chat_tasks, stop>>

\* The chat cannot be read or written: None is returned, and nobody looks at it.
SaveFails(t) ==
  /\ task[t].pc \in Saving
  /\ Goes(t, [task[t] EXCEPT !.pc = task[t].next, !.next = "none", !.view = Empty,
                             !.put = FALSE, !.failed = @ \/ task[t].put])

----------------------------------------------------------------------------
(* The task: process_chat_response and its post_response_handler *)

\* The model answers with a stream: the message gets the model's id.
Start(t) ==
  /\ task[t].pc = "none" /\ Free(ProcessOf[t])
  /\ Goes(t, Save(task[t], "create", FALSE))

\* Mutant: the chat's list is replaced and not extended.
CreateTask_Overwrites(t) ==
  /\ task[t].pc = "create"
  /\ tasks' = [tasks EXCEPT ![ProcessOf[t]] = @ \cup {t}]
  /\ chat_tasks' = [chat_tasks EXCEPT ![ProcessOf[t]][ChatOf[t]] = {t}]
  /\ task' = [task EXCEPT ![t].pc = "stream"]
  /\ UNCHANGED <<saved, stop>>

CreateTask(t) ==
  /\ task[t].pc = "create"
  /\ tasks' = [tasks EXCEPT ![ProcessOf[t]] = @ \cup {t}]
  /\ chat_tasks' = [chat_tasks EXCEPT ![ProcessOf[t]][ChatOf[t]] = @ \cup {t}]
  /\ task' = [task EXCEPT ![t].pc = "stream"]
  /\ UNCHANGED <<saved, stop>>

\* Mutant: the final save is made in the wrong mode.
Finish_Inverted(c) ==
  IF ENABLE_REALTIME_CHAT_SAVE THEN Save(c, "done", TRUE) ELSE [c EXCEPT !.pc = "done"]

Finish(c) ==
  IF ENABLE_REALTIME_CHAT_SAVE THEN [c EXCEPT !.pc = "done"] ELSE Save(c, "done", TRUE)

EndsInCode(c) == CodeInterpreter /\ c.last \in {"open", "code"} /\ ~c.fresh

CodeLoop(c) ==
  IF EndsInCode(c) /\ c.retries < MAX_RETRIES
  THEN [c EXCEPT !.pc = "code", !.phase = "code", !.retries = @ + 1]
  ELSE Finish(c)

ToolLoop(c) ==
  IF c.calls /\ c.tries < MAX_TOOL_CALL_RETRIES
  THEN [c EXCEPT !.pc = "tool", !.phase = "tools", !.tries = @ + 1, !.calls = FALSE,
                 !.content = @ + 1, !.last = "tools", !.fresh = FALSE]
  ELSE CodeLoop(c)

\* The stream is over: an empty last text is dropped, the calls are queued.
AfterStream(c) ==
  LET d == [c EXCEPT !.fresh = FALSE, !.calls = c.calls \/ c.called, !.called = FALSE]
  IN  IF d.phase = "code" THEN CodeLoop(d) ELSE ToolLoop(d)

\* An exception of a model ends the loop; before the loops it ends the task.
AfterFailure(c) ==
  LET d == [c EXCEPT !.called = FALSE]
  IN  CASE d.phase = "first" -> [d EXCEPT !.pc = "ended", !.outcome = "raised"]
        [] d.phase = "tools" -> CodeLoop(d)
        [] d.phase = "code" -> Finish(d)

Delta(t) ==
  /\ Runs(t, "stream") /\ task[t].content < MaxContent
  /\ LET c == [task[t] EXCEPT !.content = @ + 1, !.fresh = FALSE]
         open == task[t].last = "open" /\ ~task[t].fresh
     IN  \* a value, which may open a code block
         \/ \E last \in (IF open THEN {"open"} ELSE {"text"}) \cup
                        (IF CodeInterpreter THEN {"open"} ELSE {}) :
              LET d == [c EXCEPT !.last = last]
              IN  Goes(t, IF ENABLE_REALTIME_CHAT_SAVE THEN Save(d, "stream", TRUE) ELSE d)
         \* reasoning
         \/ Goes(t, [c EXCEPT !.last = "text"])
         \* the end tag of the code block, after which the stream is left
         \/ open /\ Goes(t, AfterStream([c EXCEPT !.last = "code"]))

ToolCallDelta(t) ==
  Runs(t, "stream") /\ Goes(t, [task[t] EXCEPT !.called = TRUE])

\* An event of the filters, sources or the selected model: other fields.
FieldsDelta(t) ==
  Runs(t, "stream") /\ Goes(t, Save(task[t], "stream", FALSE))

StreamEnds(t) == Runs(t, "stream") /\ Goes(t, AfterStream(task[t]))

StreamBreaks(t) == Runs(t, "stream") /\ Goes(t, AfterFailure(task[t]))

\* The tools, or the code, have run: what they return, errors too, is added.
RunTools(t) ==
  Runs(t, "tool") /\ Goes(t, [task[t] EXCEPT !.pc = "model", !.content = @ + 1, !.fresh = TRUE])

RunCode(t) ==
  Runs(t, "code") /\ Goes(t, [task[t] EXCEPT !.pc = "model", !.content = @ + 1, !.fresh = TRUE])

\* The model is called again with what was added; a call that fails, or does
\* not answer with a stream, is not repeated.
CallModel(t) ==
  /\ Runs(t, "model")
  /\ \/ Goes(t, [task[t] EXCEPT !.pc = "stream"])
     \/ Goes(t, AfterFailure(task[t]))

\* What follows an await raises, and nothing catches it: telling the client about
\* a block, writing down what a tool returned, telling the end, the last callback.
Raises(t) ==
  \E pc \in Awaiting :
    Runs(t, pc) /\ Goes(t, [task[t] EXCEPT !.pc = "ended", !.outcome = "raised"])

TellDone(t) ==
  Runs(t, "done") /\ Goes(t, [task[t] EXCEPT !.told = "done", !.pc = "background"])

\* Mutant: the title is generated again and again.
Background_Retry(t) ==
  Runs(t, "background") /\ Goes(t, Save(task[t], "background", FALSE))

\* background_tasks_handler: a title is generated, or not.
Background(t) ==
  /\ Runs(t, "background")
  /\ \/ Goes(t, Save(task[t], "after", FALSE))
     \/ Goes(t, [task[t] EXCEPT !.pc = "after"])

\* Mutant: the handler of CancelledError does not save.
TellCancelled_NoSave(t) ==
  Runs(t, "cancelled") /\ Goes(t, [task[t] EXCEPT !.told = "cancelled", !.pc = "after"])

\* The handler of CancelledError tells the client and saves what there is.
TellCancelled(t) ==
  /\ Runs(t, "cancelled")
  /\ LET c == [task[t] EXCEPT !.told = "cancelled"]
     IN  Goes(t, IF ENABLE_REALTIME_CHAT_SAVE THEN [c EXCEPT !.pc = "after"]
                 ELSE Save(c, "after", TRUE))

\* Mutant: the task is over but has no outcome.
Return_NoOutcome(t) ==
  Runs(t, "after") /\ Goes(t, [task[t] EXCEPT !.pc = "ended"])

\* response.background has run.
Return(t) ==
  Runs(t, "after") /\ Goes(t, [task[t] EXCEPT !.pc = "ended", !.outcome = "returned"])

\* Mutant: nothing catches CancelledError.
Caught_Nothing(pc) == FALSE

\* CancelledError is raised where the task awaits; only the handler catches it.
Caught(pc) == pc \in Awaiting \ {"cancelled", "after"}
\* Mutant: the loops swallow CancelledError and go on.
Deliver_Swallowed(t) ==
  /\ task[t].pc \in Awaiting /\ task[t].cancel /\ Free(ProcessOf[t])
  /\ Goes(t, [task[t] EXCEPT !.cancel = FALSE])

Deliver(t) ==
  /\ task[t].pc \in Awaiting /\ task[t].cancel /\ Free(ProcessOf[t])
  /\ LET c == [task[t] EXCEPT !.cancel = FALSE]
     IN  Goes(t, IF Caught(c.pc) THEN [c EXCEPT !.pc = "cancelled"]
                 ELSE [c EXCEPT !.pc = "ended", !.outcome = "cancelled"])

----------------------------------------------------------------------------
(* tasks.py *)

\* Mutant: all tasks of the chat are dropped from the dictionary.
CleanupTask_ByChat(t) ==
  /\ task[t].pc = "ended" /\ Free(ProcessOf[t])
  /\ tasks' = [tasks EXCEPT ![ProcessOf[t]] = {u \in @ : ChatOf[u] # ChatOf[t]}]
  /\ chat_tasks' = [chat_tasks EXCEPT ![ProcessOf[t]][ChatOf[t]] = @ \ {t}]
  /\ task' = [task EXCEPT ![t].pc = "gone"]
  /\ UNCHANGED <<saved, stop>>

\* The done callback.
CleanupTask(t) ==
  /\ task[t].pc = "ended" /\ Free(ProcessOf[t])
  /\ tasks' = [tasks EXCEPT ![ProcessOf[t]] = @ \ {t}]
  /\ chat_tasks' = [chat_tasks EXCEPT ![ProcessOf[t]][ChatOf[t]] = @ \ {t}]
  /\ task' = [task EXCEPT ![t].pc = "gone"]
  /\ UNCHANGED <<saved, stop>>

AnswerOf(t) ==
  CASE task[t].outcome = "cancelled" -> "stopped"
    [] task[t].outcome = "returned" -> "failed"
    [] task[t].outcome = "raised" -> "error"

\* stop_task has awaited a task that is over.
Answers(r, p, t) ==
  /\ stop' = [stop EXCEPT ![r] = [pc |-> "answered", task |-> t, answer |-> AnswerOf(t)]]
  /\ tasks' = IF task[t].outcome = "cancelled" THEN [tasks EXCEPT ![p] = @ \ {t}] ELSE tasks
  /\ UNCHANGED <<task, saved, chat_tasks>>

\* Mutant: the task that is cancelled is not awaited.
StopTask_NoWait(r, p, t) ==
  /\ stop[r].pc = "idle" /\ Free(p) /\ t \in tasks[p] /\ task[t].outcome = "none"
  /\ task' = [task EXCEPT ![t].cancel = TRUE]
  /\ stop' = [stop EXCEPT ![r] = [pc |-> "answered", task |-> t, answer |-> "stopped"]]
  /\ UNCHANGED <<saved, tasks, chat_tasks>>

\* A request to stop t reaches process p.
StopTask(r, p, t) ==
  /\ stop[r].pc = "idle" /\ Free(p) /\ task[t].pc \notin {"none", "create"}
  /\ task[t].next # "create"
  /\ \/ /\ t \notin tasks[p]
        /\ stop' = [stop EXCEPT ![r] = [pc |-> "answered", task |-> t, answer |-> "not_found"]]
        /\ UNCHANGED <<task, saved, tasks, chat_tasks>>
     \/ /\ t \in tasks[p] /\ task[t].outcome = "none"
        /\ task' = [task EXCEPT ![t].cancel = TRUE]
        /\ stop' = [stop EXCEPT ![r] = [pc |-> "waiting", task |-> t, answer |-> "none"]]
        /\ UNCHANGED <<saved, tasks, chat_tasks>>
     \/ /\ t \in tasks[p] /\ task[t].outcome # "none"
        /\ Answers(r, p, t)

\* The request wakes up after the done callback, which was added first.
AnswerStop(r) ==
  /\ stop[r].pc = "waiting"
  /\ LET t == stop[r].task
     IN  task[t].pc = "gone" /\ Free(ProcessOf[t]) /\ Answers(r, ProcessOf[t], t)

----------------------------------------------------------------------------
\* What the task does that no model, tool or client is waited for.
OwnStep(t) ==
  \/ ReadChat(t) \/ WriteChat(t) \/ SaveFails(t) \/ CreateTask(t) \/ TellDone(t) \/ TellCancelled(t)
  \/ Return(t) \/ Deliver(t) \/ CleanupTask(t)

Next ==
  \/ \E t \in Task :
       \/ Start(t) \/ OwnStep(t) \/ Delta(t) \/ ToolCallDelta(t) \/ FieldsDelta(t)
       \/ StreamEnds(t) \/ StreamBreaks(t) \/ RunTools(t) \/ RunCode(t) \/ CallModel(t)
       \/ Background(t) \/ Raises(t)
  \/ \E r \in Request :
       AnswerStop(r) \/ \E p \in Process, t \in Task : StopTask(r, p, t)

Spec == Init /\ [][Next]_vars

\* The event loop runs what can run on, and lets a request that waits answer.
FairSpec ==
  /\ Spec
  /\ \A t \in Task : WF_vars(OwnStep(t))
  /\ \A r \in Request : WF_vars(AnswerStop(r))

\* Streams end (after at most the timeout of the connection), and tools, code
\* and models answer.
WorldAnswers ==
  \A t \in Task : /\ SF_vars(StreamEnds(t)) /\ WF_vars(RunTools(t)) /\ WF_vars(RunCode(t))
                  /\ WF_vars(CallModel(t)) /\ WF_vars(Background(t))

----------------------------------------------------------------------------
(* Properties *)

\* The records of tasks and requests are well formed: a task saves and goes on
\* to a place where it awaits, and who has not ended has no outcome.
TypeOK ==
  /\ task \in [Task -> Record]
  /\ saved \in [Task -> Nat]
  /\ tasks \in [Process -> SUBSET Task]
  /\ chat_tasks \in [Process -> [Chat -> SUBSET Task]]
  /\ stop \in [Request -> Stop]
  /\ \A t \in Task : /\ task[t].outcome = "none" <=> task[t].pc \notin {"ended", "gone"}
                     /\ task[t].next = "none" <=> task[t].pc \notin Saving

\* When a task is over, the message in the database has all of its content
\* ("Create chats, navigate away, and return anytime with responses ready"),
\* unless an exception ended the task or the save of that content failed.
EndedIsSaved ==
  \A t \in Task : task[t].outcome \in {"returned", "cancelled"} =>
    saved[t] = task[t].content \/ task[t].failed

\* When the client is told that the message is done, a client that reloads the
\* chat finds all of it, unless the save of it failed.
DoneIsSaved ==
  \A t \in Task : task[t].told = "done" => saved[t] = task[t].content \/ task[t].failed

\* A client is told how its message ended, unless an exception ended the task.
EndIsTold ==
  \A t \in Task : task[t].outcome \in {"returned", "cancelled"} => task[t].told # "nothing"

\* A task that runs can be found, among the tasks and by its chat, and one that
\* is over and cleaned up cannot.
RunningIsListed ==
  \A t \in Task : LET p == ProcessOf[t] IN
    /\ Running(t) => t \in tasks[p] /\ t \in chat_tasks[p][ChatOf[t]]
    /\ task[t].pc = "gone" => t \notin tasks[p] /\ t \notin chat_tasks[p][ChatOf[t]]

\* When a stop is answered, other than by "not found", the task is over.
AnsweredStopIsOver ==
  \A r \in Request :
    stop[r].pc = "answered" /\ stop[r].answer # "not_found" =>
      task[stop[r].task].outcome # "none"

\* A stop finds its task as long as it runs ("You can now return to an active
\* (ongoing) chat and stop generation at any time").
StopFindsRunning ==
  [][\A r \in Request :
       stop[r].pc = "idle" /\ stop'[r].pc = "answered" => ~Running(stop'[r].task)]_vars

\* A stop is answered even if the stream, the tools or the code never end.
StopIsAnswered == \A r \in Request : (stop[r].pc = "waiting") ~> (stop[r].pc = "answered")

\* Whatever the models ask for, a task comes to an end, if the world answers.
EveryTaskEnds ==
  WorldAnswers => \A t \in Task : Running(t) ~> (task[t].outcome # "none")
=============================================================================
