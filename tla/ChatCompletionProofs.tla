------------------------- MODULE ChatCompletionProofs -------------------------
(***************************************************************************)
(* Proofs about the answering of chat messages, where anything may raise   *)
(* and any save may fail. For all constants: the registry lists what runs, *)
(* and a stop is answered when its task is over. When the requests of a    *)
(* chat go to one process and content is saved at the end: what is         *)
(* announced as done is saved, unless that save failed. When no task is    *)
(* stopped twice: who has ended, other than by an exception, has told so,  *)
(* and, if both hold, has saved its content or failed in saving it.        *)
(***************************************************************************)
EXTENDS ChatCompletion, TLAPS

Wellformed(c) ==
  /\ c \in Record
  /\ c.outcome = "none" <=> c.pc \notin {"ended", "gone"}
  /\ c.next = "none" <=> c.pc \notin Saving
  /\ c.pc \in Saving => c.next \in {"create", "stream", "done", "after"}
  /\ c.pc \in {"tool", "model", "code"} => c.phase # "first"

Runs_(c) == c.pc \in Awaiting \cup Saving /\ c.next # "create"

\* Nothing is left to save.
Settled(c) == \/ c.pc \in {"done", "background", "after"}
              \/ c.pc \in {"ended", "gone"} /\ c.outcome # "raised"
              \/ c.pc \in Saving /\ c.next \in {"done", "after"} /\ ~c.put

\* How a task goes on from an await, when no cancellation is delivered.
Onward(b, c) ==
  /\ Wellformed(c)
  /\ c.cancel = b.cancel /\ c.failed = b.failed
  /\ \/ Runs_(c) /\ c.pc \notin {"write", "cancelled"}
     \/ c.pc = "ended"

\* A task becomes settled only by a save of its content.
SavesFirst(b, c) == Settled(c) => Settled(b) /\ c.content = b.content

\* The loops, from which a task goes to the save at the end.
Inside == {"stream", "tool", "model", "code"}

InLoop(c) == \/ c.pc \in Inside \cup {"done"}
             \/ c.pc = "read" /\ (c.next = "stream" \/ (c.next = "done" /\ c.put))

\* The loops tell the client nothing, and are left by that save.
Silent(b, c) ==
  /\ c.told = b.told /\ InLoop(c)
  /\ ~ENABLE_REALTIME_CHAT_SAVE => c.pc # "done"

\* Where a turn leads, and what the client hears of it.
Course(b, c) ==
  \/ /\ b.pc \in Inside /\ c.told = b.told
     /\ InLoop(c)
     /\ ~ENABLE_REALTIME_CHAT_SAVE => c.pc # "done"
  \/ /\ b.pc = "done" /\ c.pc = "background"
     /\ c.told = "done" /\ c.content = b.content
  \/ /\ b.pc = "background"
     /\ c.pc = "after" \/ (c.pc = "read" /\ c.next = "after" /\ ~c.put)
     /\ c.told = b.told /\ c.content = b.content
  \/ /\ b.pc = "cancelled"
     /\ c.pc = "after" \/ (c.pc = "read" /\ c.next = "after")
     /\ c.told = "cancelled"
  \/ /\ b.pc = "after" \/ c.outcome = "raised"
     /\ c.pc = "ended" /\ c.told = b.told /\ c.content = b.content

\* Fields of a record after an update are checked one fact at a time.
LEMMA Counting ==
  ASSUME NEW b, Wellformed(b)
  PROVE  b.retries + 1 \in Nat /\ b.tries + 1 \in Nat /\ b.content + 1 \in Nat
BY DEF Wellformed, Record

LEMMA FinishOnward ==
  ASSUME NEW b, Wellformed(b), b.pc \in Awaiting
  PROVE  /\ Onward(b, Finish(b)) /\ Silent(b, Finish(b))
         /\ ~ENABLE_REALTIME_CHAT_SAVE => SavesFirst(b, Finish(b))
<1> DEFINE c == [b EXCEPT !.pc = "done"]
           d == [b EXCEPT !.pc = "read", !.next = "done", !.put = TRUE]
<1>1. c \in Record /\ d \in Record
  BY Zenon DEF Wellformed, Record, Awaiting, Saving
<1>2. /\ c.pc = "done" /\ c.next = b.next /\ c.cancel = b.cancel /\ c.failed = b.failed
      /\ c.outcome = b.outcome
      /\ d.pc = "read" /\ d.next = "done" /\ d.cancel = b.cancel /\ d.failed = b.failed
      /\ d.outcome = b.outcome
      /\ d.put = TRUE /\ c.told = b.told /\ d.told = b.told
  BY DEF Wellformed, Record
<1>3. b.outcome = "none" /\ b.next = "none"
  BY DEF Wellformed, Awaiting, Saving
<1>4. Finish(b) = IF ENABLE_REALTIME_CHAT_SAVE THEN c ELSE d
  BY DEF Finish, Save
<1> HIDE DEF c, d
<1>5. Onward(b, c) /\ Onward(b, d)
  BY <1>1, <1>2, <1>3 DEF Onward, Wellformed, Runs_, Awaiting, Saving
<1>6. SavesFirst(b, d)
  BY <1>2 DEF SavesFirst, Settled, Saving
<1>7. Silent(b, d) /\ (ENABLE_REALTIME_CHAT_SAVE => Silent(b, c))
  BY <1>2 DEF Silent, InLoop, Inside
<1> QED BY <1>4, <1>5, <1>6, <1>7

LEMMA CodeLoopOnward ==
  ASSUME NEW b, Wellformed(b), b.pc \in Awaiting
  PROVE  /\ Onward(b, CodeLoop(b)) /\ Silent(b, CodeLoop(b))
         /\ ~ENABLE_REALTIME_CHAT_SAVE => SavesFirst(b, CodeLoop(b))
<1> DEFINE c == [b EXCEPT !.pc = "code", !.phase = "code", !.retries = @ + 1]
<1>1. c \in Record
  BY Counting, Zenon DEF Wellformed, Record, Awaiting, Saving
<1>2. /\ c.pc = "code" /\ c.next = b.next /\ c.cancel = b.cancel /\ c.failed = b.failed
      /\ c.outcome = b.outcome
      /\ c.phase = "code" /\ c.told = b.told
  BY DEF Wellformed, Record
<1>3. b.outcome = "none" /\ b.next = "none"
  BY DEF Wellformed, Awaiting, Saving
<1>4. CodeLoop(b) = IF EndsInCode(b) /\ b.retries < MAX_RETRIES THEN c ELSE Finish(b)
  BY DEF CodeLoop
<1> HIDE DEF c
<1>5. Onward(b, c) /\ SavesFirst(b, c)
  BY <1>1, <1>2, <1>3 DEF Onward, SavesFirst, Settled, Wellformed, Runs_, Awaiting, Saving
<1>6. Silent(b, c)
  BY <1>2 DEF Silent, InLoop, Inside
<1> QED BY <1>4, <1>5, <1>6, FinishOnward

LEMMA ToolLoopOnward ==
  ASSUME NEW b, Wellformed(b), b.pc \in Awaiting
  PROVE  /\ Onward(b, ToolLoop(b)) /\ Silent(b, ToolLoop(b))
         /\ ~ENABLE_REALTIME_CHAT_SAVE => SavesFirst(b, ToolLoop(b))
<1> DEFINE c == [b EXCEPT !.pc = "tool", !.phase = "tools", !.tries = @ + 1,
                          !.calls = FALSE, !.content = @ + 1, !.last = "tools",
                          !.fresh = FALSE]
<1>1. c \in Record
  BY Counting, Zenon DEF Wellformed, Record, Awaiting, Saving
<1>2. /\ c.pc = "tool" /\ c.next = b.next /\ c.cancel = b.cancel /\ c.failed = b.failed
      /\ c.outcome = b.outcome
      /\ c.phase = "tools" /\ c.told = b.told
  BY DEF Wellformed, Record
<1>3. b.outcome = "none" /\ b.next = "none"
  BY DEF Wellformed, Awaiting, Saving
<1>4. ToolLoop(b) = IF b.calls /\ b.tries < MAX_TOOL_CALL_RETRIES THEN c ELSE CodeLoop(b)
  BY DEF ToolLoop
<1> HIDE DEF c
<1>5. Onward(b, c) /\ SavesFirst(b, c)
  BY <1>1, <1>2, <1>3 DEF Onward, SavesFirst, Settled, Wellformed, Runs_, Awaiting, Saving
<1>6. Silent(b, c)
  BY <1>2 DEF Silent, InLoop, Inside
<1> QED BY <1>4, <1>5, <1>6, CodeLoopOnward

\* A record that differs in what does not matter here.
Alike(b, d) ==
  /\ Wellformed(d) /\ d.pc = b.pc /\ d.cancel = b.cancel /\ d.failed = b.failed

LEMMA AfterStreamOnward ==
  ASSUME NEW b, Wellformed(b), b.pc = "stream"
  PROVE  /\ Onward(b, AfterStream(b)) /\ Course(b, AfterStream(b))
         /\ Silent(b, AfterStream(b))
         /\ ~ENABLE_REALTIME_CHAT_SAVE => ~Settled(AfterStream(b))
<1> DEFINE d == [b EXCEPT !.fresh = FALSE, !.calls = b.calls \/ b.called, !.called = FALSE]
<1>1. d \in Record
  <2>1. (b.calls \/ b.called) \in BOOLEAN
    OBVIOUS
  <2> QED BY <2>1, Zenon DEF Wellformed, Record
<1>2. /\ d.pc = b.pc /\ d.next = b.next /\ d.cancel = b.cancel /\ d.failed = b.failed
      /\ d.outcome = b.outcome
      /\ d.told = b.told /\ d.phase = b.phase
  BY DEF Wellformed, Record
<1>3. AfterStream(b) = IF d.phase = "code" THEN CodeLoop(d) ELSE ToolLoop(d)
  BY DEF AfterStream
<1> HIDE DEF d
<1>4. Wellformed(d) /\ d.pc = "stream" /\ d.pc \in Awaiting /\ ~Settled(d)
  BY <1>1, <1>2 DEF Wellformed, Awaiting, Saving, Settled
<1>5. /\ Onward(d, AfterStream(b)) /\ Silent(d, AfterStream(b))
      /\ ~ENABLE_REALTIME_CHAT_SAVE => SavesFirst(d, AfterStream(b))
  BY <1>3, <1>4, CodeLoopOnward, ToolLoopOnward
<1>6. Onward(b, AfterStream(b)) /\ (~ENABLE_REALTIME_CHAT_SAVE => ~Settled(AfterStream(b)))
  BY <1>2, <1>4, <1>5 DEF Onward, SavesFirst
<1>7. Course(b, AfterStream(b)) /\ Silent(b, AfterStream(b))
  BY <1>2, <1>5 DEF Course, Silent, Inside
<1> QED BY <1>6, <1>7

LEMMA AfterFailureOnward ==
  ASSUME NEW b, Wellformed(b), b.pc \in {"stream", "model"}
  PROVE  /\ Onward(b, AfterFailure(b))
         /\ Course(b, AfterFailure(b))
         /\ ~ENABLE_REALTIME_CHAT_SAVE => ~Settled(AfterFailure(b))
<1> DEFINE d == [b EXCEPT !.called = FALSE]
           e == [d EXCEPT !.pc = "ended", !.outcome = "raised"]
<1>1. d \in Record /\ e \in Record
  <2>1. d \in Record
    BY Zenon DEF Wellformed, Record
  <2>2. e \in Record
    BY Zenon DEF Wellformed, Record, Awaiting, Saving
  <2> QED BY <2>1, <2>2
<1>2. /\ d.pc = b.pc /\ d.next = b.next /\ d.cancel = b.cancel /\ d.failed = b.failed
      /\ d.outcome = b.outcome
      /\ d.phase = b.phase /\ d.told = b.told
  BY DEF Wellformed, Record
<1>3. /\ e.pc = "ended" /\ e.next = b.next /\ e.cancel = b.cancel /\ e.failed = b.failed
      /\ e.outcome = "raised" /\ e.told = b.told /\ e.content = b.content
  BY DEF Wellformed, Record
<1>4. AfterFailure(b) = CASE d.phase = "first" -> e
                          [] d.phase = "tools" -> CodeLoop(d)
                          [] d.phase = "code" -> Finish(d)
  BY DEF AfterFailure
<1>5. d.phase \in {"first", "tools", "code"}
  BY <1>1 DEF Record
<1> HIDE DEF d, e
<1>6. Wellformed(d) /\ d.pc \in Awaiting /\ ~Settled(d)
  BY <1>1, <1>2 DEF Wellformed, Awaiting, Saving, Settled
<1>7. Onward(b, e)
  BY <1>1, <1>2, <1>3 DEF Onward, Wellformed, Awaiting, Saving
<1>8. CASE d.phase = "first"
  <2>1. AfterFailure(b) = e
    BY <1>4, <1>8
  <2> QED BY <1>3, <1>7, <2>1 DEF Course, Settled, Saving
<1>9. CASE d.phase # "first"
  <2>1. /\ Onward(d, AfterFailure(b)) /\ Silent(d, AfterFailure(b))
        /\ ~ENABLE_REALTIME_CHAT_SAVE => SavesFirst(d, AfterFailure(b))
    BY <1>4, <1>5, <1>6, <1>9, CodeLoopOnward, FinishOnward
  <2>2. /\ Onward(b, AfterFailure(b))
        /\ ~ENABLE_REALTIME_CHAT_SAVE => ~Settled(AfterFailure(b))
    BY <1>2, <1>6, <2>1 DEF Onward, SavesFirst
  <2>3. Course(b, AfterFailure(b))
    BY <1>2, <2>1 DEF Course, Silent, Inside
  <2> QED BY <2>2, <2>3
<1> QED BY <1>8, <1>9

----------------------------------------------------------------------------
(* The steps of a task at an await *)

Turn(t) ==
  \/ Delta(t) \/ ToolCallDelta(t) \/ FieldsDelta(t) \/ StreamEnds(t) \/ StreamBreaks(t)
  \/ RunTools(t) \/ RunCode(t) \/ CallModel(t) \/ TellDone(t) \/ Background(t)
  \/ TellCancelled(t) \/ Return(t) \/ Raises(t)

TasksOK == task \in [Task -> Record] /\ \A t \in Task : Wellformed(task[t])

SavesLast == ~ENABLE_REALTIME_CHAT_SAVE

Turned(t) ==
  /\ task[t].pc \in Awaiting /\ ~task[t].cancel /\ Free(ProcessOf[t])
  /\ task' = [task EXCEPT ![t] = task'[t]]
  /\ UNCHANGED <<saved, tasks, chat_tasks, stop>>
  /\ Onward(task[t], task'[t])
  /\ SavesLast => SavesFirst(task[t], task'[t])
  /\ Course(task[t], task'[t])

LEMMA TurnedBy ==
  ASSUME TasksOK, NEW t \in Task, NEW c,
         task[t].pc \in Awaiting, ~task[t].cancel, Free(ProcessOf[t]), Goes(t, c),
         Onward(task[t], c), SavesLast => SavesFirst(task[t], c), Course(task[t], c)
  PROVE  Turned(t)
BY DEF TasksOK, Goes, Turned

\* The short steps: the fields that they change, one after the other.
LEMMA SimpleTurn ==
  ASSUME TasksOK, NEW t \in Task, ~task[t].cancel, Free(ProcessOf[t]),
         NEW pc \in Awaiting \cup {"read", "ended"}, pc # "cancelled",
         NEW c \in Record, Goes(t, c),
         task[t].pc \in Awaiting,
         c.pc = pc, c.cancel = task[t].cancel /\ c.failed = task[t].failed,
         c.pc \in Saving <=> c.next # "none",
         c.pc \in Saving => c.next \in {"stream", "after"},
         c.outcome = "none" <=> c.pc # "ended",
         pc \in {"tool", "model", "code"} => c.phase # "first",
         SavesLast => SavesFirst(task[t], c), Course(task[t], c)
  PROVE  Turned(t)
<1>1. Onward(task[t], c)
  BY DEF Onward, Wellformed, Runs_, Awaiting, Saving
<1> QED BY <1>1, TurnedBy

LEMMA AwaitingRecord ==
  ASSUME TasksOK, NEW t \in Task, task[t].pc \in Awaiting
  PROVE  /\ Wellformed(task[t]) /\ task[t] \in Record
         /\ task[t].outcome = "none" /\ task[t].next = "none"
         /\ task[t].content + 1 \in Nat
BY DEF TasksOK, Wellformed, Record, Awaiting, Saving

LEMMA DeltaTurn == ASSUME TasksOK, NEW t \in Task, Delta(t) PROVE Turned(t)
<1> DEFINE b == task[t]
           c == [b EXCEPT !.content = @ + 1, !.fresh = FALSE]
<1>1. b.pc = "stream" /\ b.pc \in Awaiting /\ ~b.cancel /\ Free(ProcessOf[t])
  BY DEF Delta, Runs, Awaiting
<1>2. /\ Wellformed(b) /\ b \in Record /\ b.outcome = "none" /\ b.next = "none"
      /\ b.content + 1 \in Nat
  BY <1>1, AwaitingRecord
<1>3. ASSUME NEW last \in {"text", "open", "code"}
      PROVE  LET d == [c EXCEPT !.last = last]
             IN  /\ Wellformed(d) /\ d.pc = "stream" /\ d.cancel = b.cancel
                 /\ d.failed = b.failed
                 /\ d.next = "none" /\ d.outcome = "none" /\ d.told = b.told
  <2> DEFINE d == [c EXCEPT !.last = last]
  <2>1. d \in Record
    BY <1>2, Zenon DEF Record
  <2>2. /\ d.pc = "stream" /\ d.cancel = b.cancel /\ d.failed = b.failed /\ d.next = "none"
        /\ d.outcome = "none"
        /\ d.told = b.told
    BY <1>1, <1>2 DEF Record
  <2> HIDE DEF d
  <2>3. Wellformed(d)
    BY <2>1, <2>2 DEF Wellformed, Saving
  <2> QED BY <2>2, <2>3 DEF d
<1>4. ASSUME NEW last \in {"text", "open"},
             Goes(t, IF ENABLE_REALTIME_CHAT_SAVE
                     THEN Save([c EXCEPT !.last = last], "stream", TRUE)
                     ELSE [c EXCEPT !.last = last])
      PROVE  Turned(t)
  <2> DEFINE d == [c EXCEPT !.last = last]
             e == [d EXCEPT !.pc = "read", !.next = "stream", !.put = TRUE]
  <2>1. Goes(t, IF ENABLE_REALTIME_CHAT_SAVE THEN e ELSE d)
    BY <1>4 DEF Save
  <2>2. /\ Wellformed(d) /\ d \in Record /\ d.pc = "stream" /\ d.cancel = b.cancel
        /\ d.failed = b.failed
        /\ d.next = "none" /\ d.outcome = "none" /\ d.told = b.told
    BY <1>3 DEF Wellformed
  <2> HIDE DEF d
  <2>3. e \in Record
    BY <2>2, Zenon DEF Record, Awaiting, Saving
  <2>4. /\ e.pc = "read" /\ e.cancel = b.cancel /\ e.failed = b.failed /\ e.next = "stream"
        /\ e.outcome = "none"
        /\ e.told = b.told
    BY <2>2 DEF Record
  <2> HIDE DEF e
  <2>7. Course(b, d) /\ Course(b, e)
    BY <1>1, <2>2, <2>4 DEF Course, Inside, InLoop
  <2>5. CASE ENABLE_REALTIME_CHAT_SAVE
    <3>1. Goes(t, e)
      BY <2>1, <2>5
    <3> QED BY <1>1, <2>3, <2>4, <2>5, <2>7, <3>1, SimpleTurn DEF SavesLast, Saving
  <2>6. CASE ~ENABLE_REALTIME_CHAT_SAVE
    <3>1. Goes(t, d)
      BY <2>1, <2>6
    <3>2. ~Settled(d)
      BY <2>2 DEF Settled, Saving
    <3> QED BY <1>1, <2>2, <2>7, <3>1, <3>2, SimpleTurn DEF Saving, Awaiting, SavesFirst
  <2> QED BY <2>5, <2>6
<1>5. ASSUME Goes(t, [c EXCEPT !.last = "text"]) PROVE Turned(t)
  <2> DEFINE d == [c EXCEPT !.last = "text"]
  <2>1. /\ Wellformed(d) /\ d \in Record /\ d.pc = "stream" /\ d.cancel = b.cancel
        /\ d.failed = b.failed
        /\ d.next = "none" /\ d.outcome = "none" /\ d.told = b.told
    BY <1>3 DEF Wellformed
  <2> HIDE DEF d
  <2>2. ~Settled(d) /\ Goes(t, d) /\ Course(b, d)
    BY <1>1, <1>5, <2>1 DEF Settled, Saving, d, Course, Inside, InLoop
  <2> QED BY <1>1, <2>1, <2>2, SimpleTurn DEF Saving, Awaiting, SavesFirst
<1>6. ASSUME Goes(t, AfterStream([c EXCEPT !.last = "code"])) PROVE Turned(t)
  <2> DEFINE d == [c EXCEPT !.last = "code"]
  <2>1. Wellformed(d) /\ d.pc = "stream" /\ d.cancel = b.cancel /\ d.failed = b.failed
                      /\ d.told = b.told
    BY <1>3
  <2> HIDE DEF d
  <2>2. Goes(t, AfterStream(d))
    BY <1>6 DEF d
  <2>3. /\ Onward(d, AfterStream(d)) /\ Silent(d, AfterStream(d))
        /\ ~ENABLE_REALTIME_CHAT_SAVE => ~Settled(AfterStream(d))
    BY <2>1, AfterStreamOnward
  <2>4. Onward(b, AfterStream(d)) /\ (SavesLast => SavesFirst(b, AfterStream(d)))
    BY <2>1, <2>3 DEF Onward, SavesFirst, SavesLast
  <2>5. Course(b, AfterStream(d))
    BY <1>1, <2>1, <2>3 DEF Course, Silent, Inside
  <2> QED BY <1>1, <2>2, <2>4, <2>5, TurnedBy
<1> QED
  BY <1>4, <1>5, <1>6 DEF Delta

LEMMA ToolCallTurn == ASSUME TasksOK, NEW t \in Task, ToolCallDelta(t) PROVE Turned(t)
<1> DEFINE c == [task[t] EXCEPT !.called = TRUE]
<1>1. task[t].pc = "stream" /\ task[t].pc \in Awaiting /\ ~task[t].cancel /\ Free(ProcessOf[t])
  BY DEF ToolCallDelta, Runs, Awaiting
<1>2. c \in Record
  BY <1>1, AwaitingRecord, Zenon DEF Record
<1>3. /\ c.pc = "stream" /\ c.cancel = task[t].cancel /\ c.failed = task[t].failed
      /\ c.next = "none" /\ c.outcome = "none"
      /\ c.told = task[t].told
  BY <1>1, AwaitingRecord DEF Record
<1>4. Goes(t, c)
  BY DEF ToolCallDelta
<1> HIDE DEF c
<1>5. ~Settled(c) /\ Course(task[t], c)
  BY <1>1, <1>3 DEF Settled, Saving, Course, Inside, InLoop
<1> QED BY <1>1, <1>2, <1>3, <1>4, <1>5, SimpleTurn DEF Saving, Awaiting, SavesFirst

LEMMA FieldsTurn == ASSUME TasksOK, NEW t \in Task, FieldsDelta(t) PROVE Turned(t)
<1> DEFINE c == [task[t] EXCEPT !.pc = "read", !.next = "stream", !.put = FALSE]
<1>1. task[t].pc = "stream" /\ task[t].pc \in Awaiting /\ ~task[t].cancel /\ Free(ProcessOf[t])
  BY DEF FieldsDelta, Runs, Awaiting
<1>2. c \in Record
  <2>1. task[t] \in Record
    BY <1>1, AwaitingRecord
  <2> QED BY <2>1, Zenon DEF Record, Awaiting, Saving
<1>3. /\ c.pc = "read" /\ c.cancel = task[t].cancel /\ c.failed = task[t].failed
      /\ c.next = "stream" /\ c.outcome = "none"
      /\ c.told = task[t].told
  BY <1>1, AwaitingRecord DEF Record
<1>4. Goes(t, c)
  BY DEF FieldsDelta, Save
<1> HIDE DEF c
<1>5. ~Settled(c) /\ Course(task[t], c)
  BY <1>1, <1>3 DEF Settled, Saving, Course, Inside, InLoop
<1> QED BY <1>1, <1>2, <1>3, <1>4, <1>5, SimpleTurn DEF Saving, SavesFirst

LEMMA StreamEndsTurn == ASSUME TasksOK, NEW t \in Task, StreamEnds(t) PROVE Turned(t)
<1>1. task[t].pc = "stream" /\ task[t].pc \in Awaiting /\ ~task[t].cancel /\ Free(ProcessOf[t])
  BY DEF StreamEnds, Runs, Awaiting
<1>2. /\ Onward(task[t], AfterStream(task[t])) /\ Course(task[t], AfterStream(task[t]))
      /\ SavesLast => SavesFirst(task[t], AfterStream(task[t]))
  BY <1>1, AwaitingRecord, AfterStreamOnward DEF SavesFirst, SavesLast
<1> QED BY <1>1, <1>2, TurnedBy DEF StreamEnds

LEMMA StreamBreaksTurn == ASSUME TasksOK, NEW t \in Task, StreamBreaks(t) PROVE Turned(t)
<1>1. task[t].pc = "stream" /\ task[t].pc \in Awaiting /\ ~task[t].cancel /\ Free(ProcessOf[t])
  BY DEF StreamBreaks, Runs, Awaiting
<1>2. /\ Onward(task[t], AfterFailure(task[t])) /\ Course(task[t], AfterFailure(task[t]))
      /\ SavesLast => SavesFirst(task[t], AfterFailure(task[t]))
  BY <1>1, AwaitingRecord, AfterFailureOnward DEF SavesFirst, SavesLast
<1> QED BY <1>1, <1>2, TurnedBy DEF StreamBreaks

LEMMA ResultsTurn ==
  ASSUME TasksOK, NEW t \in Task, RunTools(t) \/ RunCode(t)
  PROVE  Turned(t)
<1> DEFINE c == [task[t] EXCEPT !.pc = "model", !.content = @ + 1, !.fresh = TRUE]
<1>1. /\ task[t].pc \in {"tool", "code"} /\ task[t].pc \in Awaiting
      /\ ~task[t].cancel /\ Free(ProcessOf[t])
  BY DEF RunTools, RunCode, Runs, Awaiting
<1>2. task[t] \in Record /\ task[t].content + 1 \in Nat /\ task[t].phase # "first"
  BY <1>1, AwaitingRecord DEF Wellformed
<1>3. c \in Record
  BY <1>2, Zenon DEF Record, Awaiting
<1>4. /\ c.pc = "model" /\ c.cancel = task[t].cancel /\ c.failed = task[t].failed
      /\ c.next = "none" /\ c.outcome = "none"
      /\ c.phase # "first" /\ c.told = task[t].told
  BY <1>1, <1>2, AwaitingRecord DEF Record
<1>5. Goes(t, c)
  BY DEF RunTools, RunCode
<1> HIDE DEF c
<1>6. ~Settled(c) /\ Course(task[t], c)
  BY <1>1, <1>4 DEF Settled, Saving, Course, Inside, InLoop
<1> QED BY <1>1, <1>3, <1>4, <1>5, <1>6, SimpleTurn DEF Saving, Awaiting, SavesFirst

LEMMA CallModelTurn == ASSUME TasksOK, NEW t \in Task, CallModel(t) PROVE Turned(t)
<1> DEFINE c == [task[t] EXCEPT !.pc = "stream"]
<1>1. task[t].pc = "model" /\ task[t].pc \in Awaiting /\ ~task[t].cancel /\ Free(ProcessOf[t])
  BY DEF CallModel, Runs, Awaiting
<1>2. task[t] \in Record /\ Wellformed(task[t]) /\ task[t].phase # "first"
  BY <1>1, AwaitingRecord DEF Wellformed
<1>3. c \in Record
  BY <1>2, Zenon DEF Record, Awaiting
<1>4. /\ c.pc = "stream" /\ c.cancel = task[t].cancel /\ c.failed = task[t].failed
      /\ c.next = "none" /\ c.outcome = "none"
      /\ c.told = task[t].told
  BY <1>1, <1>2, AwaitingRecord DEF Record
<1>5. Goes(t, c) \/ Goes(t, AfterFailure(task[t]))
  BY DEF CallModel
<1> HIDE DEF c
<1>6. ~Settled(c) /\ Course(task[t], c)
  BY <1>1, <1>4 DEF Settled, Saving, Course, Inside, InLoop
<1>7. CASE Goes(t, c)
  BY <1>1, <1>3, <1>4, <1>6, <1>7, SimpleTurn DEF Saving, Awaiting, SavesFirst
<1>8. CASE Goes(t, AfterFailure(task[t]))
  <2>1. /\ Onward(task[t], AfterFailure(task[t])) /\ Course(task[t], AfterFailure(task[t]))
        /\ SavesLast => SavesFirst(task[t], AfterFailure(task[t]))
    BY <1>1, <1>2, AfterFailureOnward DEF SavesLast, SavesFirst
  <2> QED BY <1>1, <1>8, <2>1, TurnedBy
<1> QED BY <1>5, <1>7, <1>8

LEMMA TellDoneTurn == ASSUME TasksOK, NEW t \in Task, TellDone(t) PROVE Turned(t)
<1> DEFINE c == [task[t] EXCEPT !.told = "done", !.pc = "background"]
<1>1. task[t].pc = "done" /\ task[t].pc \in Awaiting /\ ~task[t].cancel /\ Free(ProcessOf[t])
  BY DEF TellDone, Runs, Awaiting
<1>2. task[t] \in Record
  BY <1>1, AwaitingRecord
<1>3. c \in Record
  BY <1>2, Zenon DEF Record, Awaiting
<1>4. /\ c.pc = "background" /\ c.cancel = task[t].cancel /\ c.failed = task[t].failed
      /\ c.next = "none"
      /\ c.outcome = "none" /\ c.content = task[t].content /\ c.told = "done"
  BY <1>1, <1>2, AwaitingRecord DEF Record
<1>5. Goes(t, c) /\ SavesFirst(task[t], c) /\ Course(task[t], c)
  BY <1>1, <1>4 DEF TellDone, SavesFirst, Settled, Course
<1> HIDE DEF c
<1> QED BY <1>1, <1>3, <1>4, <1>5, SimpleTurn DEF Saving, Awaiting

LEMMA BackgroundTurn == ASSUME TasksOK, NEW t \in Task, Background(t) PROVE Turned(t)
<1> DEFINE c == [task[t] EXCEPT !.pc = "read", !.next = "after", !.put = FALSE]
           d == [task[t] EXCEPT !.pc = "after"]
<1>1. task[t].pc = "background" /\ task[t].pc \in Awaiting /\ ~task[t].cancel
                                /\ Free(ProcessOf[t])
  BY DEF Background, Runs, Awaiting
<1>2. task[t] \in Record
  BY <1>1, AwaitingRecord
<1>3. c \in Record /\ d \in Record
  <2>1. c \in Record  BY <1>2, Zenon DEF Record, Awaiting, Saving
  <2>2. d \in Record  BY <1>2, Zenon DEF Record, Awaiting
  <2> QED BY <2>1, <2>2
<1>4. /\ c.pc = "read" /\ c.cancel = task[t].cancel /\ c.failed = task[t].failed
      /\ c.next = "after"
      /\ c.outcome = "none" /\ c.content = task[t].content /\ c.put = FALSE
      /\ d.pc = "after" /\ d.cancel = task[t].cancel /\ d.failed = task[t].failed
      /\ d.next = "none"
      /\ d.outcome = "none" /\ d.content = task[t].content
      /\ c.told = task[t].told /\ d.told = task[t].told
  BY <1>1, <1>2, AwaitingRecord DEF Record
<1>5. Goes(t, c) \/ Goes(t, d)
  BY DEF Background, Save
<1> HIDE DEF c, d
<1>6. /\ SavesFirst(task[t], c) /\ SavesFirst(task[t], d)
      /\ Course(task[t], c) /\ Course(task[t], d)
  BY <1>1, <1>4 DEF SavesFirst, Settled, Course
<1>7. CASE Goes(t, c)
  BY <1>1, <1>3, <1>4, <1>6, <1>7, SimpleTurn DEF Saving, Awaiting
<1>8. CASE Goes(t, d)
  BY <1>1, <1>3, <1>4, <1>6, <1>8, SimpleTurn DEF Saving, Awaiting
<1> QED BY <1>5, <1>7, <1>8

LEMMA RaisesTurn == ASSUME TasksOK, NEW t \in Task, Raises(t) PROVE Turned(t)
<1> DEFINE c == [task[t] EXCEPT !.pc = "ended", !.outcome = "raised"]
<1>1. task[t].pc \in Awaiting /\ ~task[t].cancel /\ Free(ProcessOf[t]) /\ Goes(t, c)
  BY DEF Raises, Runs
<1>2. task[t] \in Record /\ task[t].next = "none"
  BY <1>1, AwaitingRecord
<1>3. c \in Record
  BY <1>2, Zenon DEF Record
<1>4. /\ c.pc = "ended" /\ c.cancel = task[t].cancel /\ c.failed = task[t].failed
      /\ c.next = "none" /\ c.outcome = "raised"
      /\ c.content = task[t].content /\ c.told = task[t].told
  BY <1>2 DEF Record
<1> HIDE DEF c
<1>5. SavesFirst(task[t], c) /\ Course(task[t], c)
  BY <1>4 DEF SavesFirst, Settled, Course, Saving
<1> QED BY <1>1, <1>3, <1>4, <1>5, SimpleTurn DEF Saving

LEMMA TellCancelledTurn == ASSUME TasksOK, NEW t \in Task, TellCancelled(t) PROVE Turned(t)
<1> DEFINE c == [task[t] EXCEPT !.told = "cancelled"]
           d == [c EXCEPT !.pc = "after"]
           e == [c EXCEPT !.pc = "read", !.next = "after", !.put = TRUE]
<1>1. task[t].pc = "cancelled" /\ task[t].pc \in Awaiting /\ ~task[t].cancel
                               /\ Free(ProcessOf[t])
  BY DEF TellCancelled, Runs, Awaiting
<1>2. task[t] \in Record
  BY <1>1, AwaitingRecord
<1>3. d \in Record /\ e \in Record
  <2>1. d \in Record  BY <1>2, Zenon DEF Record, Awaiting
  <2>2. e \in Record  BY <1>2, Zenon DEF Record, Awaiting, Saving
  <2> QED BY <2>1, <2>2
<1>4. /\ d.pc = "after" /\ d.cancel = task[t].cancel /\ d.failed = task[t].failed
      /\ d.next = "none" /\ d.outcome = "none"
      /\ e.pc = "read" /\ e.cancel = task[t].cancel /\ e.failed = task[t].failed
      /\ e.next = "after" /\ e.outcome = "none"
      /\ e.put = TRUE /\ d.told = "cancelled" /\ e.told = "cancelled"
  BY <1>1, <1>2, AwaitingRecord DEF Record
<1>5. Goes(t, IF ENABLE_REALTIME_CHAT_SAVE THEN d ELSE e)
  BY DEF TellCancelled, Save
<1> HIDE DEF c, d, e
<1>6. SavesFirst(task[t], e) /\ Course(task[t], d) /\ Course(task[t], e)
  BY <1>1, <1>4 DEF SavesFirst, Settled, Course
<1>7. CASE ENABLE_REALTIME_CHAT_SAVE
  <2>1. Goes(t, d)
    BY <1>5, <1>7
  <2> QED BY <1>1, <1>3, <1>4, <1>6, <1>7, <2>1, SimpleTurn DEF Saving, Awaiting, SavesLast
<1>8. CASE ~ENABLE_REALTIME_CHAT_SAVE
  <2>1. Goes(t, e)
    BY <1>5, <1>8
  <2> QED BY <1>1, <1>3, <1>4, <1>6, <2>1, SimpleTurn DEF Saving, Awaiting
<1> QED BY <1>7, <1>8

LEMMA ReturnTurn == ASSUME TasksOK, NEW t \in Task, Return(t) PROVE Turned(t)
<1> DEFINE c == [task[t] EXCEPT !.pc = "ended", !.outcome = "returned"]
<1>1. task[t].pc = "after" /\ task[t].pc \in Awaiting /\ ~task[t].cancel /\ Free(ProcessOf[t])
  BY DEF Return, Runs, Awaiting
<1>2. task[t] \in Record
  BY <1>1, AwaitingRecord
<1>3. c \in Record
  BY <1>2, Zenon DEF Record, Awaiting
<1>4. /\ c.pc = "ended" /\ c.cancel = task[t].cancel /\ c.failed = task[t].failed
      /\ c.next = "none"
      /\ c.outcome = "returned" /\ c.content = task[t].content /\ c.told = task[t].told
  BY <1>1, <1>2, AwaitingRecord DEF Record
<1>5. Goes(t, c) /\ SavesFirst(task[t], c) /\ Course(task[t], c)
  BY <1>1, <1>4 DEF Return, SavesFirst, Settled, Course
<1> HIDE DEF c
<1> QED BY <1>1, <1>3, <1>4, <1>5, SimpleTurn DEF Saving, Awaiting

LEMMA TurnTurns == ASSUME TasksOK, NEW t \in Task, Turn(t) PROVE Turned(t)
BY DeltaTurn, ToolCallTurn, FieldsTurn, StreamEndsTurn, StreamBreaksTurn, ResultsTurn,
   CallModelTurn, TellDoneTurn, BackgroundTurn, RaisesTurn, TellCancelledTurn,
   ReturnTurn DEF Turn

----------------------------------------------------------------------------
(* The registry, for all constants *)

RegistryInv ==
  /\ TasksOK
  /\ saved \in [Task -> Nat]
  /\ tasks \in [Process -> SUBSET Task]
  /\ chat_tasks \in [Process -> [Chat -> SUBSET Task]]
  /\ stop \in [Request -> Stop]
  /\ RunningIsListed
  /\ AnsweredStopIsOver

\* A task moves and the rest stays.
LEMMA RegistryMoves ==
  ASSUME RegistryInv, NEW t \in Task, NEW c,
         task' = [task EXCEPT ![t] = c], UNCHANGED <<saved, tasks, chat_tasks, stop>>,
         Wellformed(c), c.pc # "gone", Runs_(c) => Runs_(task[t]), task[t].outcome = "none"
  PROVE  RegistryInv'
<1>1. task'[t] = c /\ \A u \in Task \ {t} : task'[u] = task[u]
  BY DEF RegistryInv, TasksOK
<1>2. TasksOK'
  <2>1. c \in Record
    BY DEF Wellformed
  <2>2. task' \in [Task -> Record]
    BY <2>1 DEF RegistryInv, TasksOK
  <2>3. \A u \in Task : Wellformed(task'[u])
    BY <1>1 DEF RegistryInv, TasksOK
  <2> QED BY <2>2, <2>3 DEF TasksOK, Wellformed
<1>3. RunningIsListed'
  BY <1>1 DEF RegistryInv, RunningIsListed, Running, Runs_
<1>4. AnsweredStopIsOver'
  BY <1>1 DEF RegistryInv, AnsweredStopIsOver, Stop
<1> QED BY <1>2, <1>3, <1>4 DEF RegistryInv

LEMMA RegistryInit == Init => RegistryInv
<1> SUFFICES ASSUME Init PROVE RegistryInv
  OBVIOUS
<1>1. Wellformed(NotStarted)
  <2>1. NotStarted \in Record
    <3>1. Empty \in [Task -> Nat] /\ 0 \in Nat
      BY DEF Empty
    <3> QED BY <3>1, Zenon DEF NotStarted, Record
  <2> QED BY <2>1 DEF Wellformed, NotStarted, Saving
<1>2. TasksOK
  BY <1>1 DEF Init, TasksOK, Wellformed
<1>3. RunningIsListed
  BY DEF Init, RunningIsListed, Running, NotStarted, Awaiting, Saving
<1>4. AnsweredStopIsOver
  BY DEF Init, AnsweredStopIsOver
<1>5. stop \in [Request -> Stop]
  BY DEF Init, Stop
<1>6. /\ saved \in [Task -> Nat] /\ tasks \in [Process -> SUBSET Task]
      /\ chat_tasks \in [Process -> [Chat -> SUBSET Task]]
  BY DEF Init, Empty
<1> QED BY <1>2, <1>3, <1>4, <1>5, <1>6 DEF RegistryInv

\* The facts about the four steps of a task that are not turns.
LEMMA StartMoves ==
  ASSUME TasksOK, NEW t \in Task, Start(t)
  PROVE  \E c : /\ Goes(t, c) /\ Wellformed(c) /\ c.pc = "read" /\ c.next = "create"
                /\ c.cancel = task[t].cancel /\ c.failed = task[t].failed
                /\ c.told = task[t].told
                /\ task[t].pc = "none" /\ task[t].outcome = "none" /\ Free(ProcessOf[t])
<1> DEFINE c == [task[t] EXCEPT !.pc = "read", !.next = "create", !.put = FALSE]
<1>1. /\ Goes(t, c) /\ task[t].pc = "none" /\ Free(ProcessOf[t])
      /\ Wellformed(task[t]) /\ task[t] \in Record /\ task[t].outcome = "none"
  BY DEF Start, Save, TasksOK, Wellformed
<1>2. c \in Record
  BY <1>1, Zenon DEF Record, Saving, Awaiting
<1>3. /\ c.pc = "read" /\ c.next = "create" /\ c.cancel = task[t].cancel
      /\ c.failed = task[t].failed
      /\ c.outcome = "none" /\ c.told = task[t].told
  BY <1>1 DEF Record
<1> HIDE DEF c
<1>4. Wellformed(c)
  BY <1>2, <1>3 DEF Wellformed, Saving
<1> QED BY <1>1, <1>3, <1>4

LEMMA ReadMoves ==
  ASSUME TasksOK, saved \in [Task -> Nat], NEW t \in Task, ReadChat(t)
  PROVE  \E c : /\ Goes(t, c) /\ Wellformed(c) /\ c.pc = "write" /\ c.next = task[t].next
                /\ c.cancel = task[t].cancel /\ c.failed = task[t].failed /\ c.put = task[t].put
                /\ c.content = task[t].content /\ c.view = saved
                /\ c.told = task[t].told
                /\ task[t].pc = "read" /\ task[t].outcome = "none"
<1> DEFINE c == [task[t] EXCEPT !.pc = "write", !.view = saved]
<1>1. /\ Goes(t, c) /\ task[t].pc = "read"
      /\ Wellformed(task[t]) /\ task[t] \in Record /\ task[t].outcome = "none"
  BY DEF ReadChat, TasksOK, Wellformed
<1>2. c \in Record
  BY <1>1, Zenon DEF Record, Saving
<1>3. /\ c.pc = "write" /\ c.next = task[t].next /\ c.cancel = task[t].cancel
      /\ c.failed = task[t].failed
      /\ c.put = task[t].put /\ c.content = task[t].content /\ c.view = saved
      /\ c.outcome = "none" /\ c.told = task[t].told
  BY <1>1 DEF Record
<1> HIDE DEF c
<1>4. Wellformed(c)
  BY <1>1, <1>2, <1>3 DEF Wellformed, Saving
<1> QED BY <1>1, <1>3, <1>4

LEMMA DeliverMoves ==
  ASSUME TasksOK, NEW t \in Task, Deliver(t)
  PROVE  \E c : /\ Goes(t, c) /\ Wellformed(c) /\ ~c.cancel /\ c.failed = task[t].failed
                /\ c.content = task[t].content
                /\ task[t].pc \in Awaiting /\ task[t].cancel /\ task[t].outcome = "none"
                /\ task[t].next = "none"
                /\ \/ c.pc = "cancelled" /\ task[t].pc \notin {"cancelled", "after"}
                   \/ c.pc = "ended" /\ task[t].pc \in {"cancelled", "after"}
                /\ c.next = "none" /\ c.told = task[t].told
<1> DEFINE c == [task[t] EXCEPT !.cancel = FALSE]
           d == [c EXCEPT !.pc = "cancelled"]
           e == [c EXCEPT !.pc = "ended", !.outcome = "cancelled"]
<1>1. /\ task[t].pc \in Awaiting /\ task[t].cancel
      /\ Wellformed(task[t]) /\ task[t] \in Record
      /\ task[t].outcome = "none" /\ task[t].next = "none"
  BY AwaitingRecord DEF Deliver
<1>2. c.pc = task[t].pc
  BY <1>1 DEF Record
<1>3. Goes(t, IF Caught(task[t].pc) THEN d ELSE e)
  BY <1>2 DEF Deliver
<1>4. d \in Record /\ e \in Record
  <2>1. d \in Record  BY <1>1, Zenon DEF Record, Awaiting
  <2>2. e \in Record  BY <1>1, Zenon DEF Record, Awaiting
  <2> QED BY <2>1, <2>2
<1>5. /\ d.pc = "cancelled" /\ d.next = "none" /\ ~d.cancel /\ d.outcome = "none"
      /\ d.content = task[t].content
      /\ e.pc = "ended" /\ e.next = "none" /\ ~e.cancel /\ e.outcome = "cancelled"
      /\ e.content = task[t].content
      /\ d.told = task[t].told /\ e.told = task[t].told
      /\ d.failed = task[t].failed /\ e.failed = task[t].failed
  BY <1>1 DEF Record
<1> HIDE DEF c, d, e
<1>6. Wellformed(d) /\ Wellformed(e)
  BY <1>4, <1>5 DEF Wellformed, Saving
<1>7. CASE Caught(task[t].pc)
  <2>1. task[t].pc \notin {"cancelled", "after"} /\ Goes(t, d)
    BY <1>3, <1>7 DEF Caught
  <2> QED BY <1>1, <1>5, <1>6, <2>1
<1>8. CASE ~Caught(task[t].pc)
  <2>1. task[t].pc \in {"cancelled", "after"} /\ Goes(t, e)
    BY <1>1, <1>3, <1>8 DEF Caught
  <2> QED BY <1>1, <1>5, <1>6, <2>1
<1> QED BY <1>7, <1>8

LEMMA WriteMoves ==
  ASSUME TasksOK, NEW t \in Task, WriteChat(t)
  PROVE  \E c : /\ task' = [task EXCEPT ![t] = c] /\ Wellformed(c)
                /\ c.pc = task[t].next /\ c.next = "none" /\ c.cancel = task[t].cancel
                /\ c.failed = (task[t].failed /\ ~task[t].put)
                /\ c.content = task[t].content /\ c.told = task[t].told
                /\ task[t].pc = "write" /\ task[t].outcome = "none"
                /\ task[t].next \in {"create", "stream", "done", "after"}
<1> DEFINE fails == task[t].failed /\ ~task[t].put
           c == [task[t] EXCEPT !.pc = task[t].next, !.next = "none", !.view = Empty,
                                !.put = FALSE, !.failed = fails]
<1>1. /\ task' = [task EXCEPT ![t] = c] /\ task[t].pc = "write"
      /\ Wellformed(task[t]) /\ task[t] \in Record /\ task[t].outcome = "none"
      /\ task[t].next \in {"create", "stream", "done", "after"}
  BY DEF WriteChat, TasksOK, Wellformed, Saving
<1>2. /\ Empty \in [Task -> Nat] /\ task[t].next \in {"create"} \cup Awaiting
      /\ fails \in BOOLEAN
  BY <1>1 DEF Empty, Awaiting
<1> HIDE DEF fails
<1>3. c \in Record
  BY <1>1, <1>2, Zenon DEF Record
<1>4. /\ c.pc = task[t].next /\ c.next = "none" /\ c.cancel = task[t].cancel
      /\ c.failed = fails /\ c.content = task[t].content /\ c.outcome = "none"
      /\ c.told = task[t].told
  BY <1>1 DEF Record
<1> HIDE DEF c
<1>5. Wellformed(c)
  BY <1>1, <1>3, <1>4 DEF Wellformed, Saving
<1> QED BY <1>1, <1>4, <1>5 DEF fails

LEMMA FailMoves ==
  ASSUME TasksOK, NEW t \in Task, SaveFails(t)
  PROVE  \E c : /\ Goes(t, c) /\ Wellformed(c)
                /\ c.pc = task[t].next /\ c.next = "none" /\ c.cancel = task[t].cancel
                /\ c.failed = (task[t].failed \/ task[t].put)
                /\ c.content = task[t].content /\ c.told = task[t].told
                /\ task[t].pc \in Saving /\ task[t].outcome = "none"
                /\ task[t].next \in {"create", "stream", "done", "after"}
<1> DEFINE fails == task[t].failed \/ task[t].put
           c == [task[t] EXCEPT !.pc = task[t].next, !.next = "none", !.view = Empty,
                                !.put = FALSE, !.failed = fails]
<1>1. /\ Goes(t, c) /\ task[t].pc \in Saving
      /\ Wellformed(task[t]) /\ task[t] \in Record /\ task[t].outcome = "none"
      /\ task[t].next \in {"create", "stream", "done", "after"}
  BY DEF SaveFails, TasksOK, Wellformed, Saving
<1>2. /\ Empty \in [Task -> Nat] /\ task[t].next \in {"create"} \cup Awaiting
      /\ fails \in BOOLEAN
  BY <1>1 DEF Empty, Awaiting
<1> HIDE DEF fails
<1>3. c \in Record
  BY <1>1, <1>2, Zenon DEF Record
<1>4. /\ c.pc = task[t].next /\ c.next = "none" /\ c.cancel = task[t].cancel
      /\ c.failed = fails /\ c.content = task[t].content /\ c.outcome = "none"
      /\ c.told = task[t].told
  BY <1>1 DEF Record
<1> HIDE DEF c
<1>5. Wellformed(c)
  BY <1>1, <1>3, <1>4 DEF Wellformed, Saving
<1> QED BY <1>1, <1>4, <1>5 DEF fails

LEMMA CreateMoves ==
  ASSUME TasksOK, NEW t \in Task, CreateTask(t)
  PROVE  \E c : /\ task' = [task EXCEPT ![t] = c] /\ Wellformed(c)
                /\ c.pc = "stream" /\ c.next = "none" /\ c.cancel = task[t].cancel
                /\ c.failed = task[t].failed
                /\ c.told = task[t].told
                /\ task[t].pc = "create" /\ task[t].outcome = "none"
<1> DEFINE c == [task[t] EXCEPT !.pc = "stream"]
<1>1. /\ task' = [task EXCEPT ![t] = c] /\ task[t].pc = "create"
      /\ Wellformed(task[t]) /\ task[t] \in Record /\ task[t].outcome = "none"
      /\ task[t].next = "none"
  BY DEF CreateTask, TasksOK, Wellformed, Saving
<1>2. c \in Record
  BY <1>1, Zenon DEF Record, Awaiting
<1>3. /\ c.pc = "stream" /\ c.next = "none" /\ c.cancel = task[t].cancel
      /\ c.failed = task[t].failed
      /\ c.outcome = "none" /\ c.told = task[t].told
  BY <1>1 DEF Record
<1> HIDE DEF c
<1>4. Wellformed(c)
  BY <1>2, <1>3 DEF Wellformed, Saving
<1> QED BY <1>1, <1>3, <1>4

LEMMA CleanupMoves ==
  ASSUME TasksOK, NEW t \in Task, CleanupTask(t)
  PROVE  \E c : /\ task' = [task EXCEPT ![t] = c] /\ Wellformed(c)
                /\ c.pc = "gone" /\ c.next = "none" /\ c.cancel = task[t].cancel
                /\ c.failed = task[t].failed
                /\ c.content = task[t].content /\ c.outcome = task[t].outcome
                /\ c.told = task[t].told
                /\ task[t].pc = "ended" /\ task[t].outcome # "none"
<1> DEFINE c == [task[t] EXCEPT !.pc = "gone"]
<1>1. /\ task' = [task EXCEPT ![t] = c] /\ task[t].pc = "ended"
      /\ Wellformed(task[t]) /\ task[t] \in Record /\ task[t].outcome # "none"
      /\ task[t].next = "none"
  BY DEF CleanupTask, TasksOK, Wellformed, Saving
<1>2. c \in Record
  BY <1>1, Zenon DEF Record
<1>3. /\ c.pc = "gone" /\ c.next = "none" /\ c.cancel = task[t].cancel
      /\ c.failed = task[t].failed
      /\ c.content = task[t].content /\ c.outcome = task[t].outcome
      /\ c.told = task[t].told
  BY <1>1 DEF Record
<1> HIDE DEF c
<1>4. Wellformed(c)
  BY <1>1, <1>2, <1>3 DEF Wellformed, Saving
<1> QED BY <1>1, <1>3, <1>4

LEMMA TypedTasks ==
  ASSUME TasksOK, NEW t \in Task, NEW c, Wellformed(c), task' = [task EXCEPT ![t] = c]
  PROVE  TasksOK' /\ c \in Record /\ task'[t] = c /\ \A u \in Task \ {t} : task'[u] = task[u]
<1>1. task'[t] = c /\ \A u \in Task \ {t} : task'[u] = task[u]
  BY DEF TasksOK
<1>2. c \in Record
  BY DEF Wellformed
<1>3. task' \in [Task -> Record]
  BY <1>2 DEF TasksOK
<1>4. \A u \in Task : Wellformed(task'[u])
  BY <1>1 DEF TasksOK
<1> QED BY <1>1, <1>2, <1>3, <1>4 DEF TasksOK, Wellformed

LEMMA WriteRegistry == ASSUME RegistryInv, NEW t \in Task, WriteChat(t) PROVE RegistryInv'
<1>1. PICK c : /\ task' = [task EXCEPT ![t] = c] /\ Wellformed(c)
               /\ c.pc = task[t].next /\ c.next = "none"
               /\ task[t].pc = "write" /\ task[t].outcome = "none"
               /\ task[t].next \in {"create", "stream", "done", "after"}
  BY WriteMoves DEF RegistryInv
<1>2. TasksOK' /\ task'[t] = c /\ \A u \in Task \ {t} : task'[u] = task[u]
  BY <1>1, TypedTasks DEF RegistryInv
<1>3. saved' \in [Task -> Nat]
  <2>1. task[t].content \in Nat /\ task[t].view \in [Task -> Nat] /\ saved \in [Task -> Nat]
    BY DEF RegistryInv, TasksOK, Record
  <2> QED BY <2>1 DEF WriteChat
<1>4. UNCHANGED <<tasks, chat_tasks, stop>>
  BY DEF WriteChat
<1>5. RunningIsListed'
  BY <1>1, <1>2, <1>4 DEF RegistryInv, RunningIsListed, Running, Awaiting, Saving
<1>6. AnsweredStopIsOver'
  BY <1>1, <1>2, <1>4 DEF RegistryInv, AnsweredStopIsOver, Stop
<1> QED BY <1>2, <1>3, <1>4, <1>5, <1>6 DEF RegistryInv

LEMMA CreateRegistry == ASSUME RegistryInv, NEW t \in Task, CreateTask(t) PROVE RegistryInv'
<1>1. PICK c : /\ task' = [task EXCEPT ![t] = c] /\ Wellformed(c)
               /\ c.pc = "stream" /\ c.next = "none"
               /\ task[t].pc = "create" /\ task[t].outcome = "none"
  BY CreateMoves DEF RegistryInv
<1>2. TasksOK' /\ task'[t] = c /\ \A u \in Task \ {t} : task'[u] = task[u]
  BY <1>1, TypedTasks DEF RegistryInv
<1> DEFINE p == ProcessOf[t]
           ch == ChatOf[t]
<1>3. p \in Process /\ ch \in Chat
  BY ConstantsAssumption
<1>4. /\ tasks' = [tasks EXCEPT ![p] = @ \cup {t}]
      /\ chat_tasks' = [chat_tasks EXCEPT ![p] = [chat_tasks[p] EXCEPT ![ch] = @ \cup {t}]]
      /\ UNCHANGED <<saved, stop>>
  BY DEF CreateTask
<1>5. /\ tasks' \in [Process -> SUBSET Task]
      /\ chat_tasks' \in [Process -> [Chat -> SUBSET Task]]
  BY <1>3, <1>4 DEF RegistryInv
<1>6. t \in tasks'[p] /\ t \in chat_tasks'[p][ch]
  BY <1>3, <1>4 DEF RegistryInv
<1>7. \A q \in Process, d \in Chat, u \in Task \ {t} :
        /\ u \in tasks'[q] <=> u \in tasks[q]
        /\ u \in chat_tasks'[q][d] <=> u \in chat_tasks[q][d]
  BY <1>3, <1>4 DEF RegistryInv
<1>8. \A u \in Task : ProcessOf[u] \in Process /\ ChatOf[u] \in Chat
  BY ConstantsAssumption
<1> HIDE DEF p, ch
<1>9. RunningIsListed'
  <2> SUFFICES ASSUME NEW u \in Task
               PROVE  /\ Running(u)' => /\ u \in tasks'[ProcessOf[u]]
                                        /\ u \in chat_tasks'[ProcessOf[u]][ChatOf[u]]
                      /\ task'[u].pc = "gone" => /\ u \notin tasks'[ProcessOf[u]]
                                                 /\ u \notin chat_tasks'[ProcessOf[u]][ChatOf[u]]
    BY DEF RunningIsListed
  <2>1. CASE u = t
    BY <1>1, <1>2, <1>6, <2>1 DEF p, ch
  <2>2. CASE u # t
    BY <1>2, <1>7, <1>8, <2>2 DEF RegistryInv, RunningIsListed, Running
  <2> QED BY <2>1, <2>2
<1>10. AnsweredStopIsOver'
  BY <1>1, <1>2, <1>4 DEF RegistryInv, AnsweredStopIsOver, Stop
<1> QED BY <1>2, <1>4, <1>5, <1>9, <1>10 DEF RegistryInv

LEMMA CleanupRegistry == ASSUME RegistryInv, NEW t \in Task, CleanupTask(t) PROVE RegistryInv'
<1>1. PICK c : /\ task' = [task EXCEPT ![t] = c] /\ Wellformed(c)
               /\ c.pc = "gone" /\ c.next = "none" /\ c.outcome = task[t].outcome
               /\ task[t].pc = "ended" /\ task[t].outcome # "none"
  BY CleanupMoves DEF RegistryInv
<1>2. TasksOK' /\ task'[t] = c /\ \A u \in Task \ {t} : task'[u] = task[u]
  BY <1>1, TypedTasks DEF RegistryInv
<1> DEFINE p == ProcessOf[t]
           ch == ChatOf[t]
<1>3. p \in Process /\ ch \in Chat
  BY ConstantsAssumption
<1>4. /\ tasks' = [tasks EXCEPT ![p] = @ \ {t}]
      /\ chat_tasks' = [chat_tasks EXCEPT ![p] = [chat_tasks[p] EXCEPT ![ch] = @ \ {t}]]
      /\ UNCHANGED <<saved, stop>>
  BY DEF CleanupTask
<1>5. /\ tasks' \in [Process -> SUBSET Task]
      /\ chat_tasks' \in [Process -> [Chat -> SUBSET Task]]
  BY <1>3, <1>4 DEF RegistryInv
<1>6. t \notin tasks'[p] /\ t \notin chat_tasks'[p][ch]
  BY <1>3, <1>4 DEF RegistryInv
<1>7. \A q \in Process, d \in Chat, u \in Task \ {t} :
        /\ u \in tasks'[q] <=> u \in tasks[q]
        /\ u \in chat_tasks'[q][d] <=> u \in chat_tasks[q][d]
  BY <1>3, <1>4 DEF RegistryInv
<1>8. \A u \in Task : ProcessOf[u] \in Process /\ ChatOf[u] \in Chat
  BY ConstantsAssumption
<1> HIDE DEF p, ch
<1>9. RunningIsListed'
  <2> SUFFICES ASSUME NEW u \in Task
               PROVE  /\ Running(u)' => /\ u \in tasks'[ProcessOf[u]]
                                        /\ u \in chat_tasks'[ProcessOf[u]][ChatOf[u]]
                      /\ task'[u].pc = "gone" => /\ u \notin tasks'[ProcessOf[u]]
                                                 /\ u \notin chat_tasks'[ProcessOf[u]][ChatOf[u]]
    BY DEF RunningIsListed
  <2>1. CASE u = t
    BY <1>1, <1>2, <1>6, <2>1 DEF p, ch, Running, Awaiting, Saving
  <2>2. CASE u # t
    BY <1>2, <1>7, <1>8, <2>2 DEF RegistryInv, RunningIsListed, Running
  <2> QED BY <2>1, <2>2
<1>10. AnsweredStopIsOver'
  BY <1>1, <1>2, <1>4 DEF RegistryInv, AnsweredStopIsOver, Stop
<1> QED BY <1>2, <1>4, <1>5, <1>9, <1>10 DEF RegistryInv

\* A request is answered about a task that is over.
LEMMA AnswersRegistry ==
  ASSUME RegistryInv, NEW r \in Request, NEW p \in Process, NEW t \in Task,
         task[t].outcome # "none", Answers(r, p, t)
  PROVE  RegistryInv'
<1> DEFINE a == [pc |-> "answered", task |-> t, answer |-> AnswerOf(t)]
<1>1. task[t] \in Record /\ task[t].pc \in {"ended", "gone"}
  BY DEF RegistryInv, TasksOK, Wellformed
<1>2. AnswerOf(t) \in {"stopped", "failed", "error"}
  BY <1>1 DEF AnswerOf, Record
<1>3. a \in Stop
  BY <1>2 DEF Stop
<1>4. /\ stop' = [stop EXCEPT ![r] = a] /\ UNCHANGED <<task, saved, chat_tasks>>
      /\ tasks' = [tasks EXCEPT ![p] = @ \ {t}] \/ tasks' = tasks
  BY DEF Answers
<1>5. a.pc = "answered" /\ a.task = t
  OBVIOUS
<1> HIDE DEF a
<1>6. stop' \in [Request -> Stop] /\ stop'[r] = a /\ \A q \in Request \ {r} : stop'[q] = stop[q]
  BY <1>3, <1>4 DEF RegistryInv
<1>7. tasks' \in [Process -> SUBSET Task]
  BY <1>4 DEF RegistryInv
<1>8. \A u \in Task, q \in Process :
        /\ u # t => (u \in tasks'[q] <=> u \in tasks[q])
        /\ u \in tasks'[q] => u \in tasks[q]
  BY <1>4 DEF RegistryInv
<1>9. RunningIsListed'
  BY <1>1, <1>4, <1>8, ConstantsAssumption
     DEF RegistryInv, RunningIsListed, Running, Awaiting, Saving
<1>10. AnsweredStopIsOver'
  BY <1>4, <1>5, <1>6 DEF RegistryInv, AnsweredStopIsOver
<1> QED BY <1>4, <1>6, <1>7, <1>9, <1>10 DEF RegistryInv, TasksOK, Wellformed

\* A stop: nobody's state changes, or the task is marked and awaited.
LEMMA StopMoves ==
  ASSUME TasksOK, NEW r \in Request, NEW p \in Process, NEW t \in Task,
         task' = [task EXCEPT ![t].cancel = TRUE]
  PROVE  \E c : /\ task' = [task EXCEPT ![t] = c] /\ Wellformed(c) /\ c.cancel
                /\ c.pc = task[t].pc /\ c.next = task[t].next /\ c.put = task[t].put
                /\ c.content = task[t].content /\ c.outcome = task[t].outcome
                /\ c.view = task[t].view /\ c.told = task[t].told /\ c.failed = task[t].failed
<1> DEFINE c == [task[t] EXCEPT !.cancel = TRUE]
<1>1. /\ task' = [task EXCEPT ![t] = c] /\ Wellformed(task[t]) /\ task[t] \in Record
  BY DEF TasksOK
<1>2. c \in Record
  BY <1>1, Zenon DEF Record
<1>3. /\ c.cancel /\ c.pc = task[t].pc /\ c.next = task[t].next /\ c.put = task[t].put
      /\ c.content = task[t].content /\ c.outcome = task[t].outcome
      /\ c.view = task[t].view /\ c.phase = task[t].phase /\ c.told = task[t].told
      /\ c.failed = task[t].failed
  BY <1>1 DEF Record
<1> HIDE DEF c
<1>4. Wellformed(c)
  BY <1>1, <1>2, <1>3 DEF Wellformed
<1> QED BY <1>1, <1>3, <1>4

LEMMA StopRegistry ==
  ASSUME RegistryInv, NEW r \in Request, NEW p \in Process, NEW t \in Task, StopTask(r, p, t)
  PROVE  RegistryInv'
<1> USE DEF RegistryInv
<1>1. CASE t \notin tasks[p]
  <2> DEFINE a == [pc |-> "answered", task |-> t, answer |-> "not_found"]
  <2>1. stop' = [stop EXCEPT ![r] = a] /\ UNCHANGED <<task, saved, tasks, chat_tasks>>
    BY <1>1 DEF StopTask
  <2>2. a \in Stop /\ a.answer = "not_found"
    BY DEF Stop
  <2> HIDE DEF a
  <2>3. stop' \in [Request -> Stop] /\ stop'[r] = a
                                    /\ \A q \in Request \ {r} : stop'[q] = stop[q]
    BY <2>1, <2>2
  <2>4. RunningIsListed' /\ TasksOK'
    BY <2>1 DEF RunningIsListed, Running, TasksOK, Wellformed
  <2>5. AnsweredStopIsOver'
    BY <2>1, <2>2, <2>3 DEF AnsweredStopIsOver
  <2> QED BY <2>1, <2>3, <2>4, <2>5
<1>2. CASE t \in tasks[p] /\ task[t].outcome = "none"
  <2> DEFINE a == [pc |-> "waiting", task |-> t, answer |-> "none"]
  <2>1. /\ stop' = [stop EXCEPT ![r] = a] /\ UNCHANGED <<saved, tasks, chat_tasks>>
        /\ task' = [task EXCEPT ![t].cancel = TRUE]
    BY <1>2 DEF StopTask
  <2>2. a \in Stop /\ a.pc = "waiting"
    BY DEF Stop
  <2> HIDE DEF a
  <2>3. stop' \in [Request -> Stop] /\ stop'[r] = a
                                    /\ \A q \in Request \ {r} : stop'[q] = stop[q]
    BY <2>1, <2>2
  <2>4. PICK c : /\ task' = [task EXCEPT ![t] = c] /\ Wellformed(c)
                 /\ c.pc = task[t].pc /\ c.next = task[t].next
                 /\ c.outcome = task[t].outcome
    BY <2>1, StopMoves
  <2>5. TasksOK' /\ task'[t] = c /\ \A u \in Task \ {t} : task'[u] = task[u]
    BY <2>4, TypedTasks
  <2>6. RunningIsListed'
    BY <2>1, <2>4, <2>5 DEF RunningIsListed, Running
  <2>7. AnsweredStopIsOver'
    BY <2>2, <2>3, <2>4, <2>5 DEF AnsweredStopIsOver, Stop
  <2> QED BY <2>1, <2>3, <2>5, <2>6, <2>7
<1>3. CASE t \in tasks[p] /\ task[t].outcome # "none"
  <2>1. Answers(r, p, t)
    BY <1>3 DEF StopTask
  <2> QED BY <1>3, <2>1, AnswersRegistry
<1> QED BY <1>1, <1>2, <1>3

LEMMA AnswerRegistry == ASSUME RegistryInv, NEW r \in Request, AnswerStop(r) PROVE RegistryInv'
<1> DEFINE t == stop[r].task
<1>1. stop[r] \in Stop /\ stop[r].pc = "waiting"
  BY DEF AnswerStop, RegistryInv
<1>2. t \in Task
  BY <1>1 DEF Stop
<1>3. task[t].pc = "gone" /\ Answers(r, ProcessOf[t], t)
  BY DEF AnswerStop
<1>4. task[t].outcome # "none" /\ ProcessOf[t] \in Process
  BY <1>2, <1>3, ConstantsAssumption DEF RegistryInv, TasksOK, Wellformed
<1> QED BY <1>2, <1>3, <1>4, AnswersRegistry

LEMMA RegistryNext == RegistryInv /\ [Next]_vars => RegistryInv'
<1> SUFFICES ASSUME RegistryInv, [Next]_vars PROVE RegistryInv'
  OBVIOUS
<1>1. ASSUME NEW t \in Task, Turn(t) PROVE RegistryInv'
  <2>1. Turned(t)
    BY <1>1, TurnTurns DEF RegistryInv
  <2>2. PICK c : c = task'[t]
    OBVIOUS
  <2>3. /\ task' = [task EXCEPT ![t] = c] /\ UNCHANGED <<saved, tasks, chat_tasks, stop>>
        /\ Wellformed(c) /\ c.pc # "gone"
    BY <2>1, <2>2 DEF Turned, Onward, Awaiting, Saving, Runs_
  <2>4. Runs_(task[t]) /\ task[t].outcome = "none"
    BY <2>1, AwaitingRecord DEF Turned, Runs_, RegistryInv
  <2> QED BY <2>3, <2>4, RegistryMoves
<1>2. ASSUME NEW t \in Task, Start(t) PROVE RegistryInv'
  <2>1. PICK c : /\ Goes(t, c) /\ Wellformed(c) /\ c.pc = "read" /\ c.next = "create"
                 /\ task[t].outcome = "none"
    BY <1>2, StartMoves DEF RegistryInv
  <2> QED BY <2>1, RegistryMoves DEF Goes, Runs_
<1>3. ASSUME NEW t \in Task, ReadChat(t) PROVE RegistryInv'
  <2>1. PICK c : /\ Goes(t, c) /\ Wellformed(c) /\ c.pc = "write" /\ c.next = task[t].next
                 /\ task[t].pc = "read" /\ task[t].outcome = "none"
    BY <1>3, ReadMoves DEF RegistryInv
  <2> QED BY <2>1, RegistryMoves DEF Goes, Runs_, Saving
<1>4. ASSUME NEW t \in Task, Deliver(t) PROVE RegistryInv'
  <2>1. PICK c : /\ Goes(t, c) /\ Wellformed(c) /\ c.pc \in {"cancelled", "ended"}
                 /\ task[t].pc \in Awaiting /\ task[t].outcome = "none"
                 /\ task[t].next = "none"
    BY <1>4, DeliverMoves DEF RegistryInv
  <2> QED BY <2>1, RegistryMoves DEF Goes, Runs_
<1>7. ASSUME NEW t \in Task, SaveFails(t) PROVE RegistryInv'
  <2>1. PICK c : /\ Goes(t, c) /\ Wellformed(c) /\ c.pc = task[t].next
                 /\ task[t].pc \in Saving /\ task[t].outcome = "none"
                 /\ task[t].next \in {"create", "stream", "done", "after"}
    BY <1>7, FailMoves DEF RegistryInv
  <2>2. c.pc # "gone" /\ (Runs_(c) => Runs_(task[t]))
    BY <2>1 DEF Runs_, Awaiting, Saving
  <2> QED BY <2>1, <2>2, RegistryMoves DEF Goes
<1>5. CASE UNCHANGED vars
  <2>1. TasksOK' /\ RunningIsListed' /\ AnsweredStopIsOver'
    BY <1>5 DEF vars, RegistryInv, TasksOK, Wellformed, RunningIsListed, Running, AnsweredStopIsOver
  <2> QED BY <1>5, <2>1 DEF vars, RegistryInv
<1>6. CASE Next
  BY <1>1, <1>2, <1>3, <1>4, <1>6, <1>7, WriteRegistry, CreateRegistry, CleanupRegistry, StopRegistry,
     AnswerRegistry DEF Next, OwnStep, Turn
<1> QED BY <1>5, <1>6

LEMMA RegistryAlways == Spec => []RegistryInv
BY RegistryInit, RegistryNext, PTL DEF Spec

\* The state is well formed, whatever the constants.
THEOREM WellTyped == Spec => []TypeOK
<1>1. RegistryInv => TypeOK
  BY DEF RegistryInv, TasksOK, Wellformed, TypeOK
<1> QED BY <1>1, RegistryAlways, PTL

\* What runs is in both dictionaries of its process, what is over in neither.
THEOREM RunningTasksAreListed == Spec => []RunningIsListed
<1>1. RegistryInv => RunningIsListed
  BY DEF RegistryInv
<1> QED BY <1>1, RegistryAlways, PTL

\* An answer to a stop, other than "not found", comes after the task is over.
THEOREM AnsweredStopsAreOver == Spec => []AnsweredStopIsOver
<1>1. RegistryInv => AnsweredStopIsOver
  BY DEF RegistryInv
<1> QED BY <1>1, RegistryAlways, PTL

\* A stop that reaches the process of a running task finds it.
THEOREM StopsAtHomeFind ==
  (\A p, q \in Process : p = q) => (Spec => StopFindsRunning)
<1> SUFFICES ASSUME \A p, q \in Process : p = q PROVE Spec => StopFindsRunning
  OBVIOUS
<1>1. ASSUME RegistryInv, Next, NEW r \in Request,
             stop[r].pc = "idle", stop'[r].pc = "answered"
      PROVE  ~Running(stop'[r].task)
  <2>1. stop' # stop
    BY <1>1
  <2>2. ASSUME NEW t \in Task, Turn(t) \/ Start(t) \/ ReadChat(t) \/ Deliver(t) \/ SaveFails(t)
                               \/ WriteChat(t) \/ CreateTask(t) \/ CleanupTask(t)
        PROVE  stop' = stop
    BY <1>1, <2>2, TurnTurns DEF Turned, Start, ReadChat, SaveFails, Deliver, Goes, WriteChat,
       CreateTask, CleanupTask, RegistryInv
  <2>3. \/ \E q \in Request : AnswerStop(q)
        \/ \E q \in Request, p \in Process, t \in Task : StopTask(q, p, t)
    BY <1>1, <2>1, <2>2 DEF Next, OwnStep, Turn
  <2>4. ASSUME NEW q \in Request, AnswerStop(q) PROVE FALSE
    <3>1. stop[q].pc = "waiting" /\ \A o \in Request \ {q} : stop'[o] = stop[o]
      BY <1>1, <2>4 DEF AnswerStop, Answers, RegistryInv
    <3> QED BY <1>1, <3>1
  <2>5. ASSUME NEW q \in Request, NEW p \in Process, NEW t \in Task, StopTask(q, p, t)
        PROVE  ~Running(stop'[r].task)
    <3>1. /\ \A o \in Request \ {q} : stop'[o] = stop[o]
          /\ stop'[q].task = t
          /\ stop'[q].pc = "answered" => t \notin tasks[p] \/ task[t].outcome # "none"
      BY <1>1, <2>5 DEF StopTask, Answers, RegistryInv
    <3>2. r = q
      BY <1>1, <3>1
    <3>3. p = ProcessOf[t]
      BY ConstantsAssumption
    <3>4. CASE t \notin tasks[p]
      BY <1>1, <3>1, <3>2, <3>3, <3>4 DEF RegistryInv, RunningIsListed
    <3>5. CASE task[t].outcome # "none"
      BY <1>1, <3>1, <3>2, <3>5 DEF RegistryInv, TasksOK, Wellformed, Running, Awaiting, Saving
    <3> QED BY <1>1, <3>1, <3>2, <3>4, <3>5
  <2> QED BY <2>3, <2>4, <2>5
<1>2. RegistryInv /\ [Next]_vars =>
        [\A r \in Request : stop[r].pc = "idle" /\ stop'[r].pc = "answered"
           => ~Running(stop'[r].task)]_vars
  BY <1>1
<1> QED BY <1>2, RegistryAlways, PTL DEF Spec, StopFindsRunning

----------------------------------------------------------------------------
(* What a step does to the record of a task *)

Kept(b, c) == c.content = b.content /\ c.told = b.told

\* A task goes on, and the database and the requests stay.
Advances(t, c) ==
  LET b == task[t] IN
  \/ /\ Free(ProcessOf[t]) /\ b.pc \in Awaiting /\ ~b.cancel
     /\ Onward(b, c) /\ Course(b, c) /\ (SavesLast => SavesFirst(b, c))
  \/ /\ Free(ProcessOf[t]) /\ b.pc = "none" /\ c.pc = "read" /\ c.next = "create"
     /\ c.cancel = b.cancel /\ c.failed = b.failed /\ c.told = b.told
  \/ /\ b.pc = "read" /\ c.pc = "write" /\ c.view = saved
     /\ c.next = b.next /\ c.put = b.put /\ c.cancel = b.cancel /\ c.failed = b.failed
     /\ Kept(b, c)
  \/ /\ b.pc = "create" /\ c.pc = "stream" /\ c.next = "none"
     /\ c.cancel = b.cancel /\ c.failed = b.failed /\ c.told = b.told
  \/ /\ b.pc = "ended" /\ c.pc = "gone" /\ c.next = "none" /\ c.outcome = b.outcome
     /\ c.cancel = b.cancel /\ c.failed = b.failed /\ Kept(b, c)
  \/ /\ b.pc \in Awaiting /\ b.cancel /\ ~c.cancel /\ c.failed = b.failed
     /\ c.next = "none" /\ Kept(b, c)
     /\ \/ c.pc = "cancelled" /\ b.pc \notin {"cancelled", "after"}
        \/ c.pc = "ended" /\ b.pc \in {"cancelled", "after"}
  \/ /\ b.pc \in Saving /\ b.next \in {"create", "stream", "done", "after"}
     /\ c.pc = b.next /\ c.next = "none" /\ c.cancel = b.cancel
     /\ c.failed = (b.failed \/ b.put) /\ Kept(b, c)

\* A task is asked to stop.
Marks(b, c) ==
  /\ c.pc = b.pc /\ c.next = b.next /\ c.put = b.put /\ c.view = b.view
  /\ c.cancel /\ c.failed = b.failed /\ c.outcome = b.outcome /\ Kept(b, c)

Others(t, c) == task'[t] = c /\ \A u \in Task \ {t} : task'[u] = task[u]

Asked(t) == \E r \in Request : stop[r].pc # "idle" /\ stop[r].task = t

\* The four kinds of steps.
Advance == \E t \in Task, c \in Record :
  Others(t, c) /\ Advances(t, c) /\ saved' = saved /\ stop' = stop
Write == \E t \in Task, c \in Record :
  /\ Others(t, c) /\ WriteChat(t) /\ c.pc = task[t].next /\ c.next = "none"
  /\ c.cancel = task[t].cancel /\ c.failed = (task[t].failed /\ ~task[t].put)
  /\ Kept(task[t], c)
  /\ task[t].pc = "write" /\ task[t].next \in {"create", "stream", "done", "after"}
Mark == \E r \in Request, t \in Task, c \in Record :
  /\ Others(t, c) /\ Marks(task[t], c) /\ saved' = saved
  /\ stop[r].pc = "idle" /\ stop'[r].pc # "idle" /\ stop'[r].task = t
  /\ \A q \in Request \ {r} : stop'[q] = stop[q]
Rest ==
  /\ task' = task /\ saved' = saved
  /\ \A r \in Request : stop[r].pc # "idle" => stop'[r].pc # "idle" /\ stop'[r].task = stop[r].task

LEMMA StopKinds ==
  ASSUME RegistryInv, NEW r \in Request, NEW p \in Process, NEW t \in Task, StopTask(r, p, t)
  PROVE  Mark \/ Rest
<1>1. stop[r].pc = "idle" /\ \A q \in Request \ {r} : stop'[q] = stop[q]
  BY DEF StopTask, Answers, RegistryInv
<1>2. CASE task' = task /\ saved' = saved
  BY <1>1, <1>2 DEF Rest
<1>3. CASE task' = [task EXCEPT ![t].cancel = TRUE] /\ UNCHANGED saved
             /\ stop'[r].pc # "idle" /\ stop'[r].task = t
  <2>1. PICK c : /\ task' = [task EXCEPT ![t] = c] /\ Wellformed(c) /\ c.cancel
                 /\ c.pc = task[t].pc /\ c.next = task[t].next /\ c.put = task[t].put
                 /\ c.content = task[t].content /\ c.outcome = task[t].outcome
                 /\ c.view = task[t].view /\ c.told = task[t].told
                 /\ c.failed = task[t].failed
    BY <1>3, StopMoves DEF RegistryInv
  <2>2. Others(t, c) /\ Marks(task[t], c) /\ c \in Record
    BY <2>1, TypedTasks DEF RegistryInv, Others, Marks, Kept
  <2>3. saved' = saved
    BY <1>3
  <2> QED BY <1>1, <1>3, <2>2, <2>3, Zenon DEF Mark
<1>4. \/ task' = task /\ saved' = saved
      \/ task' = [task EXCEPT ![t].cancel = TRUE] /\ UNCHANGED saved
           /\ stop'[r].pc # "idle" /\ stop'[r].task = t
  BY DEF StopTask, Answers, RegistryInv
<1> QED BY <1>2, <1>3, <1>4

LEMMA StepKinds ==
  ASSUME RegistryInv, [Next]_vars
  PROVE  Advance \/ Write \/ Mark \/ Rest
<1>1. ASSUME NEW t \in Task, Turn(t) PROVE Advance
  <2>1. Turned(t)
    BY <1>1, TurnTurns DEF RegistryInv
  <2>2. PICK c : c = task'[t]
    OBVIOUS
  <2>3. Others(t, c) /\ c \in Record
    BY <2>1, <2>2, TypedTasks DEF Turned, Onward, RegistryInv, Others
  <2>4. Advances(t, c) /\ saved' = saved /\ stop' = stop
    BY <2>1, <2>2 DEF Turned, Advances
  <2> QED BY <2>3, <2>4 DEF Advance
<1>2. ASSUME NEW t \in Task, Start(t) PROVE Advance
  <2>1. PICK c : /\ Goes(t, c) /\ Wellformed(c) /\ c.pc = "read" /\ c.next = "create"
                 /\ c.cancel = task[t].cancel /\ c.failed = task[t].failed
                 /\ c.told = task[t].told
                 /\ task[t].pc = "none" /\ Free(ProcessOf[t])
    BY <1>2, StartMoves DEF RegistryInv
  <2> QED BY <2>1, TypedTasks DEF Goes, RegistryInv, Others, Advance, Advances
<1>3. ASSUME NEW t \in Task, ReadChat(t) PROVE Advance
  <2>1. PICK c : /\ Goes(t, c) /\ Wellformed(c) /\ c.pc = "write" /\ c.next = task[t].next
                 /\ c.cancel = task[t].cancel /\ c.failed = task[t].failed
                 /\ c.put = task[t].put /\ c.view = saved
                 /\ c.content = task[t].content /\ c.told = task[t].told
                 /\ task[t].pc = "read"
    BY <1>3, ReadMoves DEF RegistryInv
  <2> QED BY <2>1, TypedTasks DEF Goes, RegistryInv, Others, Advance, Advances, Kept
<1>4. ASSUME NEW t \in Task, Deliver(t) PROVE Advance
  <2>1. PICK c : /\ Goes(t, c) /\ Wellformed(c) /\ ~c.cancel /\ c.failed = task[t].failed
                 /\ c.content = task[t].content
                 /\ task[t].pc \in Awaiting /\ task[t].cancel
                 /\ \/ c.pc = "cancelled" /\ task[t].pc \notin {"cancelled", "after"}
                    \/ c.pc = "ended" /\ task[t].pc \in {"cancelled", "after"}
                 /\ c.next = "none" /\ c.told = task[t].told
    BY <1>4, DeliverMoves DEF RegistryInv
  <2>2. Others(t, c) /\ c \in Record /\ saved' = saved /\ stop' = stop
    BY <2>1, TypedTasks DEF Goes, RegistryInv, Others
  <2>3. Advances(t, c)
    BY <2>1 DEF Advances, Kept
  <2> QED BY <2>2, <2>3 DEF Advance
<1>5. ASSUME NEW t \in Task, CreateTask(t) PROVE Advance
  <2>1. PICK c : /\ task' = [task EXCEPT ![t] = c] /\ Wellformed(c)
                 /\ c.pc = "stream" /\ c.next = "none" /\ c.cancel = task[t].cancel
                 /\ c.failed = task[t].failed
                 /\ c.told = task[t].told /\ task[t].pc = "create"
    BY <1>5, CreateMoves DEF RegistryInv
  <2>2. saved' = saved /\ stop' = stop
    BY <1>5 DEF CreateTask
  <2> QED BY <2>1, <2>2, TypedTasks DEF RegistryInv, Others, Advance, Advances
<1>6. ASSUME NEW t \in Task, CleanupTask(t) PROVE Advance
  <2>1. PICK c : /\ task' = [task EXCEPT ![t] = c] /\ Wellformed(c)
                 /\ c.pc = "gone" /\ c.next = "none" /\ c.cancel = task[t].cancel
                 /\ c.failed = task[t].failed
                 /\ c.content = task[t].content /\ c.told = task[t].told
                 /\ c.outcome = task[t].outcome /\ task[t].pc = "ended"
    BY <1>6, CleanupMoves DEF RegistryInv
  <2>2. saved' = saved /\ stop' = stop
    BY <1>6 DEF CleanupTask
  <2> QED BY <2>1, <2>2, TypedTasks DEF RegistryInv, Others, Advance, Advances, Kept
<1>7. ASSUME NEW t \in Task, WriteChat(t) PROVE Write
  <2>1. PICK c : /\ task' = [task EXCEPT ![t] = c] /\ Wellformed(c)
                 /\ c.pc = task[t].next /\ c.next = "none"
                 /\ c.cancel = task[t].cancel /\ c.failed = (task[t].failed /\ ~task[t].put)
                 /\ c.content = task[t].content
                 /\ c.told = task[t].told /\ task[t].pc = "write"
                 /\ task[t].next \in {"create", "stream", "done", "after"}
    BY <1>7, WriteMoves DEF RegistryInv
  <2> QED BY <1>7, <2>1, TypedTasks DEF RegistryInv, Others, Write, Kept
<1>11. ASSUME NEW t \in Task, SaveFails(t) PROVE Advance
  <2>1. PICK c : /\ Goes(t, c) /\ Wellformed(c)
                 /\ c.pc = task[t].next /\ c.next = "none" /\ c.cancel = task[t].cancel
                 /\ c.failed = (task[t].failed \/ task[t].put)
                 /\ c.content = task[t].content /\ c.told = task[t].told
                 /\ task[t].pc \in Saving
                 /\ task[t].next \in {"create", "stream", "done", "after"}
    BY <1>11, FailMoves DEF RegistryInv
  <2>2. Others(t, c) /\ c \in Record /\ saved' = saved /\ stop' = stop
    BY <2>1, TypedTasks DEF Goes, RegistryInv, Others
  <2>3. Advances(t, c)
    BY <2>1 DEF Advances, Kept
  <2> QED BY <2>2, <2>3 DEF Advance
<1>8. ASSUME NEW r \in Request, AnswerStop(r) PROVE Rest
  <2>1. /\ stop' = [stop EXCEPT ![r] = [pc |-> "answered", task |-> stop[r].task,
                                        answer |-> AnswerOf(stop[r].task)]]
        /\ UNCHANGED <<task, saved>>
    BY <1>8 DEF AnswerStop, Answers
  <2> QED BY <2>1 DEF Rest, RegistryInv
<1>9. CASE UNCHANGED vars
  BY <1>9 DEF vars, Rest
<1>10. CASE Next
  BY <1>1, <1>2, <1>3, <1>4, <1>5, <1>6, <1>7, <1>8, <1>10, <1>11, StopKinds DEF Next, OwnStep, Turn
<1> QED BY <1>9, <1>10

----------------------------------------------------------------------------
(* Saves are alone *)

Busy(c) == c.pc \in Saving \cup {"create"}

\* The requests of a chat reach one process.
Sticky == \A t, u \in Task : ChatOf[t] = ChatOf[u] => ProcessOf[t] = ProcessOf[u]

\* At most one coroutine of a process is between two awaits, so what a save has
\* read is what is there.
LoneInv == \A t, u \in Task :
  ProcessOf[t] = ProcessOf[u] /\ Busy(task[t]) /\ Busy(task[u]) => t = u
ViewInv == \A t, u \in Task :
  task[t].pc = "write" /\ ChatOf[u] = ChatOf[t] => task[t].view[u] = saved[u]

SoleInv == LoneInv /\ ViewInv

\* The save that writes is the only one of its chat, so it changes its own
\* message and no other.
LEMMA SoleWrites ==
  ASSUME RegistryInv, SoleInv, NEW t \in Task, WriteChat(t)
  PROVE  /\ \A u \in Task \ {t} : saved'[u] = saved[u]
         /\ saved'[t] = IF task[t].put THEN task[t].content ELSE saved[t]
BY DEF WriteChat, RegistryInv, SoleInv, ViewInv

LEMMA SoleNext ==
  ASSUME Sticky
  PROVE  RegistryInv /\ SoleInv /\ [Next]_vars => SoleInv'
<1> SUFFICES ASSUME RegistryInv, SoleInv, [Next]_vars PROVE SoleInv'
  OBVIOUS
<1>1. CASE Advance
  <2>1. PICK t \in Task, c \in Record : Others(t, c) /\ Advances(t, c) /\ saved' = saved
    BY <1>1 DEF Advance
  <2>2. /\ Busy(c) => Free(ProcessOf[t]) \/ Busy(task[t])
        /\ c.pc = "write" => c.view = saved
    BY <2>1 DEF Advances, Busy, Saving, Onward
  <2>3. LoneInv'
    BY <2>1, <2>2 DEF SoleInv, LoneInv, Others, Busy, Free
  <2>4. ViewInv'
    BY <2>1, <2>2 DEF SoleInv, ViewInv, Others
  <2> QED BY <2>3, <2>4 DEF SoleInv
<1>2. CASE Write
  <2>1. PICK t \in Task, c \in Record :
          /\ Others(t, c) /\ WriteChat(t) /\ task[t].pc = "write"
          /\ c.pc \in {"create", "stream", "done", "after"}
    BY <1>2 DEF Write
  <2>2. Busy(task[t])
    BY <2>1 DEF Busy, Saving
  <2>3. LoneInv'
    BY <2>1, <2>2 DEF SoleInv, LoneInv, Others
  <2>4. ViewInv'
    <3> SUFFICES ASSUME NEW w \in Task, NEW u \in Task, task'[w].pc = "write",
                        ChatOf[u] = ChatOf[w]
                 PROVE  task'[w].view[u] = saved'[u]
      BY DEF ViewInv
    <3>1. w # t /\ task'[w] = task[w] /\ Busy(task[w])
      BY <2>1 DEF Others, Busy, Saving
    <3>2. u # t
      BY <2>2, <3>1 DEF Sticky, SoleInv, LoneInv
    <3> QED BY <2>1, <3>1, <3>2, SoleWrites DEF SoleInv, ViewInv
  <2> QED BY <2>3, <2>4 DEF SoleInv
<1>3. CASE Mark
  <2>1. PICK t \in Task, c \in Record : Others(t, c) /\ Marks(task[t], c) /\ saved' = saved
    BY <1>3 DEF Mark
  <2> QED BY <2>1 DEF SoleInv, LoneInv, ViewInv, Others, Marks, Busy
<1>4. CASE Rest
  BY <1>4 DEF Rest, SoleInv, LoneInv, ViewInv
<1> QED BY <1>1, <1>2, <1>3, <1>4, StepKinds

LEMMA NothingStarted ==
  ASSUME Init, NEW t \in Task
  PROVE  /\ task[t].pc = "none" /\ ~task[t].cancel /\ task[t].told = "nothing"
         /\ ~Busy(task[t])
BY DEF Init, NotStarted, Busy, Saving

LEMMA SoleAlways ==
  ASSUME Sticky
  PROVE  Spec => []SoleInv
<1>1. Init => SoleInv
  BY NothingStarted DEF SoleInv, LoneInv, ViewInv
<1> QED BY <1>1, SoleNext, RegistryAlways, PTL DEF Spec

----------------------------------------------------------------------------
(* Who is told that a message is done finds it saved *)

\* After the word that the message is done nothing is added to it.
Announced(c) ==
  \/ c.pc \in {"background", "cancelled", "after", "ended", "gone"}
  \/ c.pc \in Saving /\ c.next = "after" /\ ~c.put

\* The content is in the database, or the save of it failed.
Stored(t) == saved[t] = task[t].content \/ task[t].failed

AnnouncedInv == \A t \in Task :
  /\ task[t].pc \in Saving /\ task[t].next = "done" => task[t].put
  /\ task[t].told = "done" => Announced(task[t])
  /\ task[t].pc = "done" \/ task[t].told = "done" => Stored(t)

LEMMA AnnouncedNext ==
  ASSUME ~ENABLE_REALTIME_CHAT_SAVE
  PROVE  RegistryInv /\ SoleInv /\ AnnouncedInv /\ [Next]_vars => AnnouncedInv'
<1> SUFFICES ASSUME RegistryInv, SoleInv, AnnouncedInv, [Next]_vars PROVE AnnouncedInv'
  OBVIOUS
<1>1. CASE Advance
  <2>1. PICK t \in Task, c \in Record : Others(t, c) /\ Advances(t, c) /\ saved' = saved
    BY <1>1 DEF Advance
  <2> DEFINE b == task[t]
  <2>2. /\ b.pc \in Saving /\ b.next = "done" => b.put
        /\ b.told = "done" => Announced(b)
        /\ b.pc = "done" \/ b.told = "done" => saved[t] = b.content \/ b.failed
    BY DEF AnnouncedInv, Stored
  <2> HIDE DEF b
  <2>3. c.pc \in Saving /\ c.next = "done" => c.put
    BY <2>1, <2>2 DEF Advances, Course, InLoop, Inside, Saving, b
  <2>4. c.told = "done" => Announced(c)
    BY <2>1, <2>2 DEF Advances, Course, Announced, Inside, Saving, Awaiting, Kept, b
  <2>5. c.pc = "done" \/ c.told = "done" => saved[t] = c.content \/ c.failed
    BY <2>1, <2>2 DEF Advances, Onward, Course, Announced, InLoop, Inside, Saving, Awaiting, Kept, b
  <2> QED BY <2>1, <2>3, <2>4, <2>5 DEF AnnouncedInv, Others, Stored
<1>2. CASE Write
  <2>1. PICK t \in Task, c \in Record :
          /\ Others(t, c) /\ WriteChat(t) /\ c.pc = task[t].next
          /\ c.failed = (task[t].failed /\ ~task[t].put)
          /\ Kept(task[t], c) /\ task[t].pc = "write"
          /\ task[t].next \in {"create", "stream", "done", "after"}
    BY <1>2 DEF Write
  <2>2. /\ \A u \in Task \ {t} : saved'[u] = saved[u]
        /\ saved'[t] = IF task[t].put THEN task[t].content ELSE saved[t]
    BY <2>1, SoleWrites
  <2>3. /\ task[t].next = "done" => task[t].put
        /\ task[t].told = "done" => task[t].next = "after" /\ ~task[t].put
        /\ task[t].told = "done" => Stored(t)
    BY <2>1 DEF AnnouncedInv, Announced, Saving
  <2>4. /\ c.pc \notin Saving
        /\ c.told = "done" => Announced(c)
        /\ c.pc = "done" \/ c.told = "done" => saved'[t] = c.content \/ c.failed
    BY <2>1, <2>2, <2>3 DEF Announced, Kept, Saving, Stored
  <2> QED BY <2>1, <2>2, <2>4 DEF AnnouncedInv, Others, Stored
<1>3. CASE Mark
  <2>1. PICK t \in Task, c \in Record : Others(t, c) /\ Marks(task[t], c) /\ saved' = saved
    BY <1>3 DEF Mark
  <2> QED BY <2>1 DEF AnnouncedInv, Announced, Stored, Others, Marks, Kept
<1>4. CASE Rest
  BY <1>4 DEF Rest, AnnouncedInv, Announced, Stored
<1> QED BY <1>1, <1>2, <1>3, <1>4, StepKinds

\* A client that is told that the message is done finds all of it when it loads
\* the chat, unless the save of it failed: when the requests of a chat go to one
\* process and the answer is saved at the end, whatever raises and however often
\* a task is stopped.
THEOREM AnnouncedMessagesAreSaved ==
  ASSUME ~ENABLE_REALTIME_CHAT_SAVE, Sticky
  PROVE  Spec => []DoneIsSaved
<1>1. Init => AnnouncedInv
  BY NothingStarted DEF AnnouncedInv, Saving
<1>2. RegistryInv /\ SoleInv /\ AnnouncedInv /\ [Next]_vars => AnnouncedInv'
  BY AnnouncedNext
<1>3. AnnouncedInv => DoneIsSaved
  BY DEF AnnouncedInv, DoneIsSaved, Stored
<1> QED BY <1>1, <1>2, <1>3, SoleAlways, RegistryAlways, PTL DEF Spec

----------------------------------------------------------------------------
(* No task is stopped twice *)

\* No task is asked to stop twice.
StoppedOnce ==
  \A r, q \in Request :
    /\ stop[r].pc # "idle" /\ stop[q].pc # "idle"
    /\ stop[r].task = stop[q].task
    => r = q

\* A cancellation comes once, before the handler of it.
AskedInv == \A t \in Task : task[t].cancel \/ task[t].pc = "cancelled" => Asked(t)
OnceInv == \A t \in Task : task[t].pc = "cancelled" => ~task[t].cancel

LEMMA OnceNext ==
  RegistryInv /\ AskedInv /\ OnceInv /\ StoppedOnce' /\ [Next]_vars => AskedInv' /\ OnceInv'
<1> SUFFICES ASSUME RegistryInv, AskedInv, OnceInv, StoppedOnce', [Next]_vars
             PROVE  AskedInv' /\ OnceInv'
  OBVIOUS
<1>1. CASE Advance
  <2>1. PICK t \in Task, c \in Record : Others(t, c) /\ Advances(t, c) /\ stop' = stop
    BY <1>1 DEF Advance
  <2>2. /\ c.cancel \/ c.pc = "cancelled" => task[t].cancel \/ task[t].pc = "cancelled"
        /\ c.pc = "cancelled" => ~c.cancel
    BY <2>1 DEF Advances, Onward
  <2> QED BY <2>1, <2>2 DEF AskedInv, OnceInv, Asked, Others
<1>2. CASE Write
  <2>1. PICK t \in Task, c \in Record :
          Others(t, c) /\ c.pc # "cancelled" /\ c.cancel = task[t].cancel /\ stop' = stop
    BY <1>2 DEF Write, WriteChat
  <2> QED BY <2>1 DEF AskedInv, OnceInv, Asked, Others
<1>3. CASE Mark
  <2>1. PICK r \in Request, t \in Task, c \in Record :
          /\ Others(t, c) /\ Marks(task[t], c)
          /\ stop[r].pc = "idle" /\ stop'[r].pc # "idle" /\ stop'[r].task = t
          /\ \A q \in Request \ {r} : stop'[q] = stop[q]
    BY <1>3 DEF Mark
  <2>2. AskedInv'
    BY <2>1 DEF AskedInv, Asked, Others
  <2>3. task[t].pc # "cancelled"
    <3> SUFFICES ASSUME task[t].pc = "cancelled" PROVE FALSE
      OBVIOUS
    <3>1. PICK q \in Request : stop[q].pc # "idle" /\ stop[q].task = t
      BY DEF AskedInv, Asked
    <3>2. q # r /\ stop'[q] = stop[q]
      BY <2>1, <3>1
    <3> QED BY <2>1, <3>1, <3>2 DEF StoppedOnce
  <2>4. OnceInv'
    BY <2>1, <2>3 DEF OnceInv, Others, Marks
  <2> QED BY <2>2, <2>4
<1>4. CASE Rest
  BY <1>4 DEF Rest, AskedInv, OnceInv, Asked
<1> QED BY <1>1, <1>2, <1>3, <1>4, StepKinds

LEMMA OnceAlways == Spec /\ []StoppedOnce => []OnceInv
<1>1. Init => AskedInv /\ OnceInv
  BY NothingStarted DEF AskedInv, OnceInv
<1> QED BY <1>1, OnceNext, RegistryAlways, PTL DEF Spec

----------------------------------------------------------------------------
(* Who has ended has told, and has saved *)

Past(c) == \/ c.pc \in {"background", "after"}
           \/ c.pc \in {"ended", "gone"} /\ c.outcome # "raised"
           \/ c.pc \in Saving /\ c.next = "after"

\* A task comes to its end by telling the client so.
ToldInv == \A t \in Task : Past(task[t]) => task[t].told # "nothing"

LEMMA ToldNext ==
  RegistryInv /\ OnceInv /\ ToldInv /\ [Next]_vars => ToldInv'
<1> SUFFICES ASSUME RegistryInv, OnceInv, ToldInv, [Next]_vars PROVE ToldInv'
  OBVIOUS
<1>1. CASE Advance
  <2>1. PICK t \in Task, c \in Record : Others(t, c) /\ Advances(t, c)
    BY <1>1 DEF Advance
  <2>2. /\ Past(task[t]) => task[t].told # "nothing"
        /\ task[t].pc = "cancelled" => ~task[t].cancel
    BY DEF ToldInv, OnceInv
  <2>3. Past(c) => c.told # "nothing"
    BY <2>1, <2>2 DEF Advances, Course, InLoop, Inside, Past, Saving, Kept
  <2> QED BY <2>1, <2>3 DEF ToldInv, Others
<1>2. CASE Write
  <2>1. PICK t \in Task, c \in Record :
          /\ Others(t, c) /\ c.pc = task[t].next /\ Kept(task[t], c)
          /\ task[t].pc = "write"
          /\ task[t].next \in {"create", "stream", "done", "after"}
    BY <1>2 DEF Write
  <2>2. Past(c) => Past(task[t])
    BY <2>1 DEF Past, Saving
  <2> QED BY <2>1, <2>2 DEF ToldInv, Others, Kept
<1>3. CASE Mark
  <2>1. PICK t \in Task, c \in Record : Others(t, c) /\ Marks(task[t], c)
    BY <1>3 DEF Mark
  <2> QED BY <2>1 DEF ToldInv, Past, Others, Marks, Kept
<1>4. CASE Rest
  BY <1>4 DEF Rest, ToldInv
<1> QED BY <1>1, <1>2, <1>3, <1>4, StepKinds

\* A client is told how its message ended, in every mode and however the
\* requests are spread: when no exception ends the task, whatever else raises,
\* and no task is stopped twice.
THEOREM EndedTasksHaveTold == Spec /\ []StoppedOnce => []EndIsTold
<1>1. Init => ToldInv
  BY NothingStarted DEF ToldInv, Past, Saving
<1>2. RegistryInv /\ OnceInv /\ ToldInv /\ [Next]_vars => ToldInv'
  BY ToldNext
<1>3. RegistryInv /\ ToldInv => EndIsTold
  BY DEF RegistryInv, TasksOK, Wellformed, ToldInv, Past, EndIsTold
<1> QED BY <1>1, <1>2, <1>3, OnceAlways, RegistryAlways, PTL DEF Spec

SettledInv == \A t \in Task : Settled(task[t]) => Stored(t)

LEMMA SettledNext ==
  ASSUME SavesLast
  PROVE  RegistryInv /\ SoleInv /\ OnceInv /\ SettledInv /\ [Next]_vars => SettledInv'
<1> SUFFICES ASSUME RegistryInv, SoleInv, OnceInv, SettledInv, [Next]_vars PROVE SettledInv'
  OBVIOUS
<1>1. CASE Advance
  <2>1. PICK t \in Task, c \in Record : Others(t, c) /\ Advances(t, c) /\ saved' = saved
    BY <1>1 DEF Advance
  <2>2. task[t].pc = "cancelled" => ~task[t].cancel
    BY DEF OnceInv
  <2>3. Settled(c) =>
          \/ Settled(task[t]) /\ c.content = task[t].content /\ (task[t].failed => c.failed)
          \/ c.failed
    BY <2>1, <2>2 DEF Advances, Onward, SavesFirst, Settled, Saving, Kept
  <2> QED BY <2>1, <2>3 DEF SettledInv, Others, Stored
<1>2. CASE Write
  <2>1. PICK t \in Task, c \in Record :
          /\ Others(t, c) /\ WriteChat(t) /\ c.pc = task[t].next
          /\ c.failed = (task[t].failed /\ ~task[t].put)
          /\ Kept(task[t], c) /\ task[t].pc = "write"
          /\ task[t].next \in {"create", "stream", "done", "after"}
    BY <1>2 DEF Write
  <2>2. /\ \A u \in Task \ {t} : saved'[u] = saved[u]
        /\ saved'[t] = IF task[t].put THEN task[t].content ELSE saved[t]
    BY <2>1, SoleWrites
  <2>3. Settled(c) => task[t].put \/ Settled(task[t])
    BY <2>1 DEF Settled, Saving
  <2>4. Settled(c) => saved'[t] = c.content \/ c.failed
    BY <2>1, <2>2, <2>3 DEF SettledInv, Stored, Kept
  <2> QED BY <2>1, <2>2, <2>4 DEF SettledInv, Stored, Others
<1>3. CASE Mark
  <2>1. PICK t \in Task, c \in Record : Others(t, c) /\ Marks(task[t], c) /\ saved' = saved
    BY <1>3 DEF Mark
  <2> QED BY <2>1 DEF SettledInv, Settled, Stored, Others, Marks, Kept
<1>4. CASE Rest
  BY <1>4 DEF Rest, SettledInv, Settled, Stored
<1> QED BY <1>1, <1>2, <1>3, <1>4, StepKinds

\* Whoever has ended, other than by an exception, has saved all of its content
\* or failed in saving it: when the requests of a chat go to one process, the
\* answer is saved at the end, and no task is stopped twice.
THEOREM EndedTasksAreSaved ==
  ASSUME ~ENABLE_REALTIME_CHAT_SAVE, Sticky
  PROVE  Spec /\ []StoppedOnce => []EndedIsSaved
<1>1. Init => SettledInv
  BY NothingStarted DEF SettledInv, Settled, Saving
<1>2. RegistryInv /\ SoleInv /\ OnceInv /\ SettledInv /\ [Next]_vars => SettledInv'
  BY SettledNext DEF SavesLast
<1>3. RegistryInv /\ SettledInv => EndedIsSaved
  BY DEF RegistryInv, TasksOK, Wellformed, SettledInv, Settled, Stored, EndedIsSaved
<1> QED BY <1>1, <1>2, <1>3, SoleAlways, OnceAlways, RegistryAlways, PTL DEF Spec

=============================================================================
