------------------------------ MODULE AgentAnswer ------------------------------
(***************************************************************************)
(* Questions put to the agent in one thread of conversation. A request     *)
(* loads the history of the thread, lets the model answer, runs the tools  *)
(* that the model calls and asks again, until there is an answer. Then it  *)
(* schedules tasks that clear the history and append the conversation,     *)
(* message by message, and ends without waiting for them.                  *)
(*                                                                         *)
(* The history is that of PgChatMessageHistory: rows of the table history  *)
(* with the thread's sessionId, which is no key. Each request has its own  *)
(* instance, whose lock lets one of its tasks at a time read and write a   *)
(* row, in the order in which they were scheduled; the tasks of two        *)
(* instances interleave. A thread's requests are not serialised.           *)
(***************************************************************************)
EXTENDS Naturals, Sequences, FiniteSets

CONSTANTS
  Request, NoRequest,
  Workflow,       \* functions of the workflows of the assistant
  Direct,         \* those whose result is the answer
  Served,         \* tools of an MCP or OpenAPI server
  Custom,         \* tools that the user interface runs
  Reset,          \* the function reset_memory
  Unknown,        \* a name that is none of these
  Nameless,       \* a call without a name
  MaxToolCalls,   \* MAX_TOOL_CALLS
  MaxTurns,       \* SAFETY_MAX_ITERATIONS
  MaxStored,      \* the max_tokens given to custom_trim_messages
  CallLists,      \* bound: the calls that a message of the model may make
  MayFail,        \* whether servers, model and database may fail
  MaxStops        \* bound: how often the process is stopped

ASSUME ConstantsAssumption ==
  /\ NoRequest \notin Request /\ Direct \subseteq Workflow /\ MayFail \in BOOLEAN
  /\ MaxToolCalls \in Nat /\ MaxTurns \in Nat /\ MaxStored \in Nat \ {0}
  /\ MaxStops \in Nat

Call == Workflow \cup Served \cup Custom \cup {Reset, Unknown, Nameless}
ASSUME CallListsAssumption == CallLists \subseteq Seq(Call) \ {<<>>}
\* Questions, messages of the model with and without calls, results of tools.
Message == [kind: {"user", "answer", "call", "tool"}, of: Request, calls: Seq(Call)]
Says(kind, r, calls) == [kind |-> kind, of |-> r, calls |-> calls]

VARIABLES
  rows,    \* the messages in the row that a request has inserted, if it has
  latest,  \* the request whose row was updated last
  req,     \* the requests
  tasks,   \* the tasks of a request that are not done, in order
  hand,    \* what the first of them has read
  stops    \* how often the process was stopped

vars == <<rows, latest, req, tasks, hand, stops>>

\* What differs: the streams, in which a call without a name is skipped, that
\* of Bedrock, which drops the calls from the first unknown function on, and
\* the answers given at once.
Variant == {"stream", "bedrock", "whole"}
Pc == {"new", "model", "tools", "reset", "done"}
\* said: working_messages without the system message; left: the calls of the
\* last message that are to be run; runs: tool_call_success_counts.
NewRequest ==
  [pc |-> "new", variant |-> "stream", remembers |-> FALSE, said |-> <<>>, left |-> <<>>,
   turns |-> 0, runs |-> [t \in Call |-> 0]]

NoHand == [stage |-> "waiting", row |-> NoRequest, messages |-> <<>>]
Inserted(r) == rows[r].there
Inserts == {r \in Request : Inserted(r)}

Init ==
  /\ rows = [r \in Request |-> [there |-> FALSE, messages |-> <<>>]]
  /\ latest = NoRequest
  /\ req = [r \in Request |-> NewRequest]
  /\ tasks = [r \in Request |-> <<>>]
  /\ hand = [r \in Request |-> NoHand]
  /\ stops = 0

stored == <<rows, latest, tasks, hand>>

----------------------------------------------------------------------------
(* What is saved of a conversation *)

\* The k-th of a set of places, and the messages at such places, in order.
Nth(at, k) == CHOOSE i \in at : Cardinality({j \in at : j <= i}) = k
Those(ms, at) == [k \in 1 .. Cardinality(at) |-> ms[Nth(at, k)]]

\* Mutant: the first are kept.
Trimmed_First(ms) == IF Len(ms) <= MaxStored THEN ms ELSE SubSeq(ms, 1, MaxStored)

\* custom_trim_messages keeps the last.
Trimmed(ms) == IF Len(ms) <= MaxStored THEN ms ELSE SubSeq(ms, Len(ms) - MaxStored + 1, Len(ms))

\* A message with calls is complete if it is followed by the result of each.
Complete(ms, i) ==
  /\ i + Len(ms[i].calls) <= Len(ms)
  /\ \A j \in 1 .. Len(ms[i].calls) :
       ms[i + j].kind = "tool" /\ ms[i + j].calls = <<ms[i].calls[j]>>

\* validate_tool_calls drops the incomplete ones, and the results of tools
\* are not saved; a saved message has no calls any more.
Saved(ms) ==
  LET kept == Those(ms, {i \in 1 .. Len(ms) : ms[i].kind # "tool" /\ Complete(ms, i)}) IN
    [i \in 1 .. Len(kept) |-> [kept[i] EXCEPT !.calls = <<>>]]

\* Mutant: the messages are appended from the last to the first.
SavingTasks_Backwards(ms) ==
  LET kept == Saved(Trimmed(ms)) n == Len(kept) IN
    <<[op |-> "clear"]>> \o [i \in 1 .. n |-> [op |-> "append", message |-> kept[n + 1 - i]]]

\* What clear and the appends after it are scheduled with.
SavingTasks(ms) ==
  LET kept == Saved(Trimmed(ms)) IN
    <<[op |-> "clear"]>> \o [i \in 1 .. Len(kept) |-> [op |-> "append", message |-> kept[i]]]

----------------------------------------------------------------------------
(* A request *)

Working(r) == req[r].pc \in {"model", "tools", "reset"}
Streams(r) == req[r].variant # "whole"
Goes(r, changed) == req' = [req EXCEPT ![r] = changed]
Over == [NewRequest EXCEPT !.pc = "done"]
Ends(r) == Goes(r, Over)

\* aget_messages takes any row of the thread. A history that is not to be
\* remembered is loaded in vain. A load that fails ends the request.
Loadable == IF Inserts = {} THEN {<<>>} ELSE {rows[i].messages : i \in Inserts}

Start(r, variant, remembers) ==
  /\ req[r].pc = "new"
  /\ \/ MayFail /\ Ends(r)
     \/ \E loaded \in Loadable :
          Goes(r, [NewRequest EXCEPT !.pc = "model", !.variant = variant, !.remembers = remembers,
            !.said = Append(IF remembers THEN loaded ELSE <<>>, Says("user", r, <<>>))])
  /\ UNCHANGED <<stored, stops>>

\* Mutant: the limit of turns is compared one too late.
Asks_OneMore(r) == req[r].pc = "model" /\ req[r].turns <= MaxTurns
Asks(r) == req[r].pc = "model" /\ req[r].turns < MaxTurns
Asked(r) == [req[r] EXCEPT !.turns = @ + 1]

\* An answer, or the end of one that is empty: the conversation is saved, if
\* it is to be remembered.
Answer(r, answer) ==
  /\ Asks(r)
  /\ tasks' = IF req[r].remembers THEN [tasks EXCEPT ![r] = SavingTasks(req[r].said \o answer)]
                                  ELSE tasks
  /\ Ends(r)
  /\ UNCHANGED <<rows, latest, hand, stops>>

\* A message with calls.
CallTools(r, calls) ==
  /\ Asks(r)
  /\ Goes(r, [Asked(r) EXCEPT !.pc = "tools", !.left = calls,
                              !.said = Append(@, Says("call", r, calls))])
  /\ UNCHANGED <<stored, stops>>

\* Neither an answer nor a call: the model is asked again.
Blank(r) ==
  /\ Asks(r)
  /\ Goes(r, Asked(r))
  /\ UNCHANGED <<stored, stops>>

\* Nothing comes back, or an error: the user is told so.
NoAnswer(r) ==
  /\ Asks(r)
  /\ Ends(r)
  /\ UNCHANGED <<stored, stops>>

\* The limit of turns. A stream ends without a word, an answer that is given
\* at once is the last message of the model; nothing is saved.
LimitTurns(r) ==
  /\ req[r].pc = "model" /\ req[r].turns = MaxTurns
  /\ Ends(r)
  /\ UNCHANGED <<stored, stops>>

----------------------------------------------------------------------------
(* The calls of a message, one by one *)

Calls(r, t) == req[r].pc = "tools" /\ req[r].left # <<>> /\ Head(req[r].left) = t
Skip(r) == [req[r] EXCEPT !.left = Tail(@)]
Replied(r, t) == [Skip(r) EXCEPT !.said = Append(@, Says("tool", r, <<t>>))]
Counted(r, t) == [Replied(r, t) EXCEPT !.runs[t] = @ + 1]
\* The last message makes a single call.
Single(r) == Len(req[r].said[Len(req[r].said)].calls) = 1 /\ req[r].said[Len(req[r].said)].kind = "call"

SkipNameless(r) ==
  /\ Calls(r, Nameless) /\ Streams(r)
  /\ Goes(r, Skip(r))
  /\ UNCHANGED <<stored, stops>>

\* reset_memory waits until the history has been cleared, or that has failed,
\* and ends the request; nothing is saved.
ResetMemory(r) ==
  /\ Calls(r, Reset)
  /\ tasks' = [tasks EXCEPT ![r] = <<[op |-> "clear"]>>]
  /\ Goes(r, [req[r] EXCEPT !.pc = "reset"])
  /\ UNCHANGED <<rows, latest, hand, stops>>

\* Mutant: the request waits until it finds the history empty.
ResetDone_Emptied(r) ==
  /\ req[r].pc = "reset" /\ tasks[r] = <<>> /\ \A i \in Inserts : rows[i].messages = <<>>
  /\ Ends(r)
  /\ UNCHANGED <<stored, stops>>

ResetDone(r) ==
  /\ req[r].pc = "reset" /\ tasks[r] = <<>>
  /\ Ends(r)
  /\ UNCHANGED <<stored, stops>>

\* Mutant: the call is left without a result.
LimitTool_Unanswered(r, t) ==
  /\ Calls(r, t) /\ t # Reset /\ (t = Nameless => ~ Streams(r))
  /\ req[r].runs[t] >= MaxToolCalls
  /\ Goes(r, Skip(r))
  /\ UNCHANGED <<stored, stops>>

\* A function that has been run MAX_TOOL_CALLS times.
LimitTool(r, t) ==
  /\ Calls(r, t) /\ t # Reset /\ (t = Nameless => ~ Streams(r))
  /\ req[r].runs[t] >= MaxToolCalls
  /\ Goes(r, Replied(r, t))
  /\ UNCHANGED <<stored, stops>>

Runs(r, t) == Calls(r, t) /\ req[r].runs[t] < MaxToolCalls

\* A tool of a server. Its runs are not counted; when it fails it is left to
\* the user interface.
RunServed(r, t) ==
  /\ t \in Served /\ Runs(r, t)
  /\ \/ Goes(r, Replied(r, t))
     \/ MayFail /\ Ends(r)
  /\ UNCHANGED <<stored, stops>>

\* A tool of the user interface ends the request; nothing is saved.
LeaveCustom(r, t) ==
  /\ t \in Custom /\ Runs(r, t)
  /\ Ends(r)
  /\ UNCHANGED <<stored, stops>>

\* A workflow. A result that is too long, or that is to be the answer, ends
\* the request; nothing is saved.
RunWorkflow(r, t) ==
  /\ t \in Workflow /\ Runs(r, t)
  /\ \/ (t \notin Direct \/ ~ Single(r)) /\ Goes(r, Counted(r, t))
     \/ Ends(r)
  /\ UNCHANGED <<stored, stops>>

\* A call that names no known function is answered with an error, which
\* counts as a run.
RefuseUnknown(r, t) ==
  /\ t \in {Unknown, Nameless} /\ Runs(r, t) /\ (t = Nameless => ~ Streams(r))
  /\ Goes(r, IF req[r].variant = "bedrock" THEN [req[r] EXCEPT !.left = <<>>] ELSE Counted(r, t))
  /\ UNCHANGED <<stored, stops>>

NextTurn(r) ==
  /\ req[r].pc = "tools" /\ req[r].left = <<>>
  /\ Goes(r, [req[r] EXCEPT !.pc = "model"])
  /\ UNCHANGED <<stored, stops>>

\* The user of a stream goes away: the handler is cancelled where it waits,
\* with the clearing that it waits for.
Disconnect(r) ==
  /\ Working(r) /\ Streams(r)
  /\ Ends(r)
  /\ tasks' = [tasks EXCEPT ![r] = <<>>]
  /\ hand' = [hand EXCEPT ![r] = NoHand]
  /\ UNCHANGED <<rows, latest, stops>>

----------------------------------------------------------------------------
(* The tasks of an instance, one at a time *)

HasTask(r) == tasks[r] # <<>>
Pops(r) == tasks' = [tasks EXCEPT ![r] = Tail(@)] /\ hand' = [hand EXCEPT ![r] = NoHand]

\* aclear takes any row, _append_message the one updated last; without a row
\* there is nothing to clear.
ReadRow(r) ==
  /\ HasTask(r) /\ hand[r].stage = "waiting"
  /\ \/ /\ Head(tasks[r]).op = "clear" /\ Inserts = {} /\ Pops(r)
     \/ /\ Head(tasks[r]).op = "append" \/ Inserts # {}
        /\ \E i \in IF Head(tasks[r]).op = "append" THEN {latest} ELSE Inserts :
             hand' = [hand EXCEPT ![r] = [stage |-> "read", row |-> i,
                        messages |-> IF i = NoRequest THEN <<>> ELSE rows[i].messages]]
        /\ UNCHANGED tasks
  /\ UNCHANGED <<rows, latest, req, stops>>

\* The row is written as a whole, or inserted if there was none.
NewMessages(r) ==
  IF Head(tasks[r]).op = "clear" THEN <<>> ELSE Append(hand[r].messages, Head(tasks[r]).message)

WriteRow(r) ==
  /\ HasTask(r) /\ hand[r].stage = "read"
  /\ LET i == IF hand[r].row = NoRequest THEN r ELSE hand[r].row IN
       /\ rows' = [rows EXCEPT ![i] = [there |-> TRUE, messages |-> NewMessages(r)]]
       /\ latest' = i
  /\ Pops(r)
  /\ UNCHANGED <<req, stops>>

\* A task that fails is gone, and the next one runs.
LoseTask(r) ==
  /\ MayFail /\ HasTask(r)
  /\ Pops(r)
  /\ UNCHANGED <<rows, latest, req, stops>>

\* The process stops, and its requests and tasks with it.
Stop ==
  /\ stops < MaxStops /\ stops' = stops + 1
  /\ \E r \in Request : HasTask(r) \/ Working(r)
  /\ req' = [r \in Request |->
       IF Working(r)
         THEN Over ELSE req[r]]
  /\ tasks' = [r \in Request |-> <<>>]
  /\ hand' = [r \in Request |-> NoHand]
  /\ UNCHANGED <<rows, latest>>

----------------------------------------------------------------------------

Answers(r) == {<<>>, <<Says("answer", r, <<>>)>>}

Finish(r) == \E answer \in Answers(r) : Answer(r, answer)

Turn(r) ==
  \/ Blank(r) \/ NoAnswer(r) \/ LimitTurns(r)
  \/ \E calls \in CallLists : CallTools(r, calls)

Tools(r) ==
  \/ SkipNameless(r) \/ ResetMemory(r) \/ ResetDone(r) \/ NextTurn(r)
  \/ \E t \in Call : LimitTool(r, t) \/ RunServed(r, t) \/ LeaveCustom(r, t) \/ RunWorkflow(r, t) \/ RefuseUnknown(r, t)

TaskStep(r) == ReadRow(r) \/ WriteRow(r)

Begin(r) == \E v \in Variant, m \in BOOLEAN : Start(r, v, m)

Next ==
  \/ Stop
  \/ \E r \in Request :
       \/ Begin(r) \/ Finish(r) \/ Turn(r) \/ Tools(r) \/ Disconnect(r) \/ TaskStep(r) \/ LoseTask(r)

Spec == Init /\ [][Next]_vars

\* The model and the tools come back, and the tasks are run.
Fairness == \A r \in Request : WF_vars(Finish(r) \/ Turn(r)) /\ WF_vars(Tools(r)) /\ WF_vars(TaskStep(r))
LiveSpec == Spec /\ Fairness

----------------------------------------------------------------------------

\* Every variable has its type; what a task has read is that of the first
\* task, and the calls that are left are the last of the last calls.
Task == [op: {"clear"}] \cup [op: {"append"}, message: Message]
TypeOK ==
  /\ \A r \in Request : rows[r].there \in BOOLEAN /\ rows[r].messages \in Seq(Message)
  /\ latest \in Inserts \cup {NoRequest} /\ (latest = NoRequest <=> Inserts = {})
  /\ \A r \in Request :
       /\ req[r].pc \in Pc /\ req[r].variant \in Variant
       /\ req[r].remembers \in BOOLEAN
       /\ req[r].said \in Seq(Message) /\ req[r].left \in Seq(Call)
       /\ req[r].turns \in 0 .. MaxTurns /\ req[r].runs \in [Call -> 0 .. MaxToolCalls]
       /\ tasks[r] \in Seq(Task)
       /\ hand[r].stage \in {"waiting", "read"} /\ hand[r].messages \in Seq(Message)
       /\ hand[r].row \in Inserts \cup {NoRequest}
       /\ hand[r].stage = "read" => tasks[r] # <<>>
       /\ tasks[r] # <<>> => req[r].pc \in {"reset", "done"}
  /\ stops \in 0 .. MaxStops
=============================================================================
