----------------------------- MODULE ThreadMemory -----------------------------
(***************************************************************************)
(* What a thread should remember: the questions and answers of its         *)
(* requests, in order, as far as they are among the last messages. History *)
(* variables say what that is, and whether it is in doubt, because         *)
(* requests have overlapped, a task was lost or the process was stopped; a *)
(* request that starts alone goes on from what it finds.                   *)
(***************************************************************************)
EXTENDS AgentAnswer, SequencesExt

VARIABLES
  memory,  \* the questions and answers that should be found
  doubt,   \* whether something has gone wrong since the last fresh start
  clash    \* the requests at work that have overlapped with another

history == <<memory, doubt, clash>>

Live(r) == Working(r) \/ HasTask(r)
Still(rs) == {r \in rs : Live(r)'}
Spoken(m) == m.kind \in {"user", "answer"}
Conversation(ms) == Those(ms, {i \in 1 .. Len(ms) : Spoken(ms[i])})
LastOnes(ms) ==
  Conversation(IF Len(ms) > MaxStored THEN SubSeq(ms, Len(ms) - MaxStored + 1, Len(ms)) ELSE ms)

InitM == Init /\ memory = <<>> /\ doubt = FALSE /\ clash = {}

Alone(r) == \A s \in Request \ {r} : ~ Live(s)
TwoRows == Cardinality(Inserts) > 1

\* A request that starts alone goes on from what it finds, if that is in
\* doubt; one that starts beside others overlaps with them.
BeginM(r) ==
  /\ Begin(r)
  /\ clash' = IF Alone(r) THEN {} ELSE clash \cup {r} \cup {s \in Request : Live(s)}
  /\ IF doubt /\ Alone(r) /\ req'[r].remembers /\ ~ TwoRows
       THEN doubt' = FALSE /\ memory' = Conversation(Front(req'[r].said))
       ELSE UNCHANGED <<memory, doubt>>

\* An answer that is remembered adds itself and the question, ...
FinishM(r) ==
  /\ \E answer \in Answers(r) :
       LET said == req[r].said \o answer IN
       /\ Answer(r, answer)
       /\ memory' = IF ~ req[r].remembers THEN memory
                    ELSE IF Len(said) > MaxStored THEN LastOnes(said)
                    ELSE memory \o <<Says("user", r, <<>>)>> \o answer
  /\ doubt' = (doubt \/ (req[r].remembers /\ r \in clash))
  /\ clash' = Still(clash)

\* ... and reset_memory forgets it all.
ResetM(r) ==
  /\ ResetMemory(r)
  /\ memory' = <<>> /\ doubt' = (doubt \/ r \in clash)
  /\ UNCHANGED clash

\* Two requests that insert the row of the thread leave two, of which any
\* is found from then on.
TaskM(r) ==
  /\ TaskStep(r)
  /\ doubt' = (doubt \/ TwoRows')
  /\ clash' = Still(clash)
  /\ UNCHANGED memory

\* A task that fails or is cancelled, and a stop of the process.
LossM ==
  /\ Stop \/ \E r \in Request : LoseTask(r) \/ Disconnect(r)
  /\ doubt' = (doubt \/ \E r \in Request : HasTask(r) /\ tasks'[r] # tasks[r])
  /\ clash' = Still(clash)
  /\ UNCHANGED memory

OtherM(r) ==
  /\ Turn(r) \/ (Tools(r) /\ ~ ResetMemory(r))
  /\ clash' = Still(clash)
  /\ UNCHANGED <<memory, doubt>>

NextM ==
  \/ LossM
  \/ \E r \in Request : BeginM(r) \/ FinishM(r) \/ ResetM(r) \/ TaskM(r) \/ OtherM(r)

SpecM == InitM /\ [][NextM]_<<vars, history>>
LiveSpecM == SpecM /\ Fairness

----------------------------------------------------------------------------

\* Once the tasks are done, the history of the thread has the questions and
\* answers of the requests that were answered and remembered since the last
\* reset_memory, in order, as far as they are among the last messages.
HistoryIsConversation ==
  (~ doubt /\ \A r \in Request : ~ HasTask(r)) =>
    \A ms \in Loadable : Conversation(ms) = memory

\* Until then a request that starts reads what was there before, or a part of
\* the conversation from its start.
Clears == \E r \in Request : HasTask(r) /\ Head(tasks[r]).op = "clear"
HistoryGrowsInOrder ==
  (~ doubt /\ ~ Clears) => \A ms \in Loadable : IsPrefix(Conversation(ms), memory)

\* The history follows the conversation: the whole of it when the tasks are
\* done, and its start while they are not.
HistoryFollows == HistoryIsConversation /\ HistoryGrowsInOrder

\* When the model is asked, each call of the request's earlier messages has
\* its result, except those that the loop skips: in a stream, the nameless,
\* and in that of Bedrock the calls from an unknown function on.
Skipped(r, t) ==
  \/ t = Nameless /\ req[r].variant # "whole"
  \/ t = Unknown /\ req[r].variant = "bedrock"
CallsAnswered ==
  \A r \in Request : req[r].pc = "model" =>
    LET said == req[r].said IN
    \A i \in 1 .. Len(said) : said[i].kind = "call" =>
      Complete(said, i) \/ \E j \in 1 .. Len(said[i].calls) : Skipped(r, said[i].calls[j])

\* A request that has begun ends, and its tasks are done.
RequestsEnd == \A r \in Request : req[r].pc # "new" ~> (req[r].pc = "done" /\ ~ HasTask(r))
==============================================================================
