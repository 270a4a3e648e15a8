-------------------------- MODULE ThreadMemoryProofs --------------------------
(***************************************************************************)
(* Proofs about the answers of the agent, for any number of requests,      *)
(* tools and lists of calls, and any limits: requests, tasks and rows are  *)
(* well formed; the model is never asked with a call that has no result,   *)
(* but for those that the streams skip; and the history of a thread is     *)
(* what was said in it, as far as it is not in doubt. One invariant says   *)
(* how far a request is with the calls of its last message, another what   *)
(* the tasks that are left have still to write.                            *)
(***************************************************************************)
EXTENDS ThreadMemory, FiniteSetTheorems, WellFoundedInduction, TLAPS

----------------------------------------------------------------------------
(* Places in a sequence, and what is saved of one *)

LEMMA LeastNumber ==
  ASSUME NEW S, S \subseteq Nat, S # {}
  PROVE  \E n \in S : \A m \in S : n <= m
<1>1. \E n \in S : \A m \in S : ~ (<<m, n>> \in OpToRel(<, Nat))
  BY NatLessThanWellFounded, WFMin
<1>2. PICK n \in S : \A m \in S : ~ (<<m, n>> \in OpToRel(<, Nat))
  BY <1>1
<1>3. \A m \in S : ~ (m < n)
  BY <1>2 DEF OpToRel
<1> QED BY <1>3

LEMMA PlacesAreFinite ==
  ASSUME NEW n \in Nat, NEW at \in SUBSET (1 .. n)
  PROVE  IsFiniteSet(at) /\ Cardinality(at) \in Nat
<1>1. IsFiniteSet(1 .. n)
  BY FS_Interval
<1>2. IsFiniteSet(at)
  BY <1>1, FS_Subset
<1> QED BY <1>2, FS_CardinalityType

\* A set of places has a k-th one, for each k up to its size.
LEMMA NthIsOne ==
  ASSUME NEW n \in Nat, NEW at \in SUBSET (1 .. n), NEW k \in 1 .. Cardinality(at)
  PROVE  Nth(at, k) \in at /\ Cardinality({j \in at : j <= Nth(at, k)}) = k
<1> DEFINE Upto(m) == {j \in at : j <= m}
           S == {m \in Nat : k <= Cardinality(Upto(m))}
<1>1. IsFiniteSet(at) /\ Cardinality(at) \in Nat
  BY PlacesAreFinite
<1>2. \A m \in Nat : IsFiniteSet(Upto(m)) /\ Cardinality(Upto(m)) \in Nat
  BY <1>1, FS_Subset, FS_CardinalityType
<1>3. Upto(n) = at
  <2>1. \A j \in at : j <= n
    OBVIOUS
  <2> QED BY <2>1
<1>4. n \in S
  BY <1>1, <1>3
<1>5. PICK i \in S : \A m \in S : i <= m
  <2>1. S \subseteq Nat /\ S # {}
    BY <1>4
  <2> HIDE DEF S
  <2> QED BY <2>1, LeastNumber
<1>6. i # 0
  <2>1. Upto(0) = {}
    <3>1. \A j \in at : ~ (j <= 0)
      OBVIOUS
    <3> QED BY <3>1
  <2>2. ~ (k <= Cardinality(Upto(0)))
    BY <2>1, FS_EmptySet
  <2> HIDE DEF Upto
  <2> QED BY <2>2
<1>7. i - 1 \in Nat /\ ~ (k <= Cardinality(Upto(i - 1)))
  <2>1. i \in Nat /\ i - 1 \in Nat /\ ~ (i <= i - 1)
    BY <1>6
  <2>2. i - 1 \notin S
    <3> HIDE DEF S
    <3> QED BY <2>1, <1>5
  <2> HIDE DEF Upto
  <2> QED BY <2>1, <2>2
<1>8. i \in at
  <2> SUFFICES ASSUME i \notin at PROVE FALSE
    OBVIOUS
  <2>1. Upto(i) = Upto(i - 1)
    <3>1. i \in Nat /\ \A j \in at : j \in Nat /\ (j <= i <=> j <= i - 1)
      BY <1>7
    <3> QED BY <3>1
  <2> QED BY <2>1, <1>7, <1>5
<1>9. Cardinality(Upto(i)) = k
  <2>1. Upto(i) = Upto(i - 1) \cup {i} /\ i \notin Upto(i - 1)
    <3>1. i \in Nat /\ \A j \in at : j \in Nat /\ (j <= i <=> j <= i - 1 \/ j = i)
      BY <1>7
    <3>2. i <= i /\ ~ (i <= i - 1)
      BY <3>1
    <3> QED BY <3>1, <3>2, <1>8
  <2>2. Cardinality(Upto(i)) = Cardinality(Upto(i - 1)) + 1
    <3> HIDE DEF Upto
    <3> QED BY <2>1, <1>7, <1>2, FS_AddElement
  <2>3. k <= Cardinality(Upto(i))
    BY <1>5
  <2> HIDE DEF Upto
  <2> QED BY <2>2, <2>3, <1>7, <1>2
<1> QED BY <1>8, <1>9 DEF Nth

\* Messages of a conversation that are saved: without calls, none of a tool.
Bare == {m \in Message : m.kind # "tool" /\ m.calls = <<>>}

LEMMA ThoseAreSome ==
  ASSUME NEW ms \in Seq(Message), NEW at \in SUBSET (1 .. Len(ms))
  PROVE  /\ Those(ms, at) \in Seq(Message)
         /\ \A k \in 1 .. Len(Those(ms, at)) : \E i \in at : Those(ms, at)[k] = ms[i]
<1>0. Len(ms) \in Nat /\ \A i \in 1 .. Len(ms) : ms[i] \in Message
  OBVIOUS
<1>1. Cardinality(at) \in Nat
  BY <1>0, PlacesAreFinite
<1>2. \A k \in 1 .. Cardinality(at) : Nth(at, k) \in at
  BY <1>0, NthIsOne
<1>3. \A k \in 1 .. Cardinality(at) : ms[Nth(at, k)] \in Message
  BY <1>0, <1>2
<1> DEFINE f == [k \in 1 .. Cardinality(at) |-> ms[Nth(at, k)]]
<1>4. f \in Seq(Message) /\ Len(f) = Cardinality(at)
  BY <1>1, <1>3
<1>5. Those(ms, at) = f
  BY DEF Those
<1>6. \A k \in 1 .. Len(f) : f[k] = ms[Nth(at, k)]
  BY <1>4
<1> HIDE DEF f
<1> QED BY <1>4, <1>5, <1>6, <1>2

LEMMA TrimmedType ==
  ASSUME NEW ms \in Seq(Message)
  PROVE  Trimmed(ms) \in Seq(Message)
<1>1. MaxStored \in Nat \ {0}
  BY ConstantsAssumption
<1> QED BY <1>1 DEF Trimmed

LEMMA SavedIsBare ==
  ASSUME NEW ms \in Seq(Message)
  PROVE  Saved(ms) \in Seq(Bare)
<1> DEFINE at == {i \in 1 .. Len(ms) : ms[i].kind # "tool" /\ Complete(ms, i)}
           kept == Those(ms, at)
<1>1. /\ kept \in Seq(Message)
      /\ \A k \in 1 .. Len(kept) : \E i \in at : kept[k] = ms[i]
  <2>1. at \in SUBSET (1 .. Len(ms))
    OBVIOUS
  <2> HIDE DEF at
  <2> QED BY <2>1, ThoseAreSome
<1>2. \A k \in 1 .. Len(kept) : kept[k] \in Message /\ kept[k].kind # "tool"
  BY <1>1
<1> HIDE DEF kept
<1>3. \A k \in 1 .. Len(kept) : [kept[k] EXCEPT !.calls = <<>>] \in Bare
  <2> TAKE k \in 1 .. Len(kept)
  <2> DEFINE m == [kept[k] EXCEPT !.calls = <<>>]
  <2>1. kept[k] \in Message /\ kept[k].kind # "tool" /\ <<>> \in Seq(Call)
    BY <1>2
  <2>2. m \in Message /\ m.kind = kept[k].kind /\ m.calls = <<>>
    BY <2>1 DEF Message
  <2> QED BY <2>1, <2>2 DEF Bare
<1>4. [i \in 1 .. Len(kept) |-> [kept[i] EXCEPT !.calls = <<>>]] \in Seq(Bare)
  BY <1>1, <1>3
<1> QED BY <1>4 DEF Saved, kept

BareTask == [op: {"clear"}] \cup [op: {"append"}, message: Bare]

LEMMA SavingTasksType ==
  ASSUME NEW ms \in Seq(Message)
  PROVE  SavingTasks(ms) \in Seq(BareTask)
<1> DEFINE kept == Saved(Trimmed(ms))
<1>1. kept \in Seq(Bare)
  BY TrimmedType, SavedIsBare
<1> HIDE DEF kept
<1>2. [i \in 1 .. Len(kept) |-> [op |-> "append", message |-> kept[i]]] \in Seq(BareTask)
  BY <1>1 DEF BareTask
<1>3. <<[op |-> "clear"]>> \in Seq(BareTask)
  BY DEF BareTask
<1>4. SavingTasks(ms) = <<[op |-> "clear"]>> \o
         [i \in 1 .. Len(kept) |-> [op |-> "append", message |-> kept[i]]]
  BY DEF SavingTasks, kept
<1> QED BY <1>2, <1>3, <1>4

----------------------------------------------------------------------------
(* The calls of a conversation and their results *)

MaySkip(v, t) == (t = Nameless /\ v # "whole") \/ (t = Unknown /\ v = "bedrock")
SkipsOne(v, calls) == \E j \in 1 .. Len(calls) : MaySkip(v, calls[j])
Answered(said, v, i) == said[i].kind = "call" => Complete(said, i) \/ SkipsOne(v, said[i].calls)
AllAnswered(said, v) == \A i \in 1 .. Len(said) : Answered(said, v, i)

\* The calls of message p are run: it has the results of the first ones, and
\* the others are left, unless one has been skipped.
Halfway(said, left, p) ==
  LET k == Len(said) - p
      calls == said[p].calls IN
  /\ Len(calls) = Len(left) + k
  /\ \A j \in 1 .. Len(left) : left[j] = calls[k + j]
  /\ \A j \in 1 .. k : said[p + j].kind = "tool" /\ said[p + j].calls = <<calls[j]>>
AtCall(said, left, v, p) ==
  /\ \A i \in 1 .. Len(said) : i # p => Answered(said, v, i)
  /\ SkipsOne(v, said[p].calls) \/ Halfway(said, left, p)

LEMMA MessageFields ==
  ASSUME NEW said \in Seq(Message), NEW i \in 1 .. Len(said)
  PROVE  said[i] \in Message /\ said[i].calls \in Seq(Call) /\ Len(said[i].calls) \in Nat
<1>1. said[i] \in Message
  OBVIOUS
<1> QED BY <1>1 DEF Message

LEMMA AnsweredStays ==
  ASSUME NEW said \in Seq(Message), NEW m \in Message, NEW v, NEW i \in 1 .. Len(said),
         Answered(said, v, i)
  PROVE  Answered(Append(said, m), v, i)
<1> DEFINE more == Append(said, m)
<1>1. Len(more) = Len(said) + 1 /\ \A j \in 1 .. Len(said) : more[j] = said[j]
  OBVIOUS
<1>2. Len(said[i].calls) \in Nat /\ Len(said) \in Nat /\ i \in Nat
  BY MessageFields
<1> HIDE DEF more
<1>3. Complete(said, i) => Complete(more, i)
  <2> SUFFICES ASSUME Complete(said, i) PROVE Complete(more, i)
    OBVIOUS
  <2>1. \A j \in 1 .. Len(said[i].calls) : i + j \in 1 .. Len(said)
    BY <1>2 DEF Complete
  <2>2. more[i].calls = said[i].calls
    BY <1>1
  <2>3. i + Len(more[i].calls) <= Len(more)
    BY <2>2, <1>1, <1>2 DEF Complete
  <2>4. ASSUME NEW j \in 1 .. Len(more[i].calls)
        PROVE  more[i + j].kind = "tool" /\ more[i + j].calls = <<more[i].calls[j]>>
    <3>1. more[i + j] = said[i + j]
      BY <2>1, <2>2, <1>1
    <3> QED BY <3>1, <2>2 DEF Complete
  <2> QED BY <2>3, <2>4 DEF Complete
<1> QED BY <1>1, <1>3 DEF Answered, more

\* A message with calls is appended.
LEMMA CallAsked ==
  ASSUME NEW said \in Seq(Message), NEW m \in Message, NEW v, AllAnswered(said, v)
  PROVE  AtCall(Append(said, m), m.calls, v, Len(said) + 1)
<1> DEFINE more == Append(said, m)
<1>1. Len(more) = Len(said) + 1 /\ Len(said) \in Nat /\ more[Len(said) + 1] = m
  OBVIOUS
<1>2. \A i \in 1 .. Len(said) : Answered(more, v, i)
  BY AnsweredStays DEF AllAnswered
<1>3. m.calls \in Seq(Call) /\ Len(m.calls) \in Nat
  BY DEF Message
<1> HIDE DEF more
<1>4. Halfway(more, m.calls, Len(said) + 1)
  BY <1>1, <1>3 DEF Halfway
<1>5. \A i \in 1 .. Len(more) : i # Len(said) + 1 => i \in 1 .. Len(said)
  BY <1>1
<1> QED BY <1>2, <1>4, <1>5 DEF AtCall, more

\* The result of the first call that is left is appended.
LEMMA CallReplied ==
  ASSUME NEW said \in Seq(Message), NEW m \in Message, NEW left \in Seq(Call), NEW v,
         NEW p \in 1 .. Len(said), left # <<>>, AtCall(said, left, v, p),
         m.kind = "tool", m.calls = <<Head(left)>>
  PROVE  AtCall(Append(said, m), Tail(left), v, p)
<1> DEFINE more == Append(said, m)
           rest == Tail(left)
<1>1. /\ Len(more) = Len(said) + 1 /\ Len(said) \in Nat
      /\ \A j \in 1 .. Len(said) : more[j] = said[j]
      /\ more[Len(said) + 1] = m
  OBVIOUS
<1>2. /\ Len(left) \in Nat \ {0} /\ Len(rest) = Len(left) - 1 /\ Head(left) = left[1]
      /\ \A j \in 1 .. Len(rest) : rest[j] = left[j + 1]
  OBVIOUS
<1>3. \A i \in 1 .. Len(said) : i # p => Answered(more, v, i)
  BY AnsweredStays DEF AtCall
<1>4. Answered(more, v, Len(said) + 1)
  BY <1>1 DEF Answered
<1>5. \A i \in 1 .. Len(more) : i # p => Answered(more, v, i)
  <2> HIDE DEF more
  <2>1. \A i \in 1 .. Len(more) : i \in 1 .. Len(said) \/ i = Len(said) + 1
    BY <1>1
  <2> QED BY <1>3, <1>4, <2>1
<1>6. Halfway(said, left, p) => Halfway(more, rest, p)
  <2> DEFINE k == Len(said) - p
             calls == said[p].calls
  <2> SUFFICES ASSUME Halfway(said, left, p) PROVE Halfway(more, rest, p)
    OBVIOUS
  <2>1. /\ Len(calls) = Len(left) + k
        /\ \A j \in 1 .. Len(left) : left[j] = calls[k + j]
        /\ \A j \in 1 .. k : said[p + j].kind = "tool" /\ said[p + j].calls = <<calls[j]>>
    BY DEF Halfway
  <2>2. k \in Nat /\ Len(calls) \in Nat /\ more[p].calls = calls /\ p \in Nat
    BY <1>1, MessageFields
  <2>3. Len(more) - p = k + 1 /\ p + (k + 1) = Len(said) + 1
    BY <1>1, <2>2
  <2> HIDE DEF more, rest, k, calls
  <2>4. Len(calls) = Len(rest) + (k + 1)
    BY <2>1, <2>2, <1>2
  <2>5. \A j \in 1 .. Len(rest) : rest[j] = calls[k + 1 + j]
    <3> TAKE j \in 1 .. Len(rest)
    <3>1. j \in Nat /\ j + 1 \in 1 .. Len(left) /\ k + (j + 1) = k + 1 + j
      BY <1>2, <2>2
    <3>2. left[j + 1] = calls[k + (j + 1)]
      BY <3>1, <2>1
    <3> QED BY <3>1, <3>2, <1>2
  <2>6. ASSUME NEW j \in 1 .. k + 1
        PROVE  more[p + j].kind = "tool" /\ more[p + j].calls = <<calls[j]>>
    <3>1. CASE j \in 1 .. k
      <4>1. p + j \in 1 .. Len(said)
        BY <3>1, <2>2, <2>3, <1>1
      <4> QED BY <4>1, <3>1, <2>1, <1>1
    <3>2. CASE j = k + 1
      <4>1. calls[k + 1] = left[1]
        BY <2>1, <1>2
      <4> QED BY <4>1, <3>2, <2>3, <1>1, <1>2
    <3> QED BY <3>1, <3>2, <2>2
  <2> QED BY <2>2, <2>3, <2>4, <2>5, <2>6 DEF Halfway, k, calls
<1>7. more[p].calls = said[p].calls
  BY <1>1
<1> HIDE DEF more, rest
<1> QED BY <1>5, <1>6, <1>7 DEF AtCall, more, rest

\* A call is skipped, or with it all that follow.
LEMMA CallSkipped ==
  ASSUME NEW said \in Seq(Message), NEW left \in Seq(Call), NEW v, NEW rest,
         NEW p \in 1 .. Len(said), left # <<>>, AtCall(said, left, v, p),
         MaySkip(v, Head(left))
  PROVE  AtCall(said, rest, v, p)
<1>1. Len(left) \in Nat \ {0} /\ Head(left) = left[1]
  OBVIOUS
<1>2. CASE Halfway(said, left, p)
  <2> DEFINE k == Len(said) - p
             calls == said[p].calls
  <2>1. Len(calls) = Len(left) + k /\ \A j \in 1 .. Len(left) : left[j] = calls[k + j]
    BY <1>2 DEF Halfway
  <2>2. k \in Nat /\ Len(calls) \in Nat
    BY MessageFields
  <2> HIDE DEF k, calls
  <2>3. k + 1 \in 1 .. Len(calls) /\ calls[k + 1] = left[1]
    BY <2>1, <2>2, <1>1
  <2>4. SkipsOne(v, calls)
    BY <2>3, <1>1 DEF SkipsOne
  <2> QED BY <2>4 DEF AtCall, calls
<1>3. CASE SkipsOne(v, said[p].calls)
  BY <1>3 DEF AtCall
<1> QED BY <1>2, <1>3 DEF AtCall

\* No call is left.
LEMMA CallsDone ==
  ASSUME NEW said \in Seq(Message), NEW v, NEW p \in 1 .. Len(said), AtCall(said, <<>>, v, p)
  PROVE  AllAnswered(said, v)
<1>1. Halfway(said, <<>>, p) => Complete(said, p)
  <2> SUFFICES ASSUME Halfway(said, <<>>, p) PROVE Complete(said, p)
    OBVIOUS
  <2>1. Len(said) \in Nat /\ Len(said[p].calls) \in Nat
    BY MessageFields
  <2>2. Len(said[p].calls) = Len(said) - p
    BY <2>1 DEF Halfway
  <2>3. p + Len(said[p].calls) <= Len(said)
    BY <2>1, <2>2
  <2>4. \A j \in 1 .. Len(said[p].calls) :
          said[p + j].kind = "tool" /\ said[p + j].calls = <<said[p].calls[j]>>
    BY <2>2 DEF Halfway
  <2> QED BY <2>3, <2>4 DEF Complete
<1> QED BY <1>1 DEF AtCall, AllAnswered, Answered

\* What was loaded has no calls, nor has a question.
LEMMA NothingCalled ==
  ASSUME NEW said \in Seq(Message), NEW v,
         \A i \in 1 .. Len(said) : said[i].calls = <<>>
  PROVE  AllAnswered(said, v)
<1>1. \A i \in 1 .. Len(said) : Complete(said, i)
  BY DEF Complete
<1> QED BY <1>1 DEF AllAnswered, Answered

----------------------------------------------------------------------------
(* The invariant *)

RowType == [there: BOOLEAN, messages: Seq(Bare)]
RequestType ==
  [pc: Pc, variant: Variant, remembers: BOOLEAN, said: Seq(Message), left: Seq(Call),
   turns: 0 .. MaxTurns, runs: [Call -> 0 .. MaxToolCalls]]
HandType == [stage: {"waiting", "read"}, row: Request \cup {NoRequest}, messages: Seq(Bare)]

Shapes ==
  /\ rows \in [Request -> RowType]
  /\ req \in [Request -> RequestType]
  /\ tasks \in [Request -> Seq(BareTask)]
  /\ hand \in [Request -> HandType]
  /\ stops \in 0 .. MaxStops

RowsFound ==
  /\ latest \in Inserts \cup {NoRequest} /\ (latest = NoRequest <=> Inserts = {})
  /\ \A r \in Request : hand[r].row \in Inserts \cup {NoRequest}
TasksInTurn ==
  \A r \in Request :
    /\ hand[r].stage = "read" => tasks[r] # <<>>
    /\ tasks[r] # <<>> => req[r].pc \in {"reset", "done"}

CallsKept(q) ==
  /\ q.pc = "model" => AllAnswered(q.said, q.variant)
  /\ q.pc = "tools" => \E p \in 1 .. Len(q.said) : AtCall(q.said, q.left, q.variant, p)
CallsInv == \A r \in Request : CallsKept(req[r])

AgentInv == Shapes /\ RowsFound /\ TasksInTurn /\ CallsInv

USE ConstantsAssumption

LEMMA NewRequestType == NewRequest \in RequestType /\ Over \in RequestType
<1>1. <<>> \in Seq(Message) /\ <<>> \in Seq(Call) /\ 0 \in 0 .. MaxTurns
  OBVIOUS
<1>2. [t \in Call |-> 0] \in [Call -> 0 .. MaxToolCalls]
  OBVIOUS
<1>3. NewRequest \in RequestType
  BY <1>1, <1>2 DEF NewRequest, RequestType, Pc, Variant
<1>4. Over \in RequestType
  BY <1>3 DEF Over, RequestType, Pc
<1> QED BY <1>3, <1>4

LEMMA AgentInit == Init => AgentInv
<1> SUFFICES ASSUME Init PROVE AgentInv
  OBVIOUS
<1>1. Shapes
  BY NewRequestType DEF Init, Shapes, RowType, HandType, NoHand
<1>2. RowsFound
  BY DEF Init, RowsFound, Inserts, Inserted, NoHand
<1>3. TasksInTurn
  BY DEF Init, TasksInTurn, NoHand
<1>4. CallsInv
  BY DEF Init, CallsInv, CallsKept, NewRequest
<1> QED BY <1>1, <1>2, <1>3, <1>4 DEF AgentInv

LEMMA AgentTypes == AgentInv => TypeOK
<1> SUFFICES ASSUME AgentInv PROVE TypeOK
  OBVIOUS
<1>1. Bare \subseteq Message /\ BareTask \subseteq Task
  BY DEF Bare, BareTask, Task
<1>2. Seq(Bare) \subseteq Seq(Message) /\ Seq(BareTask) \subseteq Seq(Task)
  BY <1>1
<1>3. \A r \in Request : rows[r].there \in BOOLEAN /\ rows[r].messages \in Seq(Message)
  BY <1>2 DEF AgentInv, Shapes, RowType
<1>4. ASSUME NEW r \in Request
      PROVE  /\ req[r].pc \in Pc /\ req[r].variant \in Variant
             /\ req[r].remembers \in BOOLEAN
             /\ req[r].said \in Seq(Message) /\ req[r].left \in Seq(Call)
             /\ req[r].turns \in 0 .. MaxTurns /\ req[r].runs \in [Call -> 0 .. MaxToolCalls]
  BY DEF AgentInv, Shapes, RequestType
<1>5. ASSUME NEW r \in Request
      PROVE  /\ tasks[r] \in Seq(Task)
             /\ hand[r].stage \in {"waiting", "read"} /\ hand[r].messages \in Seq(Message)
  BY <1>2 DEF AgentInv, Shapes, HandType
<1>6. stops \in 0 .. MaxStops
  BY DEF AgentInv, Shapes
<1> HIDE DEF Pc
<1> QED BY <1>3, <1>4, <1>5, <1>6 DEF AgentInv, RowsFound, TasksInTurn, TypeOK

\* Steps of a request that leave the history alone.
LEMMA RequestMoves ==
  ASSUME AgentInv, NEW r \in Request, NEW q \in RequestType, CallsKept(q), Goes(r, q),
         tasks[r] # <<>> => q.pc \in {"reset", "done"}, UNCHANGED <<stored, stops>>
  PROVE  AgentInv'
<1>1. req' = [req EXCEPT ![r] = q] /\ UNCHANGED <<rows, latest, tasks, hand, stops>>
  BY DEF Goes, stored
<1>2. req \in [Request -> RequestType]
  BY DEF AgentInv, Shapes
<1>3. Shapes'
  BY <1>1, <1>2 DEF AgentInv, Shapes
<1>4. RowsFound'
  BY <1>1 DEF AgentInv, RowsFound, Inserts, Inserted
<1>5. TasksInTurn'
  BY <1>1, <1>2 DEF AgentInv, TasksInTurn
<1>6. CallsInv'
  BY <1>1, <1>2 DEF AgentInv, CallsInv
<1> QED BY <1>3, <1>4, <1>5, <1>6 DEF AgentInv

\* A request that waits for its tasks, or leaves them behind.
LEMMA RequestSchedules ==
  ASSUME AgentInv, NEW r \in Request, NEW q \in RequestType, NEW ts \in Seq(BareTask),
         q.pc \in {"reset", "done"}, tasks[r] = <<>>, Goes(r, q),
         tasks' = [tasks EXCEPT ![r] = ts], UNCHANGED <<rows, latest, hand, stops>>
  PROVE  AgentInv'
<1>1. req' = [req EXCEPT ![r] = q]
  BY DEF Goes
<1>2. req \in [Request -> RequestType] /\ tasks \in [Request -> Seq(BareTask)]
  BY DEF AgentInv, Shapes
<1>3. Shapes'
  BY <1>1, <1>2 DEF AgentInv, Shapes
<1>4. RowsFound'
  BY DEF AgentInv, RowsFound, Inserts, Inserted
<1>5. TasksInTurn'
  BY <1>1, <1>2 DEF AgentInv, TasksInTurn
<1>6. CallsInv'
  BY <1>1, <1>2 DEF AgentInv, CallsInv, CallsKept
<1> QED BY <1>3, <1>4, <1>5, <1>6 DEF AgentInv

\* A request at the model or at the tools has scheduled nothing.
LEMMA NothingScheduled ==
  ASSUME AgentInv, NEW r \in Request, req[r].pc \in {"new", "model", "tools"}
  PROVE  tasks[r] = <<>> /\ req[r] \in RequestType
BY DEF AgentInv, TasksInTurn, Shapes

LEMMA RequestEnds ==
  ASSUME AgentInv, NEW r \in Request, Ends(r), UNCHANGED <<stored, stops>>
  PROVE  AgentInv'
<1>1. Over.pc = "done" /\ CallsKept(Over)
  BY DEF Over, NewRequest, CallsKept
<1> QED BY <1>1, NewRequestType, RequestMoves DEF Ends

LEMMA MessagesSaid ==
  ASSUME NEW r \in Request, NEW calls \in Seq(Call),
         NEW kind \in {"user", "answer", "call", "tool"}
  PROVE  /\ Says(kind, r, calls) \in Message
         /\ Says(kind, r, calls).kind = kind /\ Says(kind, r, calls).calls = calls
BY DEF Says, Message

LEMMA StartKeeps ==
  ASSUME AgentInv, NEW r \in Request, NEW v \in Variant, NEW b \in BOOLEAN, Start(r, v, b)
  PROVE  AgentInv'
<1>1. CASE Ends(r)
  BY <1>1, RequestEnds DEF Start
<1>2. ASSUME NEW loaded \in Loadable,
             Goes(r, [NewRequest EXCEPT !.pc = "model", !.variant = v, !.remembers = b,
               !.said = Append(IF b THEN loaded ELSE <<>>, Says("user", r, <<>>))])
      PROVE  AgentInv'
  <2> DEFINE m == Says("user", r, <<>>)
             base == IF b THEN loaded ELSE <<>>
             said == Append(base, m)
             q == [NewRequest EXCEPT !.pc = "model", !.variant = v, !.remembers = b,
                                     !.said = said]
  <2>1. loaded \in Seq(Bare)
    <3>1. \A i \in Request : rows[i].messages \in Seq(Bare)
      BY DEF AgentInv, Shapes, RowType
    <3>2. <<>> \in Seq(Bare)
      OBVIOUS
    <3> QED BY <3>1, <3>2 DEF Loadable, Inserts
  <2>2. base \in Seq(Bare)
    BY <2>1
  <2>3. m \in Bare
    <3>1. <<>> \in Seq(Call)
      OBVIOUS
    <3> QED BY <3>1, MessagesSaid DEF Bare
  <2> HIDE DEF m, base
  <2>4. said \in Seq(Bare)
    BY <2>2, <2>3
  <2>5. said \in Seq(Message) /\ \A i \in 1 .. Len(said) : said[i].calls = <<>>
    <3> HIDE DEF said
    <3>1. \A i \in 1 .. Len(said) : said[i] \in Bare
      BY <2>4
    <3>2. \A i \in 1 .. Len(said) : said[i] \in Message /\ said[i].calls = <<>>
      BY <3>1 DEF Bare
    <3>3. Bare \subseteq Message
      BY DEF Bare
    <3> QED BY <2>4, <3>2, <3>3
  <2> HIDE DEF said
  <2>6. q \in RequestType /\ q.pc = "model" /\ q.said = said
    BY <2>5, NewRequestType DEF RequestType, NewRequest, Pc
  <2>7. CallsKept(q)
    <3> HIDE DEF q
    <3>1. AllAnswered(said, q.variant)
      BY <2>5, NothingCalled
    <3> QED BY <3>1, <2>6 DEF CallsKept
  <2>8. Goes(r, q)
    BY <1>2 DEF q, said, base, m
  <2>9. tasks[r] = <<>>
    BY NothingScheduled DEF Start
  <2> HIDE DEF q
  <2> QED BY <2>6, <2>7, <2>8, <2>9, RequestMoves DEF Start
<1> QED BY <1>1, <1>2 DEF Start

LEMMA AnswerKeeps ==
  ASSUME AgentInv, NEW r \in Request, NEW answer \in Answers(r), Answer(r, answer)
  PROVE  AgentInv'
<1>1. tasks[r] = <<>> /\ req[r] \in RequestType
  BY NothingScheduled DEF Answer, Asks
<1>2. req[r].said \in Seq(Message)
  BY <1>1 DEF RequestType
<1>3. answer \in Seq(Message)
  <2>1. <<>> \in Seq(Call)
    OBVIOUS
  <2>2. Says("answer", r, <<>>) \in Message
    BY <2>1, MessagesSaid
  <2> DEFINE m == Says("answer", r, <<>>)
  <2>3. answer = <<>> \/ answer = <<m>>
    BY DEF Answers
  <2> HIDE DEF m
  <2>4. <<m>> \in Seq(Message) /\ <<>> \in Seq(Message)
    BY <2>2 DEF m
  <2> QED BY <2>3, <2>4
<1>4. req[r].said \o answer \in Seq(Message)
  BY <1>2, <1>3
<1>5. SavingTasks(req[r].said \o answer) \in Seq(BareTask)
  BY <1>4, SavingTasksType
<1>6. Over.pc = "done" /\ Goes(r, Over) /\ UNCHANGED <<rows, latest, hand, stops>>
  BY DEF Answer, Ends, Over, NewRequest
<1>7. CASE req[r].remembers
  BY <1>1, <1>5, <1>6, <1>7, NewRequestType, RequestSchedules DEF Answer
<1>8. CASE ~ req[r].remembers
  BY <1>8, RequestEnds DEF Answer, stored
<1> QED BY <1>7, <1>8

LEMMA CallToolsKeeps ==
  ASSUME AgentInv, NEW r \in Request, NEW calls \in CallLists, CallTools(r, calls)
  PROVE  AgentInv'
<1> DEFINE m == Says("call", r, calls)
           said == Append(req[r].said, m)
           q == [Asked(r) EXCEPT !.pc = "tools", !.left = calls, !.said = Append(@, m)]
<1>1. tasks[r] = <<>> /\ req[r] \in RequestType
  BY NothingScheduled DEF CallTools, Asks
<1>2. /\ req[r].said \in Seq(Message) /\ req[r].turns \in 0 .. MaxTurns
      /\ req[r].turns < MaxTurns /\ AllAnswered(req[r].said, req[r].variant)
  BY <1>1 DEF RequestType, CallTools, Asks, AgentInv, CallsInv, CallsKept
<1>3. calls \in Seq(Call)
  BY CallListsAssumption
<1>4. m \in Message /\ m.calls = calls
  BY <1>3, MessagesSaid
<1>5. Goes(r, q) /\ UNCHANGED <<stored, stops>>
  BY DEF CallTools
<1> HIDE DEF m
<1>6. AtCall(said, calls, req[r].variant, Len(req[r].said) + 1)
  BY <1>2, <1>4, CallAsked
<1>7. said \in Seq(Message) /\ Len(req[r].said) + 1 \in 1 .. Len(said)
  BY <1>2, <1>4
<1>8. req[r].turns + 1 \in 0 .. MaxTurns
  BY <1>2
<1>9. /\ q \in RequestType /\ q.pc = "tools" /\ q.said = said /\ q.left = calls
      /\ q.variant = req[r].variant
  BY <1>1, <1>3, <1>7, <1>8 DEF RequestType, Asked, Pc
<1> HIDE DEF q, said
<1>10. CallsKept(q)
  BY <1>6, <1>7, <1>9 DEF CallsKept
<1> QED BY <1>1, <1>5, <1>9, <1>10, RequestMoves

LEMMA BlankKeeps ==
  ASSUME AgentInv, NEW r \in Request, Blank(r)
  PROVE  AgentInv'
<1>1. tasks[r] = <<>> /\ req[r] \in RequestType
  BY NothingScheduled DEF Blank, Asks
<1>2. req[r].turns + 1 \in 0 .. MaxTurns
  BY <1>1 DEF RequestType, Blank, Asks
<1>3. /\ Asked(r) \in RequestType /\ Asked(r).pc = req[r].pc /\ Asked(r).said = req[r].said
      /\ Asked(r).left = req[r].left /\ Asked(r).variant = req[r].variant
  BY <1>1, <1>2 DEF RequestType, Asked
<1>4. CallsKept(req[r])
  BY DEF AgentInv, CallsInv
<1>5. CallsKept(Asked(r))
  BY <1>3, <1>4 DEF CallsKept
<1> QED BY <1>1, <1>3, <1>5, RequestMoves DEF Blank

LEMMA TurnKeeps ==
  ASSUME AgentInv, NEW r \in Request, Turn(r)
  PROVE  AgentInv'
<1>1. CASE Blank(r)
  BY <1>1, BlankKeeps
<1>2. CASE NoAnswer(r)
  BY <1>2, RequestEnds DEF NoAnswer
<1>3. CASE LimitTurns(r)
  BY <1>3, RequestEnds DEF LimitTurns
<1>4. ASSUME NEW calls \in CallLists, CallTools(r, calls)
      PROVE  AgentInv'
  BY <1>4, CallToolsKeeps
<1> QED BY <1>1, <1>2, <1>3, <1>4 DEF Turn

\* What is known of a request at its next call.
LEMMA AtTools ==
  ASSUME AgentInv, NEW r \in Request, NEW t, Calls(r, t)
  PROVE  /\ tasks[r] = <<>> /\ req[r] \in RequestType
         /\ req[r].said \in Seq(Message) /\ req[r].left \in Seq(Call)
         /\ req[r].left # <<>> /\ t = Head(req[r].left) /\ t \in Call
         /\ \E p \in 1 .. Len(req[r].said) :
              AtCall(req[r].said, req[r].left, req[r].variant, p)
<1>1. tasks[r] = <<>> /\ req[r] \in RequestType
  BY NothingScheduled DEF Calls
<1>2. req[r].said \in Seq(Message) /\ req[r].left \in Seq(Call)
  BY <1>1 DEF RequestType
<1>3. req[r].left # <<>> /\ t = Head(req[r].left)
  BY DEF Calls
<1>4. t \in Call
  BY <1>2, <1>3
<1>5. \E p \in 1 .. Len(req[r].said) : AtCall(req[r].said, req[r].left, req[r].variant, p)
  BY DEF AgentInv, CallsInv, CallsKept, Calls
<1> QED BY <1>1, <1>2, <1>3, <1>4, <1>5

\* A call has its result, and may be counted.
LEMMA RepliedKeeps ==
  ASSUME AgentInv, NEW r \in Request, NEW t, Calls(r, t),
         NEW runs \in [Call -> 0 .. MaxToolCalls],
         Goes(r, [Replied(r, t) EXCEPT !.runs = runs]), UNCHANGED <<stored, stops>>
  PROVE  AgentInv'
<1> DEFINE m == Says("tool", r, <<t>>)
           said == Append(req[r].said, m)
           rest == Tail(req[r].left)
           q == [Replied(r, t) EXCEPT !.runs = runs]
<1>1. /\ tasks[r] = <<>> /\ req[r] \in RequestType
      /\ req[r].said \in Seq(Message) /\ req[r].left \in Seq(Call)
      /\ req[r].left # <<>> /\ t = Head(req[r].left) /\ t \in Call
  BY AtTools
<1>2. PICK p \in 1 .. Len(req[r].said) : AtCall(req[r].said, req[r].left, req[r].variant, p)
  BY AtTools
<1>3. m \in Message /\ m.kind = "tool" /\ m.calls = <<t>>
  <2>1. <<t>> \in Seq(Call)
    BY <1>1
  <2> QED BY <2>1, MessagesSaid
<1>4. q = [req[r] EXCEPT !.left = rest, !.said = said, !.runs = runs]
  BY <1>1 DEF Replied, Skip, RequestType
<1> HIDE DEF m
<1>5. AtCall(said, rest, req[r].variant, p)
  BY <1>1, <1>2, <1>3, CallReplied
<1>6. said \in Seq(Message) /\ rest \in Seq(Call) /\ p \in 1 .. Len(said)
  BY <1>1, <1>3
<1> HIDE DEF said, rest, q
<1>7. /\ q \in RequestType /\ q.pc = "tools" /\ q.said = said /\ q.left = rest
      /\ q.variant = req[r].variant
  BY <1>1, <1>4, <1>6 DEF RequestType, Calls
<1>8. CallsKept(q)
  BY <1>5, <1>6, <1>7 DEF CallsKept
<1> QED BY <1>1, <1>7, <1>8, RequestMoves DEF q

\* A call is skipped, alone or with those that follow.
LEMMA SkippedKeeps ==
  ASSUME AgentInv, NEW r \in Request, NEW t, Calls(r, t), MaySkip(req[r].variant, t),
         NEW rest \in Seq(Call),
         Goes(r, [req[r] EXCEPT !.left = rest]), UNCHANGED <<stored, stops>>
  PROVE  AgentInv'
<1> DEFINE q == [req[r] EXCEPT !.left = rest]
<1>1. /\ tasks[r] = <<>> /\ req[r] \in RequestType
      /\ req[r].said \in Seq(Message) /\ req[r].left \in Seq(Call)
      /\ req[r].left # <<>> /\ t = Head(req[r].left) /\ t \in Call
  BY AtTools
<1>2. PICK p \in 1 .. Len(req[r].said) : AtCall(req[r].said, req[r].left, req[r].variant, p)
  BY AtTools
<1>3. AtCall(req[r].said, rest, req[r].variant, p)
  BY <1>1, <1>2, CallSkipped
<1>4. /\ q \in RequestType /\ q.pc = "tools" /\ q.said = req[r].said /\ q.left = rest
      /\ q.variant = req[r].variant
  BY <1>1 DEF RequestType, Calls
<1> HIDE DEF q
<1>5. CallsKept(q)
  BY <1>2, <1>3, <1>4 DEF CallsKept
<1> QED BY <1>1, <1>4, <1>5, RequestMoves DEF q

LEMMA NextTurnKeeps ==
  ASSUME AgentInv, NEW r \in Request, NextTurn(r)
  PROVE  AgentInv'
<1> DEFINE q == [req[r] EXCEPT !.pc = "model"]
<1>1. tasks[r] = <<>> /\ req[r] \in RequestType
  BY NothingScheduled DEF NextTurn
<1>2. PICK p \in 1 .. Len(req[r].said) : AtCall(req[r].said, req[r].left, req[r].variant, p)
  BY DEF AgentInv, CallsInv, CallsKept, NextTurn
<1>3. req[r].said \in Seq(Message)
  BY <1>1 DEF RequestType
<1>4. AllAnswered(req[r].said, req[r].variant)
  BY <1>2, <1>3, CallsDone DEF NextTurn
<1>5. q \in RequestType /\ q.pc = "model" /\ q.said = req[r].said /\ q.variant = req[r].variant
  BY <1>1 DEF RequestType, Pc
<1> HIDE DEF q
<1>6. CallsKept(q)
  BY <1>4, <1>5 DEF CallsKept
<1> QED BY <1>1, <1>5, <1>6, RequestMoves DEF NextTurn, q

LEMMA CountedKeeps ==
  ASSUME AgentInv, NEW r \in Request, NEW t, Runs(r, t), Goes(r, Counted(r, t)),
         UNCHANGED <<stored, stops>>
  PROVE  AgentInv'
<1> DEFINE runs == [req[r].runs EXCEPT ![t] = @ + 1]
<1>1. Calls(r, t) /\ req[r].runs[t] < MaxToolCalls
  BY DEF Runs
<1>2. req[r] \in RequestType /\ t \in Call
  BY <1>1, AtTools
<1>3. req[r].runs \in [Call -> 0 .. MaxToolCalls]
  BY <1>2 DEF RequestType
<1>4. runs \in [Call -> 0 .. MaxToolCalls]
  BY <1>1, <1>2, <1>3
<1>5. Counted(r, t) = [Replied(r, t) EXCEPT !.runs = runs]
  BY <1>2 DEF Counted, Replied, Skip, RequestType
<1> HIDE DEF runs
<1> QED BY <1>1, <1>4, <1>5, RepliedKeeps

LEMMA UncountedKeeps ==
  ASSUME AgentInv, NEW r \in Request, NEW t, Calls(r, t), Goes(r, Replied(r, t)),
         UNCHANGED <<stored, stops>>
  PROVE  AgentInv'
<1>1. req[r] \in RequestType
  BY AtTools
<1>2. req[r].runs \in [Call -> 0 .. MaxToolCalls]
  BY <1>1 DEF RequestType
<1>3. Replied(r, t) = [Replied(r, t) EXCEPT !.runs = req[r].runs]
  BY <1>1 DEF Replied, Skip, RequestType
<1> QED BY <1>2, <1>3, RepliedKeeps

LEMMA ToolsKeep ==
  ASSUME AgentInv, NEW r \in Request, Tools(r)
  PROVE  AgentInv'
<1>1. CASE SkipNameless(r)
  <2>1. Calls(r, Nameless) /\ MaySkip(req[r].variant, Nameless)
    BY <1>1 DEF SkipNameless, Streams, MaySkip
  <2>2. Tail(req[r].left) \in Seq(Call)
    BY <2>1, AtTools
  <2> QED BY <1>1, <2>1, <2>2, SkippedKeeps DEF SkipNameless, Skip
<1>2. CASE ResetMemory(r)
  <2> DEFINE q == [req[r] EXCEPT !.pc = "reset"]
  <2>1. tasks[r] = <<>> /\ req[r] \in RequestType
    BY <1>2, NothingScheduled DEF ResetMemory, Calls
  <2>2. q \in RequestType /\ q.pc = "reset"
    BY <2>1 DEF RequestType, Pc
  <2>3. <<[op |-> "clear"]>> \in Seq(BareTask)
    BY DEF BareTask
  <2> HIDE DEF q
  <2> QED BY <1>2, <2>1, <2>2, <2>3, RequestSchedules DEF ResetMemory, q
<1>3. CASE ResetDone(r)
  BY <1>3, RequestEnds DEF ResetDone
<1>4. CASE NextTurn(r)
  BY <1>4, NextTurnKeeps
<1>5. ASSUME NEW t \in Call, LimitTool(r, t)
      PROVE  AgentInv'
  BY <1>5, UncountedKeeps DEF LimitTool
<1>6. ASSUME NEW t \in Call, RunServed(r, t)
      PROVE  AgentInv'
  BY <1>6, UncountedKeeps, RequestEnds DEF RunServed, Runs
<1>7. ASSUME NEW t \in Call, LeaveCustom(r, t)
      PROVE  AgentInv'
  BY <1>7, RequestEnds DEF LeaveCustom
<1>8. ASSUME NEW t \in Call, RunWorkflow(r, t)
      PROVE  AgentInv'
  BY <1>8, CountedKeeps, RequestEnds DEF RunWorkflow
<1>9. ASSUME NEW t \in Call, RefuseUnknown(r, t)
      PROVE  AgentInv'
  <2>1. CASE req[r].variant = "bedrock"
    <3>1. t = Unknown /\ MaySkip(req[r].variant, t) /\ Calls(r, t)
      BY <1>9, <2>1 DEF RefuseUnknown, Streams, MaySkip, Runs
    <3>2. <<>> \in Seq(Call)
      OBVIOUS
    <3> QED BY <1>9, <2>1, <3>1, <3>2, SkippedKeeps DEF RefuseUnknown
  <2>2. CASE req[r].variant # "bedrock"
    BY <1>9, <2>2, CountedKeeps DEF RefuseUnknown
  <2> QED BY <2>1, <2>2
<1> QED BY <1>1, <1>2, <1>3, <1>4, <1>5, <1>6, <1>7, <1>8, <1>9 DEF Tools

----------------------------------------------------------------------------
(* Tasks, disconnections and stops *)

LEMMA DisconnectKeeps ==
  ASSUME AgentInv, NEW r \in Request, Disconnect(r)
  PROVE  AgentInv'
<1>1. /\ req' = [req EXCEPT ![r] = Over] /\ tasks' = [tasks EXCEPT ![r] = <<>>]
      /\ hand' = [hand EXCEPT ![r] = NoHand] /\ UNCHANGED <<rows, latest, stops>>
  BY DEF Disconnect, Ends, Goes
<1>2. /\ req \in [Request -> RequestType] /\ tasks \in [Request -> Seq(BareTask)]
      /\ hand \in [Request -> HandType]
  BY DEF AgentInv, Shapes
<1>3. NoHand \in HandType /\ NoHand.stage = "waiting" /\ NoHand.row = NoRequest
  BY DEF NoHand, HandType
<1>4. Over \in RequestType /\ Over.pc = "done"
  BY NewRequestType DEF Over, NewRequest
<1>5. Shapes'
  BY <1>1, <1>2, <1>3, <1>4 DEF AgentInv, Shapes
<1>6. RowsFound'
  BY <1>1, <1>2, <1>3 DEF AgentInv, RowsFound, Inserts, Inserted
<1>7. TasksInTurn'
  BY <1>1, <1>2, <1>3, <1>4 DEF AgentInv, TasksInTurn
<1>8. CallsInv'
  BY <1>1, <1>2, <1>4 DEF AgentInv, CallsInv, CallsKept
<1> QED BY <1>5, <1>6, <1>7, <1>8 DEF AgentInv

\* The first task of a request is gone; rows may have been written, none goes.
LEMMA TaskIsGone ==
  ASSUME AgentInv, NEW r \in Request, HasTask(r), Pops(r), UNCHANGED <<req, stops>>,
         rows' \in [Request -> RowType], Inserts \subseteq Inserts',
         latest' \in Inserts' \cup {NoRequest}, latest' = NoRequest <=> Inserts' = {}
  PROVE  AgentInv'
<1>1. tasks' = [tasks EXCEPT ![r] = Tail(@)] /\ hand' = [hand EXCEPT ![r] = NoHand]
  BY DEF Pops
<1>2. /\ req \in [Request -> RequestType] /\ tasks \in [Request -> Seq(BareTask)]
      /\ hand \in [Request -> HandType]
  BY DEF AgentInv, Shapes
<1>3. NoHand \in HandType /\ NoHand.stage = "waiting" /\ NoHand.row = NoRequest
  BY DEF NoHand, HandType
<1>4. Tail(tasks[r]) \in Seq(BareTask)
  BY <1>2 DEF HasTask
<1>5. Shapes'
  BY <1>1, <1>2, <1>3, <1>4 DEF AgentInv, Shapes
<1>6. RowsFound'
  BY <1>1, <1>2, <1>3 DEF AgentInv, RowsFound
<1>7. TasksInTurn'
  BY <1>1, <1>2, <1>3 DEF AgentInv, TasksInTurn, HasTask
<1>8. CallsInv'
  BY DEF AgentInv, CallsInv
<1> QED BY <1>5, <1>6, <1>7, <1>8 DEF AgentInv

LEMMA LoseTaskKeeps ==
  ASSUME AgentInv, NEW r \in Request, HasTask(r), Pops(r), UNCHANGED <<rows, latest, req, stops>>
  PROVE  AgentInv'
<1>1. Inserts' = Inserts
  BY DEF Inserts, Inserted
<1>2. rows \in [Request -> RowType] /\ latest \in Inserts \cup {NoRequest}
      /\ (latest = NoRequest <=> Inserts = {})
  BY DEF AgentInv, Shapes, RowsFound
<1> QED BY <1>1, <1>2, TaskIsGone

LEMMA ReadRowKeeps ==
  ASSUME AgentInv, NEW r \in Request, ReadRow(r)
  PROVE  AgentInv'
<1>1. CASE Pops(r)
  BY <1>1, LoseTaskKeeps DEF ReadRow
<1>2. ASSUME NEW i \in Inserts \cup {NoRequest}, UNCHANGED tasks,
             hand' = [hand EXCEPT ![r] = [stage |-> "read", row |-> i,
                        messages |-> IF i = NoRequest THEN <<>> ELSE rows[i].messages]]
      PROVE  AgentInv'
  <2> DEFINE messages == IF i = NoRequest THEN <<>> ELSE rows[i].messages
             h == [stage |-> "read", row |-> i, messages |-> messages]
  <2>1. \A k \in Request : rows[k].messages \in Seq(Bare)
    BY DEF AgentInv, Shapes, RowType
  <2>2. i \in Request \cup {NoRequest} /\ <<>> \in Seq(Bare)
    BY DEF Inserts
  <2>3. messages \in Seq(Bare)
    BY <2>1, <2>2
  <2> HIDE DEF messages
  <2>4. h \in HandType /\ h.stage = "read" /\ h.row = i
    BY <2>2, <2>3 DEF HandType
  <2>5. hand' = [hand EXCEPT ![r] = h] /\ UNCHANGED <<rows, latest, req, tasks, stops>>
    BY <1>2 DEF ReadRow, messages
  <2> HIDE DEF h
  <2>6. hand \in [Request -> HandType]
    BY DEF AgentInv, Shapes
  <2>7. Shapes'
    BY <2>4, <2>5, <2>6 DEF AgentInv, Shapes
  <2>8. RowsFound'
    BY <2>4, <2>5, <2>6 DEF AgentInv, RowsFound, Inserts, Inserted
  <2>9. TasksInTurn'
    BY <2>4, <2>5, <2>6 DEF AgentInv, TasksInTurn, ReadRow, HasTask
  <2>10. CallsInv'
    BY <2>5 DEF AgentInv, CallsInv
  <2> QED BY <2>7, <2>8, <2>9, <2>10 DEF AgentInv
<1>3. latest \in Inserts \cup {NoRequest}
  BY DEF AgentInv, RowsFound
<1> QED BY <1>1, <1>2, <1>3 DEF ReadRow

LEMMA WriteRowKeeps ==
  ASSUME AgentInv, NEW r \in Request, WriteRow(r)
  PROVE  AgentInv'
<1> DEFINE i == IF hand[r].row = NoRequest THEN r ELSE hand[r].row
           new == [there |-> TRUE, messages |-> NewMessages(r)]
<1>1. /\ HasTask(r) /\ Pops(r) /\ UNCHANGED <<req, stops>>
      /\ rows' = [rows EXCEPT ![i] = new] /\ latest' = i
  BY DEF WriteRow
<1>2. /\ rows \in [Request -> RowType] /\ tasks[r] \in Seq(BareTask) /\ tasks[r] # <<>>
      /\ hand[r] \in HandType
  BY DEF AgentInv, Shapes, WriteRow, HasTask
<1>3. i \in Request
  BY DEF AgentInv, RowsFound, Inserts
<1>4. NewMessages(r) \in Seq(Bare)
  <2>1. Head(tasks[r]) \in BareTask
    BY <1>2
  <2>2. Head(tasks[r]).op # "clear" => Head(tasks[r]).message \in Bare
    BY <2>1 DEF BareTask
  <2>3. hand[r].messages \in Seq(Bare)
    BY <1>2 DEF HandType
  <2> QED BY <2>2, <2>3 DEF NewMessages
<1>5. new \in RowType /\ new.there
  BY <1>4 DEF RowType
<1> HIDE DEF i, new
<1>6. rows' \in [Request -> RowType] /\ i # NoRequest
  BY <1>1, <1>2, <1>3, <1>5
<1>7. Inserts \subseteq Inserts' /\ i \in Inserts'
  BY <1>1, <1>2, <1>3, <1>5 DEF Inserts, Inserted
<1> QED BY <1>1, <1>6, <1>7, TaskIsGone

LEMMA StopKeeps ==
  ASSUME AgentInv, Stop
  PROVE  AgentInv'
<1>1. /\ req' = [r \in Request |-> IF Working(r) THEN Over ELSE req[r]]
      /\ tasks' = [r \in Request |-> <<>>] /\ hand' = [r \in Request |-> NoHand]
      /\ UNCHANGED <<rows, latest>> /\ stops < MaxStops /\ stops' = stops + 1
  BY DEF Stop
<1>2. req \in [Request -> RequestType] /\ stops \in 0 .. MaxStops
  BY DEF AgentInv, Shapes
<1>3. NoHand \in HandType /\ NoHand.stage = "waiting" /\ NoHand.row = NoRequest
  BY DEF NoHand, HandType
<1>4. Over \in RequestType /\ Over.pc = "done"
  BY NewRequestType DEF Over, NewRequest
<1>5. Shapes'
  <2>1. <<>> \in Seq(BareTask) /\ stops' \in 0 .. MaxStops
    BY <1>1, <1>2
  <2> QED BY <2>1, <1>1, <1>2, <1>3, <1>4 DEF AgentInv, Shapes
<1>6. RowsFound'
  BY <1>1, <1>3 DEF AgentInv, RowsFound, Inserts, Inserted
<1>7. TasksInTurn'
  BY <1>1, <1>3 DEF TasksInTurn
<1>8. CallsInv'
  BY <1>1, <1>4 DEF AgentInv, CallsInv, CallsKept
<1> QED BY <1>5, <1>6, <1>7, <1>8 DEF AgentInv

LEMMA AgentNext == AgentInv /\ [Next]_vars => AgentInv'
<1> SUFFICES ASSUME AgentInv, [Next]_vars PROVE AgentInv'
  OBVIOUS
<1>1. CASE Stop
  BY <1>1, StopKeeps
<1>2. ASSUME NEW r \in Request, Begin(r) PROVE AgentInv'
  BY <1>2, StartKeeps DEF Begin
<1>3. ASSUME NEW r \in Request, Finish(r) PROVE AgentInv'
  BY <1>3, AnswerKeeps DEF Finish
<1>4. ASSUME NEW r \in Request, Turn(r) \/ Tools(r) PROVE AgentInv'
  BY <1>4, TurnKeeps, ToolsKeep
<1>5. ASSUME NEW r \in Request, Disconnect(r) PROVE AgentInv'
  BY <1>5, DisconnectKeeps
<1>6. ASSUME NEW r \in Request, TaskStep(r) PROVE AgentInv'
  BY <1>6, ReadRowKeeps, WriteRowKeeps DEF TaskStep
<1>7. ASSUME NEW r \in Request, LoseTask(r) PROVE AgentInv'
  BY <1>7, LoseTaskKeeps DEF LoseTask
<1>8. CASE UNCHANGED vars
  <2>1. UNCHANGED <<rows, latest, req, tasks, hand, stops>>
    BY <1>8 DEF vars
  <2>2. Shapes' /\ TasksInTurn' /\ CallsInv'
    BY <2>1 DEF AgentInv, Shapes, TasksInTurn, CallsInv
  <2>3. RowsFound'
    BY <2>1 DEF AgentInv, RowsFound, Inserts, Inserted
  <2> QED BY <2>2, <2>3 DEF AgentInv
<1> QED BY <1>1, <1>2, <1>3, <1>4, <1>5, <1>6, <1>7, <1>8 DEF Next

LEMMA AgentAlways == Spec => []AgentInv
<1> QED BY AgentInit, AgentNext, PTL DEF Spec

\* Every reachable state of requests, tasks and rows is well formed.
THEOREM AgentTypeCorrect == Spec => []TypeOK
<1> QED BY AgentAlways, AgentTypes, PTL

\* The history variables restrict no step.
LEMMA MemoryIsHistory == SpecM => Spec
<1>1. InitM => Init
  BY DEF InitM
<1>2. [NextM]_<<vars, history>> => [Next]_vars
  BY DEF NextM, BeginM, FinishM, ResetM, TaskM, LossM, OtherM, Next, Finish, Tools
<1> QED BY <1>1, <1>2, PTL DEF Spec, SpecM

\* When the model is asked, each call of the conversation has its result,
\* whichever way the loop over the calls has taken, but for those that the
\* streams skip.
THEOREM CallsHaveResults == SpecM => []CallsAnswered
<1>1. AgentInv => CallsAnswered
  <2> SUFFICES ASSUME AgentInv, NEW r \in Request, req[r].pc = "model",
                      NEW i \in 1 .. Len(req[r].said), req[r].said[i].kind = "call",
                      ~ Complete(req[r].said, i)
               PROVE  \E j \in 1 .. Len(req[r].said[i].calls) : Skipped(r, req[r].said[i].calls[j])
    BY DEF CallsAnswered
  <2>1. Answered(req[r].said, req[r].variant, i)
    BY DEF AgentInv, CallsInv, CallsKept, AllAnswered
  <2> QED BY <2>1 DEF Answered, SkipsOne, MaySkip, Skipped
<1> QED BY <1>1, AgentAlways, MemoryIsHistory, PTL

----------------------------------------------------------------------------
(* The history and the conversation. The invariant says, unless there is   *)
(* doubt, that a request which goes on alone has the conversation in hand, *)
(* and that the tasks that are left complete the history.                  *)

Rest(ts) == [i \in 1 .. Len(ts) |-> ts[i].message]
Appends(ts) == \A i \in 1 .. Len(ts) : ts[i].op = "append"
SpokenBare(ms) == \A i \in 1 .. Len(ms) : Spoken(ms[i]) => ms[i].calls = <<>>

\* Requests that are at work at the same time overlap.
Overlaps ==
  /\ clash \subseteq Request
  /\ \A r, s \in Request : r # s /\ Live(r) /\ Live(s) => r \in clash

\* A request that will be remembered has the conversation and its question.
Tells(r) ==
  r \notin clash /\ req[r].remembers /\ req[r].pc \in {"model", "tools"} =>
    Conversation(req[r].said) = Append(memory, Says("user", r, <<>>))

\* The tasks of a single request at a time are left: either all of them, ...
Clearing(r) ==
  Appends(Tail(tasks[r])) /\ Conversation(Rest(Tail(tasks[r]))) = memory
\* ... or some of those that append, to what is there and has been read.
Appending(r) ==
  /\ Appends(tasks[r])
  /\ \A ms \in Loadable : Conversation(ms \o Rest(tasks[r])) = memory
  /\ hand[r].stage = "read" => hand[r].messages \in Loadable
Saves(r) == HasTask(r) =>
  /\ \A s \in Request \ {r} : ~ HasTask(s)
  /\ IF Head(tasks[r]).op = "clear" THEN Clearing(r) ELSE Appending(r)

OneRow == \A r, s \in Inserts : r = s
Rested ==
  (\A r \in Request : ~ HasTask(r)) => \A ms \in Loadable : Conversation(ms) = memory

Certain == OneRow /\ Rested /\ \A r \in Request : Tells(r) /\ Saves(r)

MemoryInv ==
  /\ AgentInv /\ memory \in Seq(Message) /\ doubt \in BOOLEAN /\ IsFiniteSet(Inserts)
  /\ Overlaps /\ \A r \in Request : SpokenBare(req[r].said)
  /\ ~ doubt => Certain

----------------------------------------------------------------------------
(* Places and those that come later *)

\* The k-th place is the one that k places come up to.
LEMMA NthUnique ==
  ASSUME NEW n \in Nat, NEW at \in SUBSET (1 .. n), NEW i \in at,
         NEW k \in 1 .. Cardinality(at), Cardinality({j \in at : j <= i}) = k
  PROVE  Nth(at, k) = i
<1> DEFINE Upto(m) == {j \in at : j <= m}
<1>1. PICK m : m = Nth(at, k)
  OBVIOUS
<1>2. m \in at /\ Cardinality(Upto(m)) = k /\ Cardinality(Upto(i)) = k
  BY <1>1, NthIsOne
<1>3. IsFiniteSet(Upto(m)) /\ IsFiniteSet(Upto(i))
  BY PlacesAreFinite, FS_Subset
<1>4. m \in Nat /\ i \in Nat
  BY <1>2
<1>5. m \in Upto(m) /\ i \in Upto(i)
  BY <1>2, <1>4
<1>6. CASE m <= i
  <2>1. Upto(m) \subseteq Upto(i)
    <3>1. \A j \in at : j \in Nat /\ (j <= m => j <= i)
      BY <1>4, <1>6
    <3> QED BY <3>1
  <2> HIDE DEF Upto
  <2>2. Upto(m) = Upto(i)
    BY <2>1, <1>2, <1>3, FS_Subset
  <2>3. i \in Upto(m)
    BY <2>2, <1>5
  <2> QED BY <2>3, <1>1, <1>4, <1>6 DEF Upto
<1>7. CASE i <= m
  <2>1. Upto(i) \subseteq Upto(m)
    <3>1. \A j \in at : j \in Nat /\ (j <= i => j <= m)
      BY <1>4, <1>7
    <3> QED BY <3>1
  <2> HIDE DEF Upto
  <2>2. Upto(m) = Upto(i)
    BY <2>1, <1>2, <1>3, FS_Subset
  <2>3. m \in Upto(i)
    BY <2>2, <1>5
  <2> QED BY <2>3, <1>1, <1>4, <1>7 DEF Upto
<1> QED BY <1>4, <1>6, <1>7

\* Places that come later leave the first ones as they are.
LEMMA MorePlaces ==
  ASSUME NEW n \in Nat, NEW p \in Nat, n <= p, NEW at \in SUBSET (1 .. n),
         NEW more \in SUBSET (n + 1 .. p)
  PROVE  /\ at \cup more \in SUBSET (1 .. p)
         /\ Cardinality(at) \in Nat /\ Cardinality(at \cup more) \in Nat
         /\ Cardinality(at) <= Cardinality(at \cup more)
<1> DEFINE all == at \cup more
<1>1. all \in SUBSET (1 .. p)
  OBVIOUS
<1>2. at \subseteq all
  OBVIOUS
<1> HIDE DEF all
<1>3. /\ IsFiniteSet(all) /\ Cardinality(all) \in Nat
      /\ IsFiniteSet(at) /\ Cardinality(at) \in Nat
  BY <1>1, PlacesAreFinite
<1>4. Cardinality(at) <= Cardinality(all)
  BY <1>2, <1>3, FS_Subset
<1> QED BY <1>1, <1>3, <1>4 DEF all

LEMMA NthBelow ==
  ASSUME NEW n \in Nat, NEW p \in Nat, n <= p, NEW at \in SUBSET (1 .. n),
         NEW more \in SUBSET (n + 1 .. p), NEW k \in 1 .. Cardinality(at)
  PROVE  Nth(at \cup more, k) = Nth(at, k)
<1> DEFINE all == at \cup more
<1>1. /\ all \in SUBSET (1 .. p)
      /\ Cardinality(all) \in Nat /\ Cardinality(at) \in Nat
      /\ Cardinality(at) <= Cardinality(all)
  BY MorePlaces
<1>2. PICK i : i = Nth(at, k)
  OBVIOUS
<1>3. i \in at /\ Cardinality({j \in at : j <= i}) = k
  BY <1>2, NthIsOne
<1>4. {j \in all : j <= i} = {j \in at : j <= i}
  <2>1. i \in 1 .. n /\ \A j \in more : ~ (j <= i)
    BY <1>3
  <2> QED BY <2>1
<1>5. i \in all
  BY <1>3
<1> HIDE DEF all
<1>6. k \in 1 .. Cardinality(all)
  BY <1>1
<1>7. Nth(all, k) = i
  BY <1>1, <1>3, <1>4, <1>5, <1>6, NthUnique
<1> QED BY <1>2, <1>7 DEF all

LEMMA ThoseAppend ==
  ASSUME NEW ms \in Seq(Message), NEW n \in Nat, NEW at \in SUBSET (1 .. n),
         NEW i \in n + 1 .. Len(ms)
  PROVE  Those(ms, at \cup {i}) = Append(Those(ms, at), ms[i])
<1> DEFINE all == at \cup {i}
           c == Cardinality(at)
<1>1. /\ Len(ms) \in Nat /\ i \in Nat /\ n <= i /\ {i} \in SUBSET (n + 1 .. i)
      /\ 1 .. n \subseteq 1 .. Len(ms)
  OBVIOUS
<1>2. all \in SUBSET (1 .. i) /\ \A k \in 1 .. c : Nth(all, k) = Nth(at, k)
  <2> DEFINE more == {i}
  <2>1. more \in SUBSET (n + 1 .. i)
    BY <1>1
  <2>2. n \in Nat /\ i \in Nat /\ n <= i /\ at \in SUBSET (1 .. n)
    BY <1>1
  <2> HIDE DEF more
  <2>3. at \cup more \in SUBSET (1 .. i)
    BY ONLY <2>1, <2>2, MorePlaces
  <2>4. ASSUME NEW k \in 1 .. c PROVE Nth(at \cup more, k) = Nth(at, k)
    BY ONLY <2>1, <2>2, k \in 1 .. c, NthBelow
  <2> QED BY <2>3, <2>4 DEF more
<1>3. IsFiniteSet(at) /\ c \in Nat /\ i \notin at
  <2>1. i \notin at
    BY <1>1
  <2> QED BY <2>1, PlacesAreFinite
<1>4. Cardinality(all) = c + 1
  BY <1>3, FS_AddElement
<1>5. Nth(all, c + 1) = i
  <2>1. {j \in all : j <= i} = all
    <3>1. \A j \in all : j <= i
      BY <1>1, <1>2
    <3> QED BY <3>1
  <2>2. i \in all /\ c + 1 \in 1 .. Cardinality(all)
    BY <1>3, <1>4
  <2> HIDE DEF all, c
  <2>3. Cardinality({j \in all : j <= i}) = c + 1
    BY <2>1, <1>4
  <2>4. i \in Nat /\ all \in SUBSET (1 .. i)
    BY <1>1, <1>2
  <2> QED BY ONLY <2>2, <2>3, <2>4, NthUnique
<1>6. Those(ms, all) = [k \in 1 .. c + 1 |-> ms[Nth(all, k)]]
  BY <1>4 DEF Those
<1>7. Those(ms, at) = [k \in 1 .. c |-> ms[Nth(at, k)]]
  BY DEF Those
<1>8. Those(ms, at) \in Seq(Message)
  BY <1>1, ThoseAreSome
<1>9. ms[i] \in Message
  BY <1>1
<1> HIDE DEF all, c
<1>10. Len(Those(ms, at)) = c /\ \A k \in 1 .. c : Those(ms, at)[k] = ms[Nth(at, k)]
  BY <1>3, <1>7, <1>8
<1>11. /\ Append(Those(ms, at), ms[i]) \in Seq(Message)
       /\ Len(Append(Those(ms, at), ms[i])) = c + 1
       /\ Append(Those(ms, at), ms[i])[c + 1] = ms[i]
       /\ \A k \in 1 .. c : Append(Those(ms, at), ms[i])[k] = ms[Nth(at, k)]
  BY <1>3, <1>8, <1>9, <1>10
<1>12. \A k \in 1 .. c + 1 : Append(Those(ms, at), ms[i])[k] = ms[Nth(all, k)]
  <2> TAKE k \in 1 .. c + 1
  <2>1. k \in 1 .. c \/ k = c + 1
    BY <1>3
  <2> QED BY <2>1, <1>2, <1>5, <1>11
<1>13. Append(Those(ms, at), ms[i]) = [k \in 1 .. c + 1 |-> ms[Nth(all, k)]]
  <2> DEFINE w == Append(Those(ms, at), ms[i])
  <2>1. w \in Seq(Message) /\ Len(w) = c + 1
    BY <1>11
  <2>2. \A k \in 1 .. c + 1 : w[k] = ms[Nth(all, k)]
    BY <1>12
  <2> HIDE DEF w
  <2>3. w = [k \in 1 .. c + 1 |-> w[k]]
    BY <2>1
  <2> QED BY <2>2, <2>3 DEF w
<1> QED BY <1>6, <1>13 DEF all

LEMMA ThoseSame ==
  ASSUME NEW n \in Nat, NEW at \in SUBSET (1 .. n), NEW ms, NEW other,
         \A i \in at : ms[i] = other[i]
  PROVE  Those(ms, at) = Those(other, at)
<1>1. \A k \in 1 .. Cardinality(at) : Nth(at, k) \in at
  BY NthIsOne
<1> QED BY <1>1 DEF Those

LEMMA ThoseNone == ASSUME NEW ms PROVE Those(ms, {}) = <<>>
<1>1. Cardinality({}) = 0
  BY FS_EmptySet
<1> QED BY <1>1 DEF Those

----------------------------------------------------------------------------
(* Questions and answers among messages *)

SpokenAt(ms) == {i \in 1 .. Len(ms) : Spoken(ms[i])}

LEMMA ConversationType ==
  ASSUME NEW ms \in Seq(Message)
  PROVE  Conversation(ms) \in Seq(Message)
<1>1. SpokenAt(ms) \in SUBSET (1 .. Len(ms))
  BY DEF SpokenAt
<1> QED BY <1>1, ThoseAreSome DEF Conversation, SpokenAt

LEMMA ConversationEmpty == Conversation(<<>>) = <<>>
<1>1. {i \in 1 .. Len(<<>>) : Spoken(<<>>[i])} = {}
  OBVIOUS
<1> QED BY <1>1, ThoseNone DEF Conversation

LEMMA ConversationAppend ==
  ASSUME NEW ms \in Seq(Message), NEW m \in Message
  PROVE  Conversation(Append(ms, m)) =
           IF Spoken(m) THEN Append(Conversation(ms), m) ELSE Conversation(ms)
<1> DEFINE more == Append(ms, m)
           n == Len(ms)
           at == SpokenAt(ms)
<1>1. /\ n \in Nat /\ more \in Seq(Message) /\ Len(more) = n + 1 /\ more[n + 1] = m
      /\ \A i \in 1 .. n : more[i] = ms[i]
      /\ at \in SUBSET (1 .. n)
  BY DEF SpokenAt
<1> HIDE DEF more, n
<1>2. SpokenAt(more) = IF Spoken(m) THEN at \cup {n + 1} ELSE at
  <2>1. \A i : i \in 1 .. n + 1 <=> i \in 1 .. n \/ i = n + 1
    BY <1>1
  <2>2. n + 1 \notin 1 .. n
    BY <1>1
  <2> QED BY <1>1, <2>1, <2>2 DEF SpokenAt, n
<1> HIDE DEF at
<1>3. Those(more, at) = Those(ms, at)
  <2>1. \A i \in at : more[i] = ms[i]
    BY <1>1
  <2> QED BY <1>1, <2>1, ThoseSame
<1>4. Those(more, at \cup {n + 1}) = Append(Those(more, at), m)
  <2>1. n + 1 \in n + 1 .. Len(more)
    BY <1>1
  <2>2. Those(more, at \cup {n + 1}) = Append(Those(more, at), more[n + 1])
    BY ONLY <1>1, <2>1, ThoseAppend
  <2> QED BY <2>2, <1>1
<1>5. Conversation(ms) = Those(ms, at) /\ Conversation(more) = Those(more, SpokenAt(more))
  BY DEF Conversation, SpokenAt, at
<1> QED BY <1>2, <1>3, <1>4, <1>5 DEF more

\* What is said first stays the start of the conversation.
LEMMA ConversationStart ==
  ASSUME NEW ms \in Seq(Message), NEW rest \in Seq(Message)
  PROVE  IsPrefix(Conversation(ms), Conversation(ms \o rest))
<1> DEFINE all == ms \o rest
           n == Len(ms)
           p == Len(all)
           at == SpokenAt(ms)
           later == {i \in n + 1 .. p : Spoken(all[i])}
           c == Cardinality(at)
<1>1. /\ n \in Nat /\ p \in Nat /\ n <= p /\ all \in Seq(Message)
      /\ \A i \in 1 .. n : all[i] = ms[i]
      /\ at \in SUBSET (1 .. n) /\ later \in SUBSET (n + 1 .. p)
  BY DEF SpokenAt
<1>2. SpokenAt(all) = at \cup later
  <2>1. \A i : i \in 1 .. p <=> i \in 1 .. n \/ i \in n + 1 .. p
    BY <1>1
  <2>2. at = {i \in 1 .. n : Spoken(all[i])}
    BY <1>1 DEF SpokenAt
  <2>3. SpokenAt(all) = {i \in 1 .. p : Spoken(all[i])}
    BY DEF SpokenAt
  <2> HIDE DEF all, n, p, at
  <2> QED BY <2>1, <2>2, <2>3
<1> HIDE DEF all, n, p, at, later, c
<1>3. /\ at \cup later \in SUBSET (1 .. p) /\ Cardinality(at) <= Cardinality(at \cup later)
      /\ \A k \in 1 .. Cardinality(at) : Nth(at \cup later, k) = Nth(at, k)
  <2>1. n \in Nat /\ p \in Nat /\ n <= p /\ at \in SUBSET (1 .. n) /\ later \in SUBSET (n + 1 .. p)
    BY <1>1
  <2>2. at \cup later \in SUBSET (1 .. p) /\ Cardinality(at) <= Cardinality(at \cup later)
    BY ONLY <2>1, MorePlaces
  <2>3. ASSUME NEW k \in 1 .. Cardinality(at)
        PROVE  Nth(at \cup later, k) = Nth(at, k)
    BY ONLY <2>1, k \in 1 .. Cardinality(at), NthBelow
  <2> QED BY <2>2, <2>3
<1>4. \A k \in 1 .. c : all[Nth(at \cup later, k)] = ms[Nth(at, k)]
  <2> TAKE k \in 1 .. c
  <2>1. Nth(at, k) \in at
    BY ONLY <1>1, NthIsOne DEF c
  <2> QED BY <2>1, <1>1, <1>3 DEF c
<1>5. /\ Conversation(ms) = [k \in 1 .. c |-> ms[Nth(at, k)]]
      /\ Conversation(all) =
           [k \in 1 .. Cardinality(at \cup later) |-> all[Nth(at \cup later, k)]]
  BY <1>2 DEF Conversation, Those, SpokenAt, at, c
<1>6. c \in Nat /\ Cardinality(at \cup later) \in Nat
  BY ONLY <1>1, <1>3, PlacesAreFinite DEF c
<1> DEFINE d == Cardinality(at \cup later)
           s == Conversation(ms)
           t == Conversation(all)
<1>7. s \in Seq(Message) /\ t \in Seq(Message)
  BY <1>1, ConversationType
<1> HIDE DEF d, s, t
<1>8. c \in Nat /\ d \in Nat /\ c <= d
  BY <1>3, <1>6 DEF c, d
<1>9. Len(s) = c /\ Len(t) = d
  <2>1. DOMAIN s = 1 .. c /\ DOMAIN t = 1 .. d
    BY <1>5 DEF s, t, d
  <2> QED BY <2>1, <1>7, <1>8
<1>10. \A k \in 1 .. c : s[k] = t[k]
  <2> TAKE k \in 1 .. c
  <2>1. k \in 1 .. d
    BY <1>8
  <2> QED BY <2>1, <1>4, <1>5 DEF s, t, d
<1>11. SubSeq(s, 1, c) = SubSeq(t, 1, c)
  <2>1. SubSeq(s, 1, c) \in Seq(Message) /\ Len(SubSeq(s, 1, c)) = c
        /\ \A k \in 1 .. c : SubSeq(s, 1, c)[k] = s[k]
    BY <1>7, <1>8, <1>9
  <2>2. SubSeq(t, 1, c) \in Seq(Message) /\ Len(SubSeq(t, 1, c)) = c
        /\ \A k \in 1 .. c : SubSeq(t, 1, c)[k] = t[k]
    BY <1>7, <1>8, <1>9
  <2> QED BY <2>1, <2>2, <1>10
<1> QED BY <1>8, <1>9, <1>11 DEF IsPrefix, s, t, all

LEMMA ConversationLast ==
  ASSUME NEW ms \in Seq(Message)
  PROVE  LastOnes(ms) = Conversation(Trimmed(ms))
<1>1. Len(ms) \in Nat /\ MaxStored \in Nat
  OBVIOUS
<1>2. CASE Len(ms) <= MaxStored
  BY <1>1, <1>2 DEF LastOnes, Trimmed
<1>3. CASE Len(ms) > MaxStored
  BY <1>1, <1>3 DEF LastOnes, Trimmed
<1> QED BY <1>1, <1>2, <1>3

\* Leaving out others does not change what has been said, ...
LEMMA ConversationOfThose ==
  ASSUME NEW ms \in Seq(Message), NEW at \in SUBSET (1 .. Len(ms)), SpokenAt(ms) \subseteq at
  PROVE  Conversation(Those(ms, at)) = Conversation(ms)
<1> DEFINE A(n) == at \cap (1 .. n)
           B(n) == SpokenAt(ms) \cap (1 .. n)
           Bad == {n \in 0 .. Len(ms) : Conversation(Those(ms, A(n))) # Those(ms, B(n))}
<1>0. Len(ms) \in Nat /\ SpokenAt(ms) \in SUBSET (1 .. Len(ms))
  BY DEF SpokenAt
<1>1. \A n \in 0 .. Len(ms) :
        /\ A(n) \in SUBSET (1 .. n) /\ B(n) \in SUBSET (1 .. n)
        /\ A(n) \in SUBSET (1 .. Len(ms))
  BY <1>0
<1>2. Bad = {}
  <2> SUFFICES ASSUME Bad # {} PROVE FALSE
    OBVIOUS
  <2>1. PICK n \in Bad : \A k \in Bad : n <= k
    <3>1. Bad \subseteq Nat
      OBVIOUS
    <3> HIDE DEF Bad
    <3> QED BY <3>1, LeastNumber
  <2>2. n # 0
    <3> SUFFICES ASSUME n = 0 PROVE FALSE
      OBVIOUS
    <3>1. A(0) = {} /\ B(0) = {}
      OBVIOUS
    <3> QED BY <3>1, ThoseNone, ConversationEmpty
  <2> DEFINE k == n - 1
  <2>3. n \in 1 .. Len(ms) /\ k \in 0 .. Len(ms) /\ ~ (n <= k) /\ k \in Nat /\ n = k + 1
    BY <1>0, <2>2
  <2>4. Conversation(Those(ms, A(k))) = Those(ms, B(k))
    <3>1. k \notin Bad
      <4> HIDE DEF Bad, k
      <4> QED BY <2>1, <2>3
    <3> HIDE DEF k, A, B
    <3> QED BY <3>1, <2>3
  <2>5. /\ A(n) = IF n \in at THEN A(k) \cup {n} ELSE A(k)
        /\ B(n) = IF n \in SpokenAt(ms) THEN B(k) \cup {n} ELSE B(k)
    <3>1. \A i : i \in 1 .. n <=> i \in 1 .. k \/ i = n
      BY <2>3
    <3> HIDE DEF k
    <3> QED BY <3>1
  <2>6. n \in SpokenAt(ms) <=> Spoken(ms[n])
    BY <2>3 DEF SpokenAt
  <2>7. n \in k + 1 .. Len(ms) /\ ms[n] \in Message
    BY <1>0, <2>3
  <2>8. A(k) \in SUBSET (1 .. k) /\ B(k) \in SUBSET (1 .. k) /\ A(k) \in SUBSET (1 .. Len(ms))
    BY <1>1, <2>3
  <2> HIDE DEF A, B, k
  <2>9. Those(ms, A(k)) \in Seq(Message)
    BY <2>8, ThoseAreSome
  <2>10. Those(ms, A(k) \cup {n}) = Append(Those(ms, A(k)), ms[n])
    BY <2>3, <2>7, <2>8, ThoseAppend
  <2>11. Those(ms, B(k) \cup {n}) = Append(Those(ms, B(k)), ms[n])
    BY <2>3, <2>7, <2>8, ThoseAppend
  <2>12. Conversation(Append(Those(ms, A(k)), ms[n])) =
           IF Spoken(ms[n]) THEN Append(Conversation(Those(ms, A(k))), ms[n])
                            ELSE Conversation(Those(ms, A(k)))
    BY <2>7, <2>9, ConversationAppend
  <2>13. Conversation(Those(ms, A(n))) = Those(ms, B(n))
    <3>1. CASE n \in SpokenAt(ms)
      <4>1. n \in at
        BY <3>1
      <4> QED BY <3>1, <4>1, <2>4, <2>5, <2>6, <2>10, <2>11, <2>12
    <3>2. CASE n \notin SpokenAt(ms)
      BY <3>2, <2>4, <2>5, <2>6, <2>10, <2>12
    <3> QED BY <3>1, <3>2
  <2> QED BY <2>13, <2>1
<1>3. A(Len(ms)) = at /\ B(Len(ms)) = SpokenAt(ms)
  BY <1>0
<1>4. Conversation(Those(ms, A(Len(ms)))) = Those(ms, B(Len(ms)))
  <2>1. Len(ms) \in 0 .. Len(ms)
    BY <1>0
  <2> HIDE DEF A, B
  <2> QED BY <1>2, <2>1
<1>5. Conversation(ms) = Those(ms, SpokenAt(ms))
  BY DEF Conversation, SpokenAt
<1> HIDE DEF A, B
<1> QED BY <1>3, <1>4, <1>5

\* ... nor does the rest of what is done to messages when they are saved.
LEMMA ConversationSaved ==
  ASSUME NEW ms \in Seq(Message), SpokenBare(ms)
  PROVE  Conversation(Saved(ms)) = Conversation(ms)
<1> DEFINE at == {i \in 1 .. Len(ms) : ms[i].kind # "tool" /\ Complete(ms, i)}
           kept == Those(ms, at)
           saved == [i \in 1 .. Len(kept) |-> [kept[i] EXCEPT !.calls = <<>>]]
<1>1. at \in SUBSET (1 .. Len(ms)) /\ SpokenAt(ms) \subseteq at
  <2>1. ASSUME NEW i \in SpokenAt(ms) PROVE i \in at
    <3>1. i \in 1 .. Len(ms) /\ Spoken(ms[i]) /\ ms[i].calls = <<>>
      BY DEF SpokenAt, SpokenBare
    <3>2. Complete(ms, i)
      BY <3>1 DEF Complete
    <3> QED BY <3>1, <3>2 DEF Spoken
  <2> QED BY <2>1
<1>2. /\ kept \in Seq(Message)
      /\ \A k \in 1 .. Len(kept) : \E i \in at : kept[k] = ms[i]
  <2> HIDE DEF at
  <2> QED BY <1>1, ThoseAreSome
<1>3. SpokenBare(kept)
  <2> SUFFICES ASSUME NEW k \in 1 .. Len(kept), Spoken(kept[k]) PROVE kept[k].calls = <<>>
    BY DEF SpokenBare
  <2>1. PICK i \in at : kept[k] = ms[i]
    BY <1>2
  <2> QED BY <2>1 DEF SpokenBare
<1>4. Conversation(kept) = Conversation(ms)
  <2> HIDE DEF at
  <2> QED BY <1>1, ConversationOfThose
<1>5. Saved(ms) = saved
  BY DEF Saved
<1> HIDE DEF at, kept
<1>6. ASSUME NEW k \in 1 .. Len(kept)
      PROVE  /\ saved[k].kind = kept[k].kind
             /\ Spoken(kept[k]) => saved[k] = kept[k]
  <2>1. kept[k] \in Message /\ saved[k] = [kept[k] EXCEPT !.calls = <<>>]
    BY <1>2
  <2>2. Spoken(kept[k]) => kept[k].calls = <<>>
    BY <1>3 DEF SpokenBare
  <2> QED BY <2>1, <2>2 DEF Message
<1>7. Len(saved) = Len(kept) /\ Len(kept) \in Nat
  BY <1>2
<1> HIDE DEF saved
<1>8. SpokenAt(saved) = SpokenAt(kept) /\ SpokenAt(kept) \in SUBSET (1 .. Len(kept))
  BY <1>6, <1>7 DEF SpokenAt, Spoken
<1>9. \A i \in SpokenAt(kept) : saved[i] = kept[i]
  BY <1>6 DEF SpokenAt
<1>10. Those(saved, SpokenAt(kept)) = Those(kept, SpokenAt(kept))
  BY <1>7, <1>8, <1>9, ThoseSame
<1> QED BY <1>4, <1>5, <1>8, <1>10 DEF Conversation, SpokenAt

LEMMA NextOfAgent == NextM => Next
BY DEF NextM, BeginM, FinishM, ResetM, TaskM, LossM, OtherM, Next, Finish, Tools

\* A request that has not overlapped is the only one at work.
LEMMA SoleAtWork ==
  ASSUME MemoryInv, NEW r \in Request, Live(r), r \notin clash, NEW s \in Request \ {r}
  PROVE  ~ Live(s) /\ ~ HasTask(s) /\ ~ Working(s)
BY DEF MemoryInv, Overlaps, Live

LEMMA TypesOf ==
  ASSUME AgentInv, NEW r \in Request
  PROVE  /\ req[r] \in RequestType /\ req[r].said \in Seq(Message)
         /\ tasks[r] \in Seq(BareTask) /\ hand[r] \in HandType /\ rows[r] \in RowType
BY DEF AgentInv, Shapes, RequestType

LEMMA LoadableType ==
  ASSUME AgentInv
  PROVE  Loadable \subseteq Seq(Message) /\ Loadable \subseteq Seq(Bare)
<1>1. \A i \in Request : rows[i].messages \in Seq(Bare)
  BY DEF AgentInv, Shapes, RowType
<1>2. <<>> \in Seq(Bare)
  OBVIOUS
<1>3. Seq(Bare) \subseteq Seq(Message)
  <2>1. Bare \subseteq Message
    BY DEF Bare
  <2> QED BY <2>1
<1> QED BY <1>1, <1>2, <1>3 DEF Loadable, Inserts

\* A request at work does one step, and the others none.
LEMMA OverlapsKept ==
  ASSUME MemoryInv, NEW r \in Request, Live(r),
         \A s \in Request \ {r} : req'[s] = req[s] /\ tasks'[s] = tasks[s],
         clash' = Still(clash) \/ clash' = clash
  PROVE  Overlaps'
<1>1. clash' \subseteq Request
  BY DEF MemoryInv, Overlaps, Still
<1>2. \A s \in Request : Live(s)' => Live(s)
  BY DEF Live, Working, HasTask
<1>3. ASSUME NEW x \in Request, NEW s \in Request, x # s, Live(x)', Live(s)'
      PROVE  x \in clash'
  <2>1. x \in clash
    BY <1>2, <1>3 DEF MemoryInv, Overlaps
  <2> QED BY <2>1, <1>3 DEF Still
<1> QED BY <1>1, <1>3 DEF Overlaps

\* Beside a request at work no other goes on without an overlap.
LEMMA TellsOthers ==
  ASSUME MemoryInv, NEW r \in Request, Live(r), NEW s \in Request \ {r},
         req'[s] = req[s], clash' = Still(clash) \/ clash' = clash
  PROVE  Tells(s)'
<1> SUFFICES ASSUME s \notin clash', req'[s].pc \in {"model", "tools"} PROVE FALSE
  BY DEF Tells
<1>1. Live(s) /\ Live(s)'
  BY DEF Live, Working
<1>2. s \in clash
  BY <1>1 DEF MemoryInv, Overlaps
<1> QED BY <1>1, <1>2 DEF Still

\* In doubt, little is to be shown.
LEMMA DoubtfulKeeps ==
  ASSUME AgentInv', doubt' = TRUE, Overlaps', memory' \in Seq(Message), IsFiniteSet(Inserts'),
         \A s \in Request : SpokenBare(req'[s].said)
  PROVE  MemoryInv'
BY DEF MemoryInv

\* Steps that leave the rows and the tasks alone.
LEMMA QuietKeeps ==
  ASSUME MemoryInv, AgentInv', UNCHANGED <<rows, latest, tasks, memory>>,
         doubt' = doubt,
         \A s \in Request : HasTask(s) => hand'[s] = hand[s],
         Overlaps', \A s \in Request : SpokenBare(req'[s].said),
         ~ doubt => \A s \in Request : Tells(s)'
  PROVE  MemoryInv'
<1>1. Inserts' = Inserts /\ Loadable' = Loadable /\ \A s \in Request : HasTask(s)' = HasTask(s)
  BY DEF Inserts, Inserted, Loadable, HasTask
<1>2. ASSUME ~ doubt' PROVE Certain'
  <2>1. ~ doubt /\ Certain
    BY <1>2 DEF MemoryInv
  <2>2. OneRow' /\ Rested'
    BY <1>1, <2>1 DEF Certain, OneRow, Rested
  <2>3. ASSUME NEW s \in Request PROVE Saves(s)'
    <3>1. Saves(s)
      BY <2>1 DEF Certain
    <3> QED BY <3>1, <1>1 DEF Saves, Clearing, Appending, HasTask
  <2> QED BY <2>1, <2>2, <2>3 DEF Certain
<1> QED BY <1>1, <1>2 DEF MemoryInv

\* Messages that are not spoken leave the conversation as it is.
LEMMA UnspokenAppended ==
  ASSUME NEW ms \in Seq(Message), NEW m \in Message, SpokenBare(ms),
         Spoken(m) => m.calls = <<>>
  PROVE  /\ SpokenBare(Append(ms, m))
         /\ ~ Spoken(m) => Conversation(Append(ms, m)) = Conversation(ms)
<1>1. Len(Append(ms, m)) = Len(ms) + 1 /\ Len(ms) \in Nat
      /\ \A i \in 1 .. Len(ms) + 1 : Append(ms, m)[i] = IF i = Len(ms) + 1 THEN m ELSE ms[i]
  OBVIOUS
<1>2. \A i \in 1 .. Len(ms) + 1 : i = Len(ms) + 1 \/ i \in 1 .. Len(ms)
  BY <1>1
<1>3. SpokenBare(Append(ms, m))
  BY <1>1, <1>2 DEF SpokenBare
<1> QED BY <1>3, ConversationAppend

\* What a request becomes by a turn or a call: it ends or says no more than
\* before.
Continues(r, q) ==
  /\ req[r].pc \in {"model", "tools"} /\ q.remembers = req[r].remembers
  /\ \/ q.said = req[r].said
     \/ \E m \in Message : ~ Spoken(m) /\ q.said = Append(req[r].said, m)
Proceeds(r, q) ==
  /\ Goes(r, q) /\ (q = Over \/ Continues(r, q))
  /\ UNCHANGED <<stored, stops>>

LEMMA TurnProceeds ==
  ASSUME AgentInv, NEW r \in Request, Turn(r)
  PROVE  Working(r) /\ \E q : Proceeds(r, q)
<1>1. req[r] \in RequestType
  BY TypesOf
<1>2. CASE NoAnswer(r) \/ LimitTurns(r)
  BY <1>2 DEF NoAnswer, LimitTurns, Asks, Ends, Working, Proceeds
<1>3. CASE Blank(r)
  <2>1. Asked(r).said = req[r].said /\ Asked(r).remembers = req[r].remembers
    BY <1>1 DEF Asked, RequestType
  <2> QED BY <1>3, <2>1 DEF Blank, Asks, Working, Proceeds, Continues
<1>4. ASSUME NEW calls \in CallLists, CallTools(r, calls)
      PROVE  Working(r) /\ \E q : Proceeds(r, q)
  <2> DEFINE m == Says("call", r, calls)
             q == [Asked(r) EXCEPT !.pc = "tools", !.left = calls, !.said = Append(@, m)]
  <2>1. m \in Message /\ m.kind = "call"
    BY CallListsAssumption, MessagesSaid
  <2>2. Goes(r, q) /\ UNCHANGED <<stored, stops>> /\ req[r].pc = "model"
    BY <1>4 DEF CallTools, Asks
  <2> HIDE DEF m
  <2>3. q.said = Append(req[r].said, m) /\ q.remembers = req[r].remembers
    BY <1>1 DEF Asked, RequestType
  <2>4. ~ Spoken(m)
    BY <2>1 DEF Spoken
  <2> HIDE DEF q
  <2>5. Continues(r, q)
    BY <2>1, <2>2, <2>3, <2>4 DEF Continues
  <2> QED BY <2>2, <2>5 DEF Proceeds, Working
<1> QED BY <1>2, <1>3, <1>4 DEF Turn

LEMMA CallProceeds ==
  ASSUME AgentInv, NEW r \in Request, NEW t, Calls(r, t),
         Goes(r, Replied(r, t)) \/ Goes(r, Counted(r, t)), UNCHANGED <<stored, stops>>
  PROVE  \E q : Proceeds(r, q)
<1> DEFINE m == Says("tool", r, <<t>>)
<1>1. req[r] \in RequestType /\ t \in Call /\ req[r].pc = "tools"
  BY AtTools DEF Calls
<1>2. m \in Message /\ m.kind = "tool"
  <2>1. <<t>> \in Seq(Call)
    BY <1>1
  <2> QED BY <2>1, MessagesSaid
<1>3. ~ Spoken(m)
  BY <1>2 DEF Spoken
<1> HIDE DEF m
<1>4. /\ Replied(r, t).said = Append(req[r].said, m)
      /\ Replied(r, t).remembers = req[r].remembers
      /\ Counted(r, t).said = Append(req[r].said, m)
      /\ Counted(r, t).remembers = req[r].remembers
  BY <1>1 DEF Counted, Replied, Skip, RequestType, m
<1>5. Continues(r, Replied(r, t)) /\ Continues(r, Counted(r, t))
  BY <1>1, <1>2, <1>3, <1>4 DEF Continues
<1> QED BY <1>5 DEF Proceeds

LEMMA ToolsProceed ==
  ASSUME AgentInv, NEW r \in Request, Tools(r), ~ ResetMemory(r)
  PROVE  Working(r) /\ \E q : Proceeds(r, q)
<1>1. req[r] \in RequestType
  BY TypesOf
<1>2. CASE SkipNameless(r)
  <2>1. Skip(r).said = req[r].said /\ Skip(r).remembers = req[r].remembers
    BY <1>1 DEF Skip, RequestType
  <2> QED BY <1>2, <2>1 DEF SkipNameless, Calls, Working, Proceeds, Continues
<1>3. CASE ResetDone(r)
  BY <1>3 DEF ResetDone, Ends, Working, Proceeds
<1>4. CASE NextTurn(r)
  <2> DEFINE q == [req[r] EXCEPT !.pc = "model"]
  <2>1. q.said = req[r].said /\ q.remembers = req[r].remembers
    BY <1>1 DEF RequestType
  <2> QED BY <1>4, <2>1 DEF NextTurn, Working, Proceeds, Continues
<1>5. ASSUME NEW t \in Call, LimitTool(r, t) \/ RunServed(r, t) \/ LeaveCustom(r, t) \/ RunWorkflow(r, t)
      PROVE  Working(r) /\ \E q : Proceeds(r, q)
  <2>1. Calls(r, t) /\ UNCHANGED <<stored, stops>>
    BY <1>5 DEF LimitTool, RunServed, LeaveCustom, RunWorkflow, Runs
  <2>2. Working(r)
    BY <2>1 DEF Calls, Working
  <2>3. Ends(r) \/ Goes(r, Replied(r, t)) \/ Goes(r, Counted(r, t))
    BY <1>5 DEF LimitTool, RunServed, LeaveCustom, RunWorkflow
  <2>4. CASE Ends(r)
    BY <2>1, <2>2, <2>4 DEF Ends, Proceeds
  <2> QED BY <2>1, <2>2, <2>3, <2>4, CallProceeds
<1>6. ASSUME NEW t \in Call, RefuseUnknown(r, t)
      PROVE  Working(r) /\ \E q : Proceeds(r, q)
  <2>1. Calls(r, t) /\ UNCHANGED <<stored, stops>>
    BY <1>6 DEF RefuseUnknown, Runs
  <2>2. Working(r)
    BY <2>1 DEF Calls, Working
  <2>3. CASE req[r].variant = "bedrock"
    <3> DEFINE q == [req[r] EXCEPT !.left = <<>>]
    <3>1. q.said = req[r].said /\ q.remembers = req[r].remembers
      BY <1>1 DEF RequestType
    <3> QED BY <1>6, <2>1, <2>2, <2>3, <3>1 DEF RefuseUnknown, Calls, Proceeds, Continues
  <2>4. CASE req[r].variant # "bedrock"
    BY <1>6, <2>1, <2>2, <2>4, CallProceeds DEF RefuseUnknown
  <2> QED BY <2>3, <2>4
<1> QED BY <1>2, <1>3, <1>4, <1>5, <1>6 DEF Tools

\* A request goes on, or ends, and nothing else happens.
LEMMA ProceedsKeeps ==
  ASSUME MemoryInv, AgentInv', NEW r \in Request, NEW q, Live(r), q = Over \/ Continues(r, q),
         Goes(r, q), clash' = Still(clash), UNCHANGED <<rows, latest, tasks, memory, doubt>>,
         \A s \in Request : HasTask(s) => hand'[s] = hand[s]
  PROVE  MemoryInv'
<1>1. /\ req'[r] = q /\ req[r] \in RequestType /\ req[r].said \in Seq(Message)
      /\ \A s \in Request \ {r} : req'[s] = req[s]
      /\ SpokenBare(req[r].said)
  BY DEF MemoryInv, AgentInv, Shapes, Goes, RequestType
<1>2. Overlaps'
  BY <1>1, OverlapsKept
<1>3. /\ SpokenBare(q.said)
      /\ q # Over => Conversation(q.said) = Conversation(req[r].said)
  <2>1. CASE q = Over
    BY <2>1 DEF Over, NewRequest, SpokenBare
  <2>2. CASE Continues(r, q)
    BY <1>1, <2>2, UnspokenAppended DEF Continues
  <2> QED BY <2>1, <2>2
<1>4. ASSUME ~ doubt PROVE Tells(r)'
  <2>1. CASE q = Over
    BY <1>1, <2>1 DEF Tells, Over, NewRequest
  <2>2. CASE q # Over
    <3> SUFFICES ASSUME r \notin clash', q.remembers, q.pc \in {"model", "tools"}
                 PROVE  Conversation(q.said) = Append(memory, Says("user", r, <<>>))
      BY <1>1 DEF Tells
    <3>1. Live(r)'
      BY <1>1 DEF Live, Working
    <3>2. r \notin clash
      BY <3>1 DEF Still
    <3>3. Tells(r)
      BY <1>4 DEF MemoryInv, Certain
    <3> QED BY <1>3, <2>2, <3>2, <3>3 DEF Tells, Continues
  <2> QED BY <2>1, <2>2
<1>5. \A s \in Request : SpokenBare(req'[s].said)
  BY <1>1, <1>3 DEF MemoryInv
<1>6. ~ doubt => \A s \in Request : Tells(s)'
  BY <1>1, <1>4, TellsOthers
<1> QED BY <1>2, <1>5, <1>6, QuietKeeps

----------------------------------------------------------------------------
(* Requests that begin and end *)

LEMMA OneLeft ==
  ASSUME NEW S, IsFiniteSet(S), ~ (Cardinality(S) > 1), NEW r \in S, NEW s \in S
  PROVE  r = s
<1> SUFFICES ASSUME r # s PROVE FALSE
  OBVIOUS
<1>1. Cardinality({r}) = 1 /\ IsFiniteSet({r})
  BY FS_Singleton
<1>2. Cardinality({r} \cup {s}) = 2
  BY <1>1, FS_AddElement
<1>3. {r} \cup {s} \subseteq S
  OBVIOUS
<1>4. 2 <= Cardinality(S) /\ Cardinality(S) \in Nat
  BY <1>2, <1>3, FS_Subset, FS_CardinalityType
<1> QED BY <1>4

LEMMA BareIsBare ==
  ASSUME NEW ms \in Seq(Bare)
  PROVE  ms \in Seq(Message) /\ SpokenBare(ms)
<1>1. Bare \subseteq Message
  BY DEF Bare
<1>2. \A i \in 1 .. Len(ms) : ms[i] \in Bare
  OBVIOUS
<1>3. \A i \in 1 .. Len(ms) : ms[i].calls = <<>>
  BY <1>2 DEF Bare
<1> QED BY <1>1, <1>3 DEF SpokenBare

LEMMA QuestionSaid ==
  ASSUME NEW r \in Request
  PROVE  /\ Says("user", r, <<>>) \in Message /\ Spoken(Says("user", r, <<>>))
         /\ Says("answer", r, <<>>) \in Message /\ Spoken(Says("answer", r, <<>>))
         /\ Says("user", r, <<>>).calls = <<>> /\ Says("answer", r, <<>>).calls = <<>>
<1>1. <<>> \in Seq(Call)
  OBVIOUS
<1> QED BY <1>1, MessagesSaid DEF Spoken

LEMMA BeginKeeps ==
  ASSUME MemoryInv, AgentInv', NEW r \in Request, BeginM(r)
  PROVE  MemoryInv'
<1> DEFINE u == Says("user", r, <<>>)
<1>0. AgentInv
  BY DEF MemoryInv
<1>1. PICK v \in Variant, b \in BOOLEAN : Start(r, v, b)
  BY DEF BeginM, Begin
<1>2. /\ req[r].pc = "new" /\ tasks[r] = <<>> /\ req[r] \in RequestType
      /\ UNCHANGED <<rows, latest, tasks, hand, stops>>
  BY <1>0, <1>1, NothingScheduled DEF Start, stored
<1>3. ~ Live(r)
  BY <1>2 DEF Live, Working, HasTask
<1>4. \E q : /\ Goes(r, q)
             /\ \/ q = Over
                \/ \E loaded \in Loadable :
                     q = [NewRequest EXCEPT !.pc = "model", !.variant = v, !.remembers = b,
                            !.said = Append(IF b THEN loaded ELSE <<>>, u)]
  BY <1>1 DEF Start, Ends
<1>5. PICK q : /\ Goes(r, q)
               /\ \/ q = Over
                  \/ \E loaded \in Loadable :
                       /\ q.pc = "model" /\ q.remembers = b
                       /\ q.said = Append(IF b THEN loaded ELSE <<>>, u)
  BY <1>4 DEF NewRequest
<1>6. req'[r] = q /\ \A s \in Request \ {r} : req'[s] = req[s]
  BY <1>0, <1>5 DEF Goes, AgentInv, Shapes
<1>7. /\ \A s \in Request : HasTask(s)' = HasTask(s)
      /\ \A s \in Request \ {r} : Live(s)' = Live(s)
  BY <1>2, <1>6 DEF HasTask, Live, Working
<1>8. u \in Message /\ Spoken(u) /\ u.calls = <<>>
  BY QuestionSaid
<1> HIDE DEF u
<1>9. Overlaps'
  <2>1. clash' = IF Alone(r) THEN {} ELSE clash \cup {r} \cup {s \in Request : Live(s)}
    BY DEF BeginM
  <2>2. clash' \subseteq Request
    BY <2>1 DEF MemoryInv, Overlaps
  <2>3. ASSUME NEW x \in Request, NEW s \in Request, x # s, Live(x)', Live(s)'
        PROVE  x \in clash'
    <3>1. ~ Alone(r)
      BY <1>7, <2>3 DEF Alone
    <3>2. x = r \/ Live(x)
      BY <1>7, <2>3
    <3> QED BY <2>1, <3>1, <3>2
  <2> QED BY <2>2, <2>3 DEF Overlaps
<1>10. SpokenBare(q.said)
  <2>1. CASE q = Over
    BY <2>1 DEF Over, NewRequest, SpokenBare
  <2>2. ASSUME NEW loaded \in Loadable, q.said = Append(IF b THEN loaded ELSE <<>>, u)
        PROVE  SpokenBare(q.said)
    <3> DEFINE base == IF b THEN loaded ELSE <<>>
    <3>1. base \in Seq(Bare)
      BY <1>0, LoadableType
    <3> HIDE DEF base
    <3>2. base \in Seq(Message) /\ SpokenBare(base)
      BY <3>1, BareIsBare
    <3>3. SpokenBare(Append(base, u))
      BY <3>2, <1>8, UnspokenAppended
    <3> QED BY <2>2, <3>3 DEF base
  <2> QED BY <1>5, <2>1, <2>2
<1>11. \A s \in Request : SpokenBare(req'[s].said)
  BY <1>6, <1>10 DEF MemoryInv
<1>12. ASSUME NEW s \in Request \ {r} PROVE Tells(s)'
  <2> SUFFICES ASSUME s \notin clash', req'[s].pc \in {"model", "tools"} PROVE FALSE
    BY DEF Tells
  <2>1. Live(s)
    BY <1>6 DEF Live, Working
  <2> QED BY <2>1 DEF BeginM, Alone
<1>13. ASSUME r \notin clash', q.remembers, q.pc \in {"model", "tools"}
       PROVE  /\ Alone(r) /\ \A s \in Request : ~ HasTask(s)
              /\ \E loaded \in Loadable :
                   /\ q.said = Append(loaded, u) /\ loaded \in Seq(Message)
                   /\ Conversation(q.said) = Append(Conversation(loaded), u)
  <2>1. Alone(r)
    BY <1>13 DEF BeginM
  <2>2. \A s \in Request : ~ HasTask(s)
    BY <1>3, <2>1 DEF Alone, Live
  <2>3. q # Over
    BY <1>13 DEF Over, NewRequest
  <2>4. PICK loaded \in Loadable : q.said = Append(loaded, u)
    BY <1>5, <1>13, <2>3
  <2>5. loaded \in Seq(Message)
    BY <1>0, LoadableType
  <2>6. Conversation(Append(loaded, u)) = Append(Conversation(loaded), u)
    BY <1>8, <2>5, ConversationAppend
  <2> QED BY <2>1, <2>2, <2>4, <2>5, <2>6
<1>14. CASE doubt /\ Alone(r) /\ req'[r].remembers /\ ~ TwoRows
  <2>1. doubt' = FALSE /\ memory' = Conversation(Front(q.said)) /\ clash' = {}
    BY <1>6, <1>14 DEF BeginM
  <2>2. q.remembers /\ q.pc = "model"
    BY <1>5, <1>6, <1>14 DEF Over, NewRequest
  <2>3. PICK loaded \in Loadable :
          /\ q.said = Append(loaded, u) /\ loaded \in Seq(Message)
          /\ Conversation(q.said) = Append(Conversation(loaded), u)
    BY <1>13, <2>1, <2>2
  <2>4. Front(q.said) = loaded
    <3>1. Len(Append(loaded, u)) = Len(loaded) + 1
      BY <1>8, <2>3
    <3>2. SubSeq(Append(loaded, u), 1, Len(loaded)) = loaded
      BY <1>8, <2>3
    <3>3. (Len(loaded) + 1) - 1 = Len(loaded)
      BY <2>3
    <3> QED BY <2>3, <3>1, <3>2, <3>3 DEF Front
  <2>5. memory' = Conversation(loaded) /\ memory' \in Seq(Message)
    BY <2>1, <2>3, <2>4, ConversationType
  <2>6. OneRow
    BY <1>14, OneLeft DEF MemoryInv, OneRow, TwoRows
  <2>7. \A ms \in Loadable : ms = loaded
    BY <2>6 DEF Loadable, OneRow
  <2>8. Inserts' = Inserts /\ Loadable' = Loadable
    BY <1>2 DEF Inserts, Inserted, Loadable
  <2>9. Tells(r)'
    BY <1>6, <2>3, <2>5 DEF Tells, u
  <2>10. \A s \in Request : ~ HasTask(s)'
    BY <1>7, <1>13, <2>1, <2>2
  <2>11. Certain'
    <3>1. OneRow'
      BY <2>6, <2>8 DEF OneRow
    <3>2. Rested'
      BY <2>5, <2>7, <2>8 DEF Rested
    <3>3. \A s \in Request : Saves(s)'
      BY <2>10 DEF Saves
    <3>4. \A s \in Request : Tells(s)'
      BY <1>12, <2>9
    <3> QED BY <3>1, <3>2, <3>3, <3>4 DEF Certain
  <2> QED BY <1>9, <1>11, <2>1, <2>5, <2>8, <2>11 DEF MemoryInv
<1>15. CASE ~ (doubt /\ Alone(r) /\ req'[r].remembers /\ ~ TwoRows)
  <2>1. doubt' = doubt /\ memory' = memory
    BY <1>15 DEF BeginM
  <2>2. ASSUME ~ doubt PROVE Tells(r)'
    <3> SUFFICES ASSUME r \notin clash', q.remembers, q.pc \in {"model", "tools"}
                 PROVE  Conversation(q.said) = Append(memory, u)
      BY <1>6, <2>1 DEF Tells, u
    <3>1. \A ms \in Loadable : Conversation(ms) = memory
      BY <1>13, <2>2 DEF MemoryInv, Certain, Rested
    <3> QED BY <1>13, <3>1
  <2>3. ~ doubt => \A s \in Request : Tells(s)'
    BY <1>12, <2>2
  <2> QED BY <1>2, <1>9, <1>11, <2>1, <2>3, QuietKeeps
<1> QED BY <1>14, <1>15

LEMMA TrimmedBare ==
  ASSUME NEW ms \in Seq(Message), SpokenBare(ms)
  PROVE  SpokenBare(Trimmed(ms))
<1>1. Len(ms) \in Nat /\ MaxStored \in Nat
  OBVIOUS
<1>2. CASE Len(ms) <= MaxStored
  BY <1>2 DEF Trimmed
<1>3. CASE ~ (Len(ms) <= MaxStored)
  <2> DEFINE d == Len(ms) - MaxStored
             t == SubSeq(ms, d + 1, Len(ms))
  <2>1. d \in Nat /\ d + MaxStored = Len(ms)
    BY <1>1, <1>3
  <2> HIDE DEF d
  <2>4. Len(t) = MaxStored /\ d + 1 \in 1 .. Len(ms)
    BY <1>1, <2>1
  <2>5. ASSUME NEW i \in 1 .. MaxStored
        PROVE  i + d \in 1 .. Len(ms) /\ t[i] = ms[i + d]
    <3>1. i + d \in 1 .. Len(ms) /\ d + 1 + i - 1 = i + d
      BY <1>1, <2>1
    <3>2. t[i] = ms[d + 1 + i - 1]
      BY <1>1, <2>1
    <3> QED BY <3>1, <3>2
  <2>2. \A i \in 1 .. Len(t) : i + d \in 1 .. Len(ms) /\ t[i] = ms[i + d]
    BY <2>4, <2>5
  <2>3. Trimmed(ms) = t
    BY <1>3 DEF Trimmed, d
  <2> HIDE DEF t
  <2> QED BY <2>2, <2>3 DEF SpokenBare
<1> QED BY <1>2, <1>3

\* The tasks of an answer are to clear the history and to append what is said
\* in the last messages.
LEMMA SavingTasksRest ==
  ASSUME NEW ms \in Seq(Message), SpokenBare(ms)
  PROVE  /\ SavingTasks(ms) \in Seq(BareTask) /\ SavingTasks(ms) # <<>>
         /\ Head(SavingTasks(ms)).op = "clear" /\ Appends(Tail(SavingTasks(ms)))
         /\ Conversation(Rest(Tail(SavingTasks(ms)))) = LastOnes(ms)
<1> DEFINE kept == Saved(Trimmed(ms))
           c == [op |-> "clear"]
           ts == [i \in 1 .. Len(kept) |-> [op |-> "append", message |-> kept[i]]]
<1>1. Trimmed(ms) \in Seq(Message) /\ SpokenBare(Trimmed(ms))
  BY TrimmedType, TrimmedBare
<1>2. kept \in Seq(Bare)
  BY <1>1, SavedIsBare
<1>3. Conversation(kept) = LastOnes(ms)
  BY <1>1, ConversationSaved, ConversationLast
<1>4. SavingTasks(ms) = <<c>> \o ts
  BY DEF SavingTasks
<1> HIDE DEF kept
<1>5. ts \in Seq(BareTask) /\ Len(ts) = Len(kept) /\ c \in BareTask
  BY <1>2 DEF BareTask
<1>6. \A i \in 1 .. Len(kept) : ts[i].op = "append" /\ ts[i].message = kept[i]
  OBVIOUS
<1>11. c.op = "clear"
  OBVIOUS
<1> HIDE DEF ts, c
<1>7. Head(<<c>> \o ts) = c /\ Tail(<<c>> \o ts) = ts /\ <<c>> \o ts # <<>>
  BY <1>5
<1>8. Appends(ts)
  BY <1>5, <1>6 DEF Appends
<1>9. Rest(ts) = kept
  <2>1. Rest(ts) = [i \in 1 .. Len(kept) |-> kept[i]]
    BY <1>5, <1>6 DEF Rest
  <2> QED BY <2>1, <1>2
<1>10. SavingTasks(ms) \in Seq(BareTask)
  BY SavingTasksType
<1>12. Head(<<c>> \o ts).op = "clear" /\ Appends(Tail(<<c>> \o ts)) /\ Rest(Tail(<<c>> \o ts)) = kept
  BY <1>7, <1>8, <1>9, <1>11
<1> QED BY <1>3, <1>4, <1>7, <1>10, <1>12

LEMMA NothingAppended == ASSUME NEW ms \in Seq(Message) PROVE ms \o <<>> = ms
OBVIOUS

LEMMA Concatenated ==
  ASSUME NEW ms \in Seq(Message), NEW other \in Seq(Message)
  PROVE  /\ ms \o other \in Seq(Message) /\ Len(ms \o other) = Len(ms) + Len(other)
OBVIOUS

LEMMA SameMessages ==
  ASSUME NEW ms \in Seq(Message), NEW other \in Seq(Message), Len(ms) = Len(other),
         \A i \in 1 .. Len(ms) : ms[i] = other[i]
  PROVE  ms = other
OBVIOUS

LEMMA Appended ==
  ASSUME NEW ms \in Seq(Message), NEW m \in Message
  PROVE  ms \o <<>> = ms /\ ms \o <<m>> = Append(ms, m) /\ Append(ms, m) \in Seq(Message)
OBVIOUS

\* A request that goes on alone replaces the conversation, and leaves the
\* tasks that write it.
LEMMA SchedulesKeep ==
  ASSUME MemoryInv, AgentInv', NEW r \in Request, Live(r), tasks[r] = <<>>,
         NEW q, Goes(r, q), q.pc \in {"reset", "done"}, SpokenBare(q.said),
         NEW ts, tasks' = [tasks EXCEPT ![r] = ts], ts # <<>>,
         Head(ts).op = "clear", Appends(Tail(ts)),
         ~ doubt /\ r \notin clash => Conversation(Rest(Tail(ts))) = memory',
         memory' \in Seq(Message), doubt' = (doubt \/ r \in clash),
         UNCHANGED <<rows, latest, hand>>, clash' = Still(clash) \/ clash' = clash
  PROVE  MemoryInv'
<1>1. /\ req'[r] = q /\ tasks'[r] = ts
      /\ \A s \in Request \ {r} : req'[s] = req[s] /\ tasks'[s] = tasks[s]
  BY DEF MemoryInv, AgentInv, Shapes, Goes
<1>2. Overlaps'
  BY <1>1, OverlapsKept
<1>3. \A s \in Request : SpokenBare(req'[s].said)
  BY <1>1 DEF MemoryInv
<1>4. Inserts' = Inserts
  BY DEF Inserts, Inserted
<1>5. ASSUME ~ doubt' PROVE Certain'
  <2>1. ~ doubt /\ r \notin clash /\ Certain
    BY <1>5 DEF MemoryInv
  <2>2. \A s \in Request \ {r} : ~ HasTask(s) /\ ~ HasTask(s)'
    BY <1>1, <2>1, SoleAtWork DEF HasTask
  <2>3. HasTask(r)'
    BY <1>1 DEF HasTask
  <2>5. Clearing(r)'
    BY <1>1, <2>1 DEF Clearing
  <2>6. Saves(r)'
    BY <1>1, <2>2, <2>5 DEF Saves
  <2>7. \A s \in Request : Saves(s)'
    BY <2>2, <2>6 DEF Saves
  <2>8. \A s \in Request : Tells(s)'
    <3>1. Tells(r)'
      BY <1>1 DEF Tells
    <3> QED BY <3>1, <1>1, TellsOthers
  <2>9. OneRow' /\ Rested'
    BY <1>4, <2>1, <2>3 DEF Certain, OneRow, Rested
  <2> QED BY <2>7, <2>8, <2>9 DEF Certain
<1> QED BY <1>2, <1>3, <1>4, <1>5 DEF MemoryInv

LEMMA FinishKeeps ==
  ASSUME MemoryInv, AgentInv', NEW r \in Request, FinishM(r)
  PROVE  MemoryInv'
<1> DEFINE u == Says("user", r, <<>>)
           a == Says("answer", r, <<>>)
<1>0. AgentInv
  BY DEF MemoryInv
<1>1. PICK answer \in Answers(r) :
        /\ Answer(r, answer)
        /\ memory' = IF ~ req[r].remembers THEN memory
                     ELSE IF Len(req[r].said \o answer) > MaxStored
                            THEN LastOnes(req[r].said \o answer)
                     ELSE memory \o <<u>> \o answer
  BY DEF FinishM
<1>2. /\ doubt' = (doubt \/ (req[r].remembers /\ r \in clash)) /\ clash' = Still(clash)
      /\ req[r].pc = "model" /\ Goes(r, Over) /\ UNCHANGED <<rows, latest, hand, stops>>
  BY <1>1 DEF FinishM, Answer, Asks, Ends
<1>3. /\ Live(r) /\ tasks[r] = <<>> /\ req[r].said \in Seq(Message)
      /\ SpokenBare(req[r].said) /\ memory \in Seq(Message)
  BY <1>0, <1>2, NothingScheduled, TypesOf DEF Live, Working, MemoryInv
<1>4. CASE ~ req[r].remembers
  <2>1. UNCHANGED <<tasks, memory, doubt>>
    BY <1>1, <1>2, <1>4 DEF Answer, MemoryInv
  <2> QED BY <1>2, <1>3, <2>1, ProceedsKeeps
<1>5. CASE req[r].remembers
  <2> DEFINE said == req[r].said \o answer
             ts == SavingTasks(said)
  <2>1. u \in Message /\ a \in Message /\ Spoken(a) /\ a.calls = <<>>
    BY QuestionSaid
  <2>2. answer = <<>> \/ answer = <<a>>
    BY DEF Answers
  <2> HIDE DEF u, a
  <2>3. said = req[r].said \/ said = Append(req[r].said, a)
    BY <1>3, <2>1, <2>2, Appended
  <2>4. said \in Seq(Message) /\ SpokenBare(said)
    BY <1>3, <2>1, <2>3, Appended, UnspokenAppended
  <2>5. tasks' = [tasks EXCEPT ![r] = ts]
    BY <1>1, <1>5 DEF Answer
  <2>6. ASSUME ~ doubt, r \notin clash
        PROVE  Conversation(said) = memory \o <<u>> \o answer
    <3>1. Conversation(req[r].said) = Append(memory, u)
      BY <1>2, <1>5, <2>6 DEF MemoryInv, Certain, Tells, u
    <3>2. CASE answer = <<>>
      BY <1>3, <2>1, <3>1, <3>2
    <3>3. CASE answer = <<a>>
      <4>1. said = Append(req[r].said, a)
        BY <1>3, <2>1, <3>3, Appended
      <4>2. Conversation(said) = Append(Append(memory, u), a)
        BY <1>3, <2>1, <3>1, <4>1, ConversationAppend
      <4>3. Append(memory, u) = memory \o <<u>>
        BY <1>3, <2>1, Appended
      <4>4. Append(memory \o <<u>>, a) = memory \o <<u>> \o <<a>>
        BY <1>3, <2>1, <4>3, Appended
      <4> QED BY <3>3, <4>2, <4>3, <4>4
    <3> QED BY <2>2, <3>2, <3>3
  <2>7. Conversation(said) = LastOnes(said) \/ Len(said) > MaxStored
    <3>1. Len(said) \in Nat
      BY <2>4
    <3> QED BY <3>1 DEF LastOnes
  <2>8. memory' = IF Len(said) > MaxStored THEN LastOnes(said) ELSE memory \o <<u>> \o answer
    BY <1>1, <1>5
  <2> HIDE DEF said
  <2>9. memory' \in Seq(Message)
    <3>1. LastOnes(said) \in Seq(Message)
      BY <2>4, TrimmedType, ConversationLast, ConversationType
    <3>2. memory \o <<u>> \o answer \in Seq(Message)
      <4>1. memory \o <<u>> \in Seq(Message)
        BY <1>3, <2>1, Appended
      <4> QED BY <4>1, <2>1, <2>2, Appended
    <3> QED BY <2>8, <3>1, <3>2
  <2>10. ~ doubt /\ r \notin clash => memory' = LastOnes(said)
    BY <2>6, <2>7, <2>8
  <2>11. /\ ts # <<>> /\ Head(ts).op = "clear" /\ Appends(Tail(ts))
         /\ Conversation(Rest(Tail(ts))) = LastOnes(said)
    BY <2>4, SavingTasksRest
  <2> HIDE DEF ts
  <2>12. Over.pc \in {"reset", "done"} /\ SpokenBare(Over.said)
    BY DEF Over, NewRequest, SpokenBare
  <2>13. doubt' = (doubt \/ r \in clash)
    BY <1>2, <1>5
  <2> QED BY <1>2, <1>3, <2>5, <2>9, <2>10, <2>11, <2>12, <2>13, SchedulesKeep
<1> QED BY <1>4, <1>5

LEMMA ResetKeeps ==
  ASSUME MemoryInv, AgentInv', NEW r \in Request, ResetM(r)
  PROVE  MemoryInv'
<1> DEFINE q == [req[r] EXCEPT !.pc = "reset"]
           ts == <<[op |-> "clear"]>>
<1>1. AgentInv /\ ResetMemory(r) /\ req[r].pc = "tools"
  BY DEF MemoryInv, ResetM, ResetMemory, Calls
<1>2. /\ Live(r) /\ tasks[r] = <<>> /\ req[r] \in RequestType /\ SpokenBare(req[r].said)
  BY <1>1, NothingScheduled DEF Live, Working, MemoryInv
<1>3. /\ Goes(r, q) /\ tasks' = [tasks EXCEPT ![r] = ts] /\ UNCHANGED <<rows, latest, hand>>
      /\ memory' = <<>> /\ doubt' = (doubt \/ r \in clash) /\ clash' = clash
  BY DEF ResetM, ResetMemory
<1>4. q.pc \in {"reset", "done"} /\ q.said = req[r].said
  BY <1>2 DEF RequestType
<1>5. Tail(ts) = <<>> /\ ts # <<>> /\ Head(ts).op = "clear"
  OBVIOUS
<1>6. Appends(Tail(ts)) /\ Rest(Tail(ts)) = <<>>
  BY <1>5 DEF Appends, Rest
<1>7. Conversation(Rest(Tail(ts))) = memory' /\ memory' \in Seq(Message)
  BY <1>3, <1>6, ConversationEmpty
<1> HIDE DEF q, ts
<1> QED BY <1>2, <1>3, <1>4, <1>5, <1>6, <1>7, SchedulesKeep

----------------------------------------------------------------------------
(* Tasks that are done or lost *)

\* The first task of a request is done, and those that are left complete what
\* is there now.
LEMMA TaskDoneKeeps ==
  ASSUME MemoryInv, AgentInv', NEW r \in Request, HasTask(r), Pops(r), UNCHANGED <<req, memory>>,
         clash' = Still(clash), IsFiniteSet(Inserts'), doubt' \in BOOLEAN,
         ~ doubt' =>
           /\ ~ doubt /\ OneRow' /\ Appends(Tail(tasks[r]))
           /\ \A ms \in Loadable' : /\ ms \in Seq(Message)
                                    /\ Conversation(ms \o Rest(Tail(tasks[r]))) = memory
  PROVE  MemoryInv'
<1> DEFINE ts == Tail(tasks[r])
<1>0. Live(r) /\ tasks[r] \in Seq(BareTask) /\ tasks[r] # <<>> /\ req[r].pc \in {"reset", "done"}
  BY DEF MemoryInv, AgentInv, Shapes, TasksInTurn, Live, HasTask
<1>1. /\ tasks'[r] = ts /\ hand'[r] = NoHand /\ ts \in Seq(BareTask)
      /\ \A s \in Request \ {r} : tasks'[s] = tasks[s] /\ req'[s] = req[s]
  BY <1>0 DEF MemoryInv, AgentInv, Shapes, Pops
<1> HIDE DEF ts
<1>2. Overlaps'
  BY <1>0, <1>1, OverlapsKept
<1>3. \A s \in Request : SpokenBare(req'[s].said)
  BY DEF MemoryInv
<1>4. ASSUME ~ doubt' PROVE Certain'
  <2>1. /\ ~ doubt /\ Certain /\ OneRow' /\ Appends(ts)
        /\ \A ms \in Loadable' : ms \in Seq(Message) /\ Conversation(ms \o Rest(ts)) = memory
    BY <1>4 DEF MemoryInv, ts
  <2>2. \A s \in Request \ {r} : ~ HasTask(s)'
    BY <1>1, <2>1 DEF Certain, Saves, HasTask
  <2>3. \A s \in Request : Tells(s)'
    <3>1. Tells(r)'
      BY <1>0 DEF Tells
    <3> QED BY <3>1, <1>0, <1>1, TellsOthers
  <2>4. Rested'
    <3> SUFFICES ASSUME ts = <<>>, NEW ms \in Loadable'
                 PROVE  Conversation(ms) = memory
      BY <1>1 DEF Rested, HasTask
    <3>1. Rest(ts) = <<>>
      BY DEF Rest
    <3> QED BY <3>1, <2>1, NothingAppended
  <2>5. Saves(r)'
    <3> SUFFICES ASSUME ts # <<>> PROVE Saves(r)'
      BY <1>1 DEF Saves, HasTask
    <3>1. Head(ts).op = "append"
      <4>1. Head(ts) = ts[1] /\ 1 \in 1 .. Len(ts)
        BY <1>1
      <4> QED BY <2>1, <4>1 DEF Appends
    <3>2. Appending(r)'
      BY <1>1, <2>1 DEF Appending, NoHand
    <3> QED BY <1>1, <2>2, <3>1, <3>2 DEF Saves
  <2>6. \A s \in Request : Saves(s)'
    BY <2>2, <2>5 DEF Saves
  <2> QED BY <2>1, <2>3, <2>4, <2>6 DEF Certain
<1> QED BY <1>2, <1>3, <1>4 DEF MemoryInv

LEMMA RestType ==
  ASSUME NEW ts \in Seq(BareTask), ts # <<>>, Appends(Tail(ts))
  PROVE  /\ Rest(Tail(ts)) \in Seq(Message)
         /\ Head(ts).op = "append" =>
              /\ Head(ts).message \in Message
              /\ \A ms \in Seq(Message) :
                   Append(ms, Head(ts).message) \o Rest(Tail(ts)) = ms \o Rest(ts)
<1> DEFINE rest == Tail(ts)
           n == Len(rest)
<1>1. /\ rest \in Seq(BareTask) /\ n \in Nat /\ Len(ts) = n + 1 /\ Head(ts) = ts[1]
      /\ \A i \in 1 .. n : rest[i] = ts[i + 1] /\ rest[i] \in BareTask
      /\ Head(ts) \in BareTask
  OBVIOUS
<1> HIDE DEF rest, n
<1>2. \A i \in 1 .. n : rest[i].message \in Message
  BY <1>1 DEF Appends, rest, n, BareTask, Bare
<1>3. Rest(rest) \in Seq(Message) /\ Len(Rest(rest)) = n
      /\ \A i \in 1 .. n : Rest(rest)[i] = ts[i + 1].message
  BY <1>1, <1>2 DEF Rest, n
<1>4. ASSUME Head(ts).op = "append", NEW ms \in Seq(Message)
      PROVE  /\ Head(ts).message \in Message
             /\ Append(ms, Head(ts).message) \o Rest(rest) = ms \o Rest(ts)
  <2> DEFINE m == Head(ts).message
  <2>1. m \in Message
    BY <1>1, <1>4 DEF BareTask, Bare
  <2>2. /\ Len(Rest(ts)) = n + 1
        /\ \A i \in 1 .. n + 1 : Rest(ts)[i] = ts[i].message
    BY <1>1 DEF Rest
  <2>3. Rest(ts)[1] = m /\ \A i \in 1 .. n : Rest(ts)[i + 1] = Rest(rest)[i]
    BY <1>1, <1>3, <2>2
  <2>4. Rest(ts) \in Seq(Message)
    <3>1. \A i \in 1 .. n + 1 : ts[i].message \in Message
      <4> TAKE i \in 1 .. n + 1
      <4>1. i = 1 \/ (i - 1 \in 1 .. n /\ i = (i - 1) + 1)
        BY <1>1
      <4>2. CASE i = 1
        BY <4>2, <1>1, <2>1
      <4>3. CASE i - 1 \in 1 .. n /\ i = (i - 1) + 1
        BY <4>3, <1>1, <1>2
      <4> QED BY <4>1, <4>2, <4>3
    <3> QED BY <1>1, <3>1 DEF Rest
  <2> HIDE DEF m
  <2>5. Append(ms, m) \o Rest(rest) = ms \o Rest(ts)
    <3> DEFINE x == Rest(rest)
               y == Rest(ts)
    <3>1. /\ x \in Seq(Message) /\ y \in Seq(Message) /\ Len(y) = n + 1 /\ Len(x) = n /\ y[1] = m
          /\ \A i \in 1 .. n : y[i + 1] = x[i]
      BY <1>3, <2>2, <2>3, <2>4
    <3> HIDE DEF x, y
    <3>2. Append(ms, m) \o x \in Seq(Message) /\ ms \o y \in Seq(Message)
          /\ Len(Append(ms, m) \o x) = Len(ms) + 1 + n /\ Len(ms \o y) = Len(ms) + 1 + n
      <4>1. Append(ms, m) \in Seq(Message) /\ Len(Append(ms, m)) = Len(ms) + 1 /\ Len(ms) \in Nat
        BY <2>1
      <4>2. Append(ms, m) \o x \in Seq(Message) /\ Len(Append(ms, m) \o x) = Len(ms) + 1 + n
        BY <4>1, <3>1, Concatenated
      <4>3. ms \o y \in Seq(Message) /\ Len(ms \o y) = Len(ms) + (n + 1)
        BY <3>1, Concatenated
      <4> QED BY <1>1, <4>1, <4>2, <4>3
    <3>3. \A i \in 1 .. Len(ms) + 1 + n : (Append(ms, m) \o x)[i] = (ms \o y)[i]
      <4> TAKE i \in 1 .. Len(ms) + 1 + n
      <4>0. Len(ms) \in Nat
        OBVIOUS
      <4>1. CASE i \in 1 .. Len(ms)
        BY <4>0, <4>1, <1>1, <2>1, <3>1
      <4>2. CASE i = Len(ms) + 1
        BY <4>0, <4>2, <1>1, <2>1, <3>1
      <4>3. CASE i > Len(ms) + 1
        <5> DEFINE j == i - (Len(ms) + 1)
        <5>1. j \in 1 .. n /\ i = Len(ms) + 1 + j
          BY <4>0, <4>3, <1>1
        <5>2. (Append(ms, m) \o x)[i] = x[j]
          BY <4>0, <5>1, <1>1, <2>1, <3>1
        <5>3. (ms \o y)[i] = y[j + 1]
          BY <4>0, <5>1, <1>1, <2>1, <3>1
        <5> QED BY <5>1, <5>2, <5>3, <3>1
      <4>4. i \in Nat /\ (i \in 1 .. Len(ms) \/ i = Len(ms) + 1 \/ i > Len(ms) + 1)
        BY <4>0, <1>1
      <4> QED BY <4>1, <4>2, <4>3, <4>4
    <3>4. Append(ms, m) \o x = ms \o y
      BY <3>2, <3>3, SameMessages
    <3> QED BY <3>4 DEF x, y
  <2> QED BY <2>1, <2>5 DEF m
<1>5. Head(ts).op = "append" => Head(ts).message \in Message
  BY <1>1 DEF BareTask, Bare
<1> QED BY <1>3, <1>4, <1>5 DEF rest

LEMMA ReadRowRemembers ==
  ASSUME MemoryInv, AgentInv', NEW r \in Request, TaskM(r), ReadRow(r)
  PROVE  MemoryInv'
<1>0. AgentInv /\ HasTask(r) /\ Live(r) /\ tasks[r] # <<>> /\ UNCHANGED <<rows, latest, req, memory>>
  BY DEF MemoryInv, TaskM, ReadRow, Live, HasTask
<1>1. Inserts' = Inserts /\ Loadable' = Loadable /\ TwoRows' = TwoRows
  BY <1>0 DEF Inserts, Inserted, Loadable, TwoRows
<1>2. doubt' = (doubt \/ TwoRows') /\ clash' = Still(clash)
  BY DEF TaskM
<1>3. CASE Head(tasks[r]).op = "clear" /\ Inserts = {} /\ Pops(r)
  <2> DEFINE rest == Rest(Tail(tasks[r]))
  <2>1. Loadable = {<<>>} /\ IsFiniteSet(Inserts') /\ OneRow'
    BY <1>1, <1>3, FS_EmptySet DEF Loadable, OneRow
  <2>2. rest \in Seq(Message) \/ ~ Appends(Tail(tasks[r]))
    <3>1. tasks[r] \in Seq(BareTask)
      BY <1>0, TypesOf
    <3> QED BY <1>0, <3>1, RestType
  <2>3. <<>> \o rest = rest \/ ~ Appends(Tail(tasks[r]))
    <3> HIDE DEF rest
    <3> QED BY <2>2
  <2> HIDE DEF rest
  <2>4. ASSUME ~ doubt'
        PROVE  /\ ~ doubt /\ Appends(Tail(tasks[r]))
               /\ \A ms \in Loadable' : ms \in Seq(Message) /\ Conversation(ms \o rest) = memory
    <3>1. ~ doubt /\ Appends(Tail(tasks[r])) /\ Conversation(rest) = memory
      BY <1>0, <1>2, <1>3, <2>4 DEF MemoryInv, Certain, Saves, Clearing, rest
    <3> QED BY <1>1, <2>1, <2>3, <3>1
  <2>5. doubt' \in BOOLEAN
    BY <1>2
  <2> QED BY <1>0, <1>2, <1>3, <2>1, <2>4, <2>5, TaskDoneKeeps DEF rest
<1>4. ASSUME NEW i, i \in IF Head(tasks[r]).op = "append" THEN {latest} ELSE Inserts,
             hand' = [hand EXCEPT ![r] = [stage |-> "read", row |-> i,
                        messages |-> IF i = NoRequest THEN <<>> ELSE rows[i].messages]],
             UNCHANGED tasks
      PROVE  MemoryInv'
  <2>1. hand'[r].messages \in Loadable
    <3>1. hand'[r].messages = IF i = NoRequest THEN <<>> ELSE rows[i].messages
      BY <1>0, <1>4 DEF AgentInv, Shapes
    <3>2. latest \in Inserts \cup {NoRequest} /\ (latest = NoRequest <=> Inserts = {})
      BY <1>0 DEF AgentInv, RowsFound
    <3>3. NoRequest \notin Inserts
      BY DEF Inserts
    <3> QED BY <3>1, <3>2, <3>3, <1>4 DEF Loadable
  <2>2. \A s \in Request : HasTask(s)' = HasTask(s)
    BY <1>4 DEF HasTask
  <2>3. Overlaps'
    BY <1>0, <1>2, <1>4, OverlapsKept
  <2>4. req[r].pc \in {"reset", "done"}
    BY <1>0 DEF AgentInv, TasksInTurn
  <2>5. ASSUME ~ doubt' PROVE Certain'
    <3>1. ~ doubt /\ Certain
      BY <1>2, <2>5 DEF MemoryInv
    <3>2. \A s \in Request : Tells(s)'
      <4>1. Tells(r)'
        BY <1>0, <2>4 DEF Tells
      <4> QED BY <4>1, <1>0, <1>2, TellsOthers
    <3>3. Saves(r)'
      BY <1>0, <1>1, <1>4, <2>1, <2>2, <3>1 DEF Certain, Saves, Clearing, Appending
    <3>4. \A s \in Request \ {r} : ~ HasTask(s)
      BY <1>0, <3>1 DEF Certain, Saves
    <3>5. \A s \in Request : Saves(s)'
      BY <2>2, <3>3, <3>4 DEF Saves
    <3>6. OneRow' /\ Rested'
      BY <1>0, <1>1, <2>2, <3>1 DEF Certain, OneRow, Rested
    <3> QED BY <3>2, <3>5, <3>6 DEF Certain
  <2>6. doubt' \in BOOLEAN
    BY <1>2
  <2> QED BY <1>0, <1>1, <2>3, <2>5, <2>6 DEF MemoryInv
<1> QED BY <1>3, <1>4 DEF ReadRow

LEMMA WriteRowRemembers ==
  ASSUME MemoryInv, AgentInv', NEW r \in Request, TaskM(r), WriteRow(r)
  PROVE  MemoryInv'
<1> DEFINE i == IF hand[r].row = NoRequest THEN r ELSE hand[r].row
           new == NewMessages(r)
           ts == tasks[r]
<1>0. /\ AgentInv /\ HasTask(r) /\ Pops(r) /\ hand[r].stage = "read" /\ ts # <<>>
      /\ UNCHANGED <<req, memory>> /\ rows' = [rows EXCEPT ![i] = [there |-> TRUE, messages |-> new]]
  BY DEF MemoryInv, TaskM, WriteRow, HasTask
<1>1. doubt' = (doubt \/ TwoRows') /\ clash' = Still(clash) /\ doubt' \in BOOLEAN
  BY DEF TaskM
<1>2. i \in Request /\ ts \in Seq(BareTask) /\ rows \in [Request -> RowType]
  BY <1>0, TypesOf DEF AgentInv, RowsFound, Inserts, Shapes
<1> HIDE DEF i, new
<1>3. Inserts' = Inserts \cup {i} /\ rows'[i].messages = new
  BY <1>0, <1>2 DEF Inserts, Inserted
<1>4. IsFiniteSet(Inserts')
  BY <1>3, FS_AddElement DEF MemoryInv
<1>5. ASSUME ~ doubt'
      PROVE  /\ ~ doubt /\ OneRow' /\ Appends(Tail(ts))
             /\ \A ms \in Loadable' : ms \in Seq(Message) /\ Conversation(ms \o Rest(Tail(ts))) = memory
  <2>1. ~ doubt /\ Saves(r) /\ ~ (Cardinality(Inserts') > 1)
    BY <1>1, <1>5 DEF MemoryInv, Certain, TwoRows
  <2>2. OneRow'
    BY <1>4, <2>1, OneLeft DEF OneRow
  <2>3. Loadable' = {new}
    <3>1. \A s \in Inserts' : s = i
      BY <1>3, <2>2 DEF OneRow
    <3>2. Inserts' = {i}
      BY <1>3, <3>1
    <3>3. Loadable' = {rows'[s].messages : s \in Inserts'}
      BY <3>2 DEF Loadable
    <3> QED BY <1>3, <3>2, <3>3
  <2>4. CASE Head(ts).op = "clear"
    <3>1. Appends(Tail(ts)) /\ Conversation(Rest(Tail(ts))) = memory
      BY <1>0, <2>1, <2>4 DEF Saves, Clearing
    <3>2. new = <<>> /\ new \in Seq(Message)
      BY <2>4 DEF NewMessages, new
    <3>3. Rest(Tail(ts)) \in Seq(Message)
      BY <1>0, <1>2, <3>1, RestType
    <3> DEFINE rest == Rest(Tail(ts))
    <3>4. <<>> \o rest = rest
      <4> HIDE DEF rest
      <4> QED BY <3>3 DEF rest
    <3> QED BY <2>1, <2>2, <2>3, <3>1, <3>2, <3>4
  <2>5. CASE Head(ts).op # "clear"
    <3>1. /\ Appends(ts) /\ hand[r].messages \in Loadable
          /\ Conversation(hand[r].messages \o Rest(ts)) = memory
      BY <1>0, <2>1, <2>5 DEF Saves, Appending
    <3>2. hand[r].messages \in Seq(Message)
      BY <1>0, <3>1, LoadableType
    <3>3. new = Append(hand[r].messages, Head(ts).message)
      BY <2>5 DEF NewMessages, new
    <3>4. /\ Len(ts) \in Nat \ {0} /\ Head(ts) = ts[1]
          /\ \A k \in 1 .. Len(Tail(ts)) : k + 1 \in 1 .. Len(ts) /\ Tail(ts)[k] = ts[k + 1]
      BY <1>0, <1>2
    <3>5. Appends(Tail(ts)) /\ Head(ts).op = "append"
      BY <3>1, <3>4 DEF Appends
    <3>6. /\ Head(ts).message \in Message
          /\ Append(hand[r].messages, Head(ts).message) \o Rest(Tail(ts)) = hand[r].messages \o Rest(ts)
      BY <1>0, <1>2, <3>2, <3>5, RestType
    <3>7. new \in Seq(Message) /\ Conversation(new \o Rest(Tail(ts))) = memory
      BY <3>1, <3>2, <3>3, <3>6, Appended
    <3> QED BY <2>1, <2>2, <2>3, <3>5, <3>7
  <2> QED BY <2>4, <2>5
<1> QED BY <1>0, <1>1, <1>4, <1>5, TaskDoneKeeps

LEMMA StopRemembers ==
  ASSUME MemoryInv, AgentInv', LossM, Stop
  PROVE  MemoryInv'
<1>1. /\ req' = [s \in Request |-> IF Working(s) THEN Over ELSE req[s]]
      /\ tasks' = [s \in Request |-> <<>>]
      /\ UNCHANGED <<rows, latest, memory>> /\ clash' = Still(clash)
      /\ doubt' = (doubt \/ \E s \in Request : HasTask(s) /\ tasks'[s] # tasks[s])
  BY DEF LossM, Stop
<1>2. \A s \in Request : req'[s].pc \notin {"model", "tools", "reset"} /\ ~ Live(s)'
  BY <1>1 DEF Live, Working, HasTask, Over
<1>3. Overlaps'
  BY <1>1, <1>2 DEF MemoryInv, Overlaps, Still
<1>4. \A s \in Request : SpokenBare(req'[s].said)
  <2>1. SpokenBare(Over.said)
    BY DEF Over, NewRequest, SpokenBare
  <2> QED BY <1>1, <2>1 DEF MemoryInv
<1>5. \A s \in Request : Tells(s)'
  BY <1>2 DEF Tells
<1>6. Inserts' = Inserts
  BY <1>1 DEF Inserts, Inserted
<1>7. CASE \E s \in Request : HasTask(s)
  <2>1. doubt' = TRUE
    BY <1>1, <1>7 DEF HasTask
  <2> QED BY <1>1, <1>3, <1>4, <1>6, <2>1, DoubtfulKeeps DEF MemoryInv
<1>8. CASE \A s \in Request : ~ HasTask(s)
  <2>1. tasks' = tasks
    <3>1. \A s \in Request : tasks[s] = <<>>
      BY <1>8 DEF HasTask
    <3>2. tasks \in [Request -> Seq(BareTask)]
      BY DEF MemoryInv, AgentInv, Shapes
    <3> QED BY <1>1, <3>1, <3>2
  <2>2. doubt' = doubt
    BY <1>1, <1>8 DEF MemoryInv
  <2> QED BY <1>1, <1>3, <1>4, <1>5, <1>8, <2>1, <2>2, QuietKeeps
<1> QED BY <1>7, <1>8

LEMMA LossKeeps ==
  ASSUME MemoryInv, AgentInv', NEW r \in Request, LossM, LoseTask(r) \/ Disconnect(r)
  PROVE  MemoryInv'
<1>0. AgentInv /\ tasks \in [Request -> Seq(BareTask)] /\ req \in [Request -> RequestType]
      /\ hand \in [Request -> HandType] /\ tasks[r] \in Seq(BareTask)
  BY DEF MemoryInv, AgentInv, Shapes
<1>1. /\ UNCHANGED <<rows, latest, memory>> /\ clash' = Still(clash)
      /\ doubt' = (doubt \/ \E s \in Request : HasTask(s) /\ tasks'[s] # tasks[s])
  BY DEF LossM, LoseTask, Disconnect
<1>2. \A s \in Request \ {r} : req'[s] = req[s] /\ tasks'[s] = tasks[s] /\ hand'[s] = hand[s]
  BY <1>0 DEF LoseTask, Disconnect, Pops, Ends, Goes
<1>3. Live(r)
  BY DEF LoseTask, Disconnect, Live
<1>4. Overlaps'
  BY <1>1, <1>2, <1>3, OverlapsKept
<1>5. Inserts' = Inserts
  BY <1>1 DEF Inserts, Inserted
<1>6. req'[r] = req[r] \/ req'[r] = Over
  BY <1>0 DEF LoseTask, Disconnect, Ends, Goes
<1>7. \A s \in Request : SpokenBare(req'[s].said)
  <2>1. SpokenBare(Over.said)
    BY DEF Over, NewRequest, SpokenBare
  <2> QED BY <1>2, <1>6, <2>1 DEF MemoryInv
<1>8. CASE HasTask(r)
  <2>1. tasks'[r] # tasks[r]
    <3>1. tasks'[r] = Tail(tasks[r]) \/ tasks'[r] = <<>>
      BY <1>0 DEF LoseTask, Disconnect, Pops
    <3>2. Tail(tasks[r]) # tasks[r] /\ tasks[r] # <<>>
      <4> DEFINE ts == tasks[r]
                 rest == Tail(ts)
      <4>1. ts \in Seq(BareTask) /\ ts # <<>>
        BY <1>0, <1>8 DEF HasTask
      <4> HIDE DEF ts
      <4>2. Len(rest) = Len(ts) - 1 /\ Len(ts) \in Nat
        BY <4>1
      <4> HIDE DEF rest
      <4>3. Len(rest) # Len(ts)
        BY <4>2
      <4> QED BY <4>1, <4>3 DEF ts, rest
    <3> QED BY <3>1, <3>2
  <2>2. doubt' = TRUE
    BY <1>1, <1>8, <2>1
  <2> QED BY <1>1, <1>4, <1>5, <1>7, <2>2, DoubtfulKeeps DEF MemoryInv
<1>9. CASE ~ HasTask(r)
  <2>1. Goes(r, Over) /\ tasks' = [tasks EXCEPT ![r] = <<>>]
    BY <1>9 DEF LoseTask, Disconnect, Ends
  <2>2. tasks' = tasks
    BY <1>0, <1>9, <2>1 DEF HasTask
  <2>3. doubt' = doubt
    BY <1>1, <2>2 DEF MemoryInv
  <2>4. \A s \in Request : HasTask(s) => hand'[s] = hand[s]
    BY <1>2, <1>9
  <2> QED BY <1>1, <1>3, <2>1, <2>2, <2>3, <2>4, ProceedsKeeps
<1> QED BY <1>8, <1>9

----------------------------------------------------------------------------
(* The theorem *)

LEMMA MemoryInit == InitM => MemoryInv
<1> SUFFICES ASSUME InitM PROVE MemoryInv
  OBVIOUS
<1>1. /\ AgentInv /\ memory = <<>> /\ doubt = FALSE /\ clash = {}
      /\ \A r \in Request : req[r] = NewRequest /\ tasks[r] = <<>>
  BY AgentInit DEF InitM, Init
<1>2. Inserts = {} /\ Loadable = {<<>>}
  BY DEF InitM, Init, Inserts, Inserted, Loadable
<1>3. \A r \in Request : ~ HasTask(r) /\ ~ Live(r) /\ req[r].pc = "new" /\ req[r].said = <<>>
  BY <1>1 DEF HasTask, Live, Working, NewRequest
<1>4. Overlaps /\ \A r \in Request : SpokenBare(req[r].said)
  BY <1>1, <1>3 DEF Overlaps, SpokenBare
<1>5. Certain
  BY <1>1, <1>2, <1>3, ConversationEmpty DEF Certain, OneRow, Rested, Tells, Saves
<1>6. memory \in Seq(Message) /\ doubt \in BOOLEAN /\ IsFiniteSet(Inserts)
  <2>1. IsFiniteSet(Inserts)
    BY <1>2, FS_EmptySet
  <2>2. <<>> \in Seq(Message)
    OBVIOUS
  <2> QED BY <1>1, <2>1, <2>2
<1> QED BY <1>1, <1>4, <1>5, <1>6 DEF MemoryInv

LEMMA MemoryNext == MemoryInv /\ [NextM]_<<vars, history>> => MemoryInv'
<1> SUFFICES ASSUME MemoryInv, [NextM]_<<vars, history>> PROVE MemoryInv'
  OBVIOUS
<1>0. AgentInv'
  <2>1. [Next]_vars
    BY NextOfAgent
  <2> QED BY <2>1, AgentNext DEF MemoryInv
<1>1. CASE LossM
  BY <1>0, <1>1, StopRemembers, LossKeeps DEF LossM
<1>2. ASSUME NEW r \in Request, BeginM(r) PROVE MemoryInv'
  BY <1>0, <1>2, BeginKeeps
<1>3. ASSUME NEW r \in Request, FinishM(r) PROVE MemoryInv'
  BY <1>0, <1>3, FinishKeeps
<1>4. ASSUME NEW r \in Request, ResetM(r) PROVE MemoryInv'
  BY <1>0, <1>4, ResetKeeps
<1>5. ASSUME NEW r \in Request, TaskM(r) PROVE MemoryInv'
  BY <1>0, <1>5, ReadRowRemembers, WriteRowRemembers DEF TaskM, TaskStep
<1>6. ASSUME NEW r \in Request, OtherM(r) PROVE MemoryInv'
  <2>1. AgentInv /\ clash' = Still(clash) /\ UNCHANGED <<memory, doubt>>
    BY <1>6 DEF OtherM, MemoryInv
  <2>2. PICK q : Working(r) /\ Proceeds(r, q)
    BY <1>6, <2>1, TurnProceeds, ToolsProceed DEF OtherM
  <2>3. /\ Live(r) /\ Goes(r, q) /\ (q = Over \/ Continues(r, q))
        /\ UNCHANGED <<rows, latest, tasks, hand>>
    BY <2>2 DEF Proceeds, Live, stored
  <2> QED BY <1>0, <2>1, <2>3, ProceedsKeeps
<1>7. CASE UNCHANGED <<vars, history>>
  <2>1. UNCHANGED <<rows, latest, req, tasks, hand, memory, doubt, clash>>
    BY <1>7 DEF vars, history
  <2>2. /\ Inserts' = Inserts /\ Loadable' = Loadable
        /\ \A s \in Request : HasTask(s)' = HasTask(s) /\ Live(s)' = Live(s)
    BY <2>1 DEF Inserts, Inserted, Loadable, HasTask, Live, Working
  <2>3. Overlaps' /\ \A s \in Request : SpokenBare(req'[s].said)
    BY <2>1, <2>2 DEF MemoryInv, Overlaps
  <2>4. ~ doubt => \A s \in Request : Tells(s)'
    BY <2>1 DEF MemoryInv, Certain, Tells
  <2> QED BY <1>0, <2>1, <2>3, <2>4, QuietKeeps
<1> QED BY <1>1, <1>2, <1>3, <1>4, <1>5, <1>6, <1>7 DEF NextM

\* Unless there is doubt, what remains to be appended completes the history.
LEMMA HistoryInOrder == MemoryInv => HistoryFollows
<1> SUFFICES ASSUME MemoryInv, ~ doubt, NEW ms \in Loadable
             PROVE  /\ (\A r \in Request : ~ HasTask(r)) => Conversation(ms) = memory
                    /\ ~ Clears => IsPrefix(Conversation(ms), memory)
  BY DEF HistoryFollows, HistoryIsConversation, HistoryGrowsInOrder
<1>1. Certain /\ AgentInv /\ ms \in Seq(Message)
  BY LoadableType DEF MemoryInv
<1>2. (\A r \in Request : ~ HasTask(r)) => Conversation(ms) = memory
  BY <1>1 DEF Certain, Rested
<1>3. CASE \A r \in Request : ~ HasTask(r)
  <2>1. IsPrefix(Conversation(ms), Conversation(ms \o <<>>))
    <3>1. <<>> \in Seq(Message)
      OBVIOUS
    <3> QED BY <1>1, <3>1, ConversationStart
  <2>2. ms \o <<>> = ms
    BY <1>1, NothingAppended
  <2> QED BY <1>2, <1>3, <2>1, <2>2
<1>4. ASSUME NEW r \in Request, HasTask(r), ~ Clears
      PROVE  IsPrefix(Conversation(ms), memory)
  <2>1. Appending(r)
    BY <1>1, <1>4 DEF Certain, Saves, Clears
  <2>2. tasks[r] \in Seq(BareTask)
    BY <1>1, TypesOf
  <2>3. Rest(tasks[r]) \in Seq(Message)
    <3> DEFINE ts == tasks[r]
    <3>1. \A i \in 1 .. Len(ts) : ts[i] \in BareTask /\ ts[i].op = "append"
      BY <2>1, <2>2 DEF Appending, Appends
    <3>2. \A i \in 1 .. Len(ts) : ts[i].message \in Message
      BY <3>1 DEF BareTask, Bare
    <3>3. Len(ts) \in Nat
      BY <2>2
    <3> HIDE DEF ts
    <3> QED BY <3>2, <3>3 DEF Rest, ts
  <2> QED BY <1>1, <2>1, <2>3, ConversationStart DEF Appending
<1> QED BY <1>2, <1>3, <1>4

\* Once its tasks are done, the history of a thread has what was asked and
\* answered, in order, as far as it is among the last messages, and until then
\* the start of it: for any number of requests, with their tools, trimmings,
\* resets and losses, unless requests that were to be remembered have
\* overlapped, or a task was lost, and none has begun alone since.
THEOREM HistoryHasTheConversation == SpecM => []HistoryFollows
<1> QED BY MemoryInit, MemoryNext, HistoryInOrder, PTL DEF SpecM
=============================================================================
