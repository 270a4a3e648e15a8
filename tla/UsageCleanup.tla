----------------------------- MODULE UsageCleanup -----------------------------
(***************************************************************************)
(* The pool of models in use and its cleaner, over Redis. A client reports *)
(* the model it runs; the report stays in the pool for TIMEOUT_DURATION.   *)
(* Every server process tries once, when it starts, to take the cleanup    *)
(* lock; the one that does renews it, sweeps the pool and sleeps, forever. *)
(*                                                                         *)
(* A step is one Redis call, which may raise, and then may still have been *)
(* carried out. The coroutines of a process only switch at an await, which *)
(* is the cleaner's sleep; the calls of two processes interleave. Time is  *)
(* counted in seconds. How long a process may be held up between two       *)
(* renewals, beyond its sleep, is a parameter.                             *)
(***************************************************************************)
EXTENDS Integers, FiniteSets

CONSTANTS
  Process,           \* the server processes
  NoProcess,         \* the owner of a lock whose owner is gone
  Model, Sid,        \* models, and the sessions that report them
  Home,              \* the process each session is connected to
  TIMEOUT_DURATION,  \* the age at which a report expires, and the sleep
  LockTimeout,       \* WEBSOCKET_REDIS_LOCK_TIMEOUT
  MaxPause,          \* the longest hold-up of a process between renewals
  MayCrash,          \* whether a process may die without releasing the lock
  MayRaise,          \* whether a call of Redis may raise
  MaxTime            \* bound: the seconds that are counted

ASSUME ConstantsAssumption ==
  /\ NoProcess \notin Process /\ Home \in [Sid -> Process]
  /\ TIMEOUT_DURATION \in Nat /\ LockTimeout \in Nat \ {0}
  /\ MaxPause \in Nat /\ MaxTime \in Nat /\ MayCrash \in BOOLEAN
  /\ MayRaise \in BOOLEAN

VARIABLES
  now,       \* the time
  lock,      \* the key of the lock: the id in it and when it expires
  pool,      \* USAGE_POOL: per model and session the time of the report
  reported,  \* history: the last report that was stored
  cleaner,   \* per process: its cleanup coroutine
  report     \* per process: its usage handler

vars == <<now, lock, pool, reported, cleaner, report>>

Never == -1
Time == 0 .. MaxTime
Connections == [Sid -> Time \cup {Never}]
Empty == [s \in Sid |-> Never]
Present(m) == pool[m] # Empty
Held == now < lock.expires

\* off: not running; none: running without a cleaner; at: the time of the last
\* renewal and of the sweep; view and todo: USAGE_POOL.items() and the models
\* of it that are left to sweep; stopping: the process shuts down; raised: a
\* call has raised.
Cleaner == [pc: {"off", "none", "renew", "read", "sweep", "sleep", "release", "drop"},
            at: Time, wake: 0 .. MaxTime + TIMEOUT_DURATION,
            view: [Model -> Connections], todo: SUBSET Model, stopping: BOOLEAN, raised: BOOLEAN]
NotRunning == [pc |-> "off", at |-> 0, wake |-> 0, view |-> [m \in Model |-> Empty],
               todo |-> {}, stopping |-> FALSE, raised |-> FALSE]

Report == [pc: {"idle"}] \cup
          [pc: {"get", "write"}, sid: Sid, model: Model, at: Time, connections: Connections]
NoReport == [pc |-> "idle"]

Init ==
  /\ now = 0
  /\ lock = [id |-> NoProcess, expires |-> 0]
  /\ pool = [m \in Model |-> Empty]
  /\ reported = [m \in Model |-> Empty]
  /\ cleaner = [p \in Process |-> NotRunning]
  /\ report = [p \in Process |-> NoReport]

Cleaning(p) == cleaner[p].pc \in {"renew", "read", "sweep", "sleep"}
\* The cleaner is between two awaits, so no other coroutine of p runs.
Occupied(p) == cleaner[p].pc \in {"renew", "read", "sweep", "release", "drop"}

----------------------------------------------------------------------------
(* RedisLock and periodic_usage_pool_cleanup *)

\* Mutant: the key is set whether it exists or not.
Acquire_Always(p) ==
  /\ cleaner[p].pc = "off"
  /\ lock' = [id |-> p, expires |-> now + LockTimeout]
  /\ cleaner' = [cleaner EXCEPT ![p].pc = "renew", ![p].at = now]
  /\ UNCHANGED <<now, pool, reported, report>>

\* A process starts. aquire_lock sets the key only if it is not set; a process
\* that does not get the lock does not try again.
Acquire(p) ==
  /\ cleaner[p].pc = "off"
  /\ \/ /\ ~ Held
        /\ lock' = [id |-> p, expires |-> now + LockTimeout]
        /\ cleaner' = [cleaner EXCEPT ![p].pc = "renew", ![p].at = now]
     \/ /\ Held
        /\ cleaner' = [cleaner EXCEPT ![p].pc = "none"]
        /\ UNCHANGED lock
  /\ UNCHANGED <<now, pool, reported, report>>

\* Mutant: the timeout is given in the wrong unit.
Renewed_Milliseconds(p) == [id |-> p, expires |-> now + 1000 * LockTimeout]

\* Mutant: the renewal writes the key and keeps its expiry.
Renewed_NoExpiry(p) == [id |-> p, expires |-> lock.expires]

Renewed(p) == [id |-> p, expires |-> now + LockTimeout]

AtRenewal(p) ==
  \/ cleaner[p].pc = "renew"
  \/ cleaner[p].pc = "sleep" /\ now >= cleaner[p].wake /\ report[p] = NoReport

\* renew_lock sets the key only if it is set, to whatever id.
Renew(p) ==
  /\ AtRenewal(p)
  /\ \/ /\ Held
        /\ lock' = Renewed(p)
        /\ cleaner' = [cleaner EXCEPT ![p].pc = "read", ![p].at = now]
     \/ /\ ~ Held
        /\ cleaner' = [cleaner EXCEPT ![p].pc = "release"]
        /\ UNCHANGED lock
  /\ UNCHANGED <<now, pool, reported, report>>

\* The cleaner after it has handled all of its view but todo.
Sweeping(p, todo) ==
  IF todo = {}
    THEN [cleaner[p] EXCEPT !.pc = "sleep", !.todo = {}, !.wake = now + TIMEOUT_DURATION,
                            !.view = [m \in Model |-> Empty]]
    ELSE [cleaner[p] EXCEPT !.pc = "sweep", !.todo = todo]

ReadPool(p) ==
  /\ cleaner[p].pc = "read"
  /\ cleaner' = [cleaner EXCEPT ![p] =
       IF \E m \in Model : Present(m)
         THEN [Sweeping(p, {m \in Model : Present(m)}) EXCEPT !.view = pool]
         ELSE Sweeping(p, {})]
  /\ UNCHANGED <<now, lock, pool, reported, report>>

\* Mutant: a report expires when it reaches the timeout.
Unexpired_Strict(connections, at) ==
  [s \in Sid |-> IF at - connections[s] >= TIMEOUT_DURATION THEN Never ELSE connections[s]]

\* Mutant: nothing is taken out.
Unexpired_All(connections, at) == connections

Unexpired(connections, at) ==
  [s \in Sid |-> IF at - connections[s] > TIMEOUT_DURATION THEN Never ELSE connections[s]]

\* Deleting a model that is gone raises, and the cleaner ends.
SweepModel(p, m) ==
  /\ cleaner[p].pc = "sweep" /\ m \in cleaner[p].todo
  /\ LET connections == Unexpired(cleaner[p].view[m], cleaner[p].at) IN
       IF connections = Empty /\ ~ Present(m)
         THEN cleaner' = [cleaner EXCEPT ![p].pc = "release"] /\ UNCHANGED pool
         ELSE /\ pool' = [pool EXCEPT ![m] = connections]
              /\ cleaner' = [cleaner EXCEPT ![p] = Sweeping(p, cleaner[p].todo \ {m})]
  /\ UNCHANGED <<now, lock, reported, report>>

\* The process shuts down: its cleaner is cancelled while it awaits.
ShutDown(p) ==
  /\ cleaner[p].pc \in {"none", "sleep"} /\ report[p] = NoReport
  /\ cleaner' = [cleaner EXCEPT ![p] =
       IF cleaner[p].pc = "none" THEN NotRunning
                                 ELSE [cleaner[p] EXCEPT !.pc = "release", !.stopping = TRUE]]
  /\ UNCHANGED <<now, lock, pool, reported, report>>

Ended(p) == IF cleaner[p].stopping THEN NotRunning ELSE [NotRunning EXCEPT !.pc = "none"]

\* release_lock reads the key ...
GetOwner(p) ==
  /\ cleaner[p].pc = "release"
  /\ cleaner' = [cleaner EXCEPT ![p] = IF Held /\ lock.id = p
                                         THEN [cleaner[p] EXCEPT !.pc = "drop"]
                                         ELSE Ended(p)]
  /\ UNCHANGED <<now, lock, pool, reported, report>>

\* ... and deletes it in a second call.
DropLock(p) ==
  /\ cleaner[p].pc = "drop"
  /\ lock' = [id |-> NoProcess, expires |-> 0]
  /\ cleaner' = [cleaner EXCEPT ![p] = Ended(p)]
  /\ UNCHANGED <<now, pool, reported, report>>

\* A call that raises, and may have been carried out. The coroutine ends when
\* the lock cannot be asked for ...
AcquireRaises(p) ==
  /\ MayRaise /\ cleaner[p].pc = "off"
  /\ lock' \in {lock} \cup (IF Held THEN {} ELSE {[id |-> p, expires |-> now + LockTimeout]})
  /\ cleaner' = [cleaner EXCEPT ![p].pc = "none"]
  /\ UNCHANGED <<now, pool, reported, report>>

\* ... or released; ...
ReleaseRaises(p) ==
  /\ MayRaise
  /\ \/ cleaner[p].pc = "release" /\ UNCHANGED lock
     \/ cleaner[p].pc = "drop" /\ lock' \in {lock, [id |-> NoProcess, expires |-> 0]}
  /\ cleaner' = [cleaner EXCEPT ![p] = Ended(p)]
  /\ UNCHANGED <<now, pool, reported, report>>

\* ... in the loop, nothing catches what a renewal raises, ...
LeaveLoop(p) == cleaner' = [cleaner EXCEPT ![p].pc = "release", ![p].raised = TRUE]

RenewRaises(p) ==
  /\ MayRaise /\ AtRenewal(p)
  /\ lock' \in {lock} \cup (IF Held THEN {Renewed(p)} ELSE {})
  /\ LeaveLoop(p)
  /\ UNCHANGED <<now, pool, reported, report>>

\* ... nor a sweep, or the list of models that is sent after it.
SweepRaises(p) ==
  /\ MayRaise
  /\ \/ cleaner[p].pc = "read" /\ UNCHANGED pool
     \/ /\ cleaner[p].pc = "sweep"
        /\ \E m \in cleaner[p].todo :
             pool' \in {pool, [pool EXCEPT ![m] = Unexpired(cleaner[p].view[m], cleaner[p].at)]}
  /\ LeaveLoop(p)
  /\ UNCHANGED <<now, lock, reported, report>>

----------------------------------------------------------------------------
(* usage *)

\* The handler asks whether the model is in the pool ...
Usage(p, s, m) ==
  /\ report[p] = NoReport /\ Home[s] = p
  /\ cleaner[p].pc # "off" /\ ~ Occupied(p)
  /\ report' = [report EXCEPT ![p] =
       [pc |-> IF Present(m) THEN "get" ELSE "write", sid |-> s, model |-> m,
        at |-> now, connections |-> Empty]]
  /\ UNCHANGED <<now, lock, pool, reported, cleaner>>

\* ... reads its connections, which raises when it is gone ...
GetConnections(p) ==
  /\ report[p].pc = "get"
  /\ report' = [report EXCEPT ![p] =
       IF Present(report[p].model)
         THEN [report[p] EXCEPT !.pc = "write", !.connections = pool[report[p].model]]
         ELSE NoReport]
  /\ UNCHANGED <<now, lock, pool, reported, cleaner>>

WithReport(r) == [r.connections EXCEPT ![r.sid] = r.at]

\* ... and writes them back with its own.
StoreReport(p) ==
  /\ report[p].pc = "write"
  /\ LET r == report[p] IN
       /\ pool' = [pool EXCEPT ![r.model] = WithReport(r)]
       /\ reported' = [reported EXCEPT ![r.model][r.sid] = r.at]
  /\ report' = [report EXCEPT ![p] = NoReport]
  /\ UNCHANGED <<now, lock, cleaner>>

\* A call of the handler raises: the report is not stored, or is as above.
ReportRaises(p) ==
  /\ MayRaise /\ report[p] # NoReport
  /\ report' = [report EXCEPT ![p] = NoReport]
  /\ UNCHANGED <<now, lock, pool, reported, cleaner>>

----------------------------------------------------------------------------

Crash(p) ==
  /\ MayCrash /\ cleaner[p].pc # "off"
  /\ cleaner' = [cleaner EXCEPT ![p] = NotRunning]
  /\ report' = [report EXCEPT ![p] = NoReport]
  /\ lock' = IF lock.id = p THEN [lock EXCEPT !.id = NoProcess] ELSE lock
  /\ UNCHANGED <<now, pool, reported>>

\* A cleaner that has been held up for as long as it may be.
Overdue(p) ==
  \/ cleaner[p].pc \in {"renew", "read", "sweep"} /\ now >= cleaner[p].at + MaxPause
  \/ /\ cleaner[p].pc \in {"sleep", "release", "drop"}
     /\ now >= cleaner[p].at + TIMEOUT_DURATION + MaxPause

Tick ==
  /\ now < MaxTime /\ \A p \in Process : ~ Overdue(p)
  /\ now' = now + 1
  /\ UNCHANGED <<lock, pool, reported, cleaner, report>>

CleanerStep(p) ==
  \/ Renew(p) \/ ReadPool(p) \/ GetOwner(p) \/ DropLock(p)
  \/ \E m \in Model : SweepModel(p, m)
CleanerRaises(p) ==
  AcquireRaises(p) \/ RenewRaises(p) \/ SweepRaises(p) \/ ReleaseRaises(p)
ReportStep(p) == GetConnections(p) \/ StoreReport(p) \/ ReportRaises(p)

Next ==
  \/ \E p \in Process :
       \/ Acquire(p) \/ CleanerStep(p) \/ CleanerRaises(p) \/ ShutDown(p) \/ ReportStep(p) \/ Crash(p)
       \/ \E s \in Sid, m \in Model : Usage(p, s, m)
  \/ Tick

Spec == Init /\ [][Next]_vars

----------------------------------------------------------------------------
(* Properties *)

\* The lock, the pool and the local variables are well formed: the pool holds
\* times that have passed, and a cleaner sweeps models it has seen.
TypeOK ==
  /\ now \in Time
  /\ lock \in [id: Process \cup {NoProcess}, expires: 0 .. MaxTime + LockTimeout]
  /\ pool \in [Model -> Connections]
  /\ reported \in [Model -> Connections]
  /\ cleaner \in [Process -> Cleaner]
  /\ report \in [Process -> Report]

\* Two processes never clean at the same time (the log of the one that stays
\* out: "Usage pool cleanup lock already exists. Not running it.").
OneCleaner == \A p, q \in Process : Cleaning(p) /\ Cleaning(q) => p = q

\* A cleaner that still runs leaves its loop only when a call of Redis raises:
\* its renewals find the key, and the models it deletes are there. (Shutdowns
\* come while it sleeps.)
CleanerGoesOn ==
  [][\A p \in Process :
       /\ cleaner[p].pc \in {"renew", "read", "sweep"} \/ AtRenewal(p)
       /\ cleaner'[p].pc = "release"
       => cleaner'[p].raised \/ cleaner'[p].stopping]_vars
=============================================================================
