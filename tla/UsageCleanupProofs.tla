-------------------------- MODULE UsageCleanupProofs --------------------------
(***************************************************************************)
(* Proofs about the pool of models in use. The cleanup lock keeps two      *)
(* cleaners apart as long as no process is held up so long that its lock   *)
(* expires: a lease argument. Whoever cleans owns the key, renewed         *)
(* LockTimeout ago at most, so nobody else can set it. And whatever the    *)
(* lock does, the pool says what has been reported, of the models whose    *)
(* entry no two processes have written at the same time.                   *)
(***************************************************************************)
EXTENDS UsageOverlaps, TLAPS

LEMMA EmptyType == Empty \in Connections /\ NotRunning \in Cleaner /\ NoReport \in Report
<1>1. 0 \in Time /\ 0 \in 0 .. MaxTime + TIMEOUT_DURATION
  BY ConstantsAssumption DEF Time
<1>2. Empty \in Connections
  BY DEF Empty, Connections
<1>3. NoReport \in Report
  BY DEF NoReport, Report
<1> QED
  BY <1>1, <1>2, <1>3 DEF NotRunning, Cleaner

----------------------------------------------------------------------------
(* What each step does to the records, in a well-formed state *)

LEMMA AcquireMoves ==
  ASSUME TypeOK, NEW p \in Process, Acquire(p) \/ AcquireRaises(p)
  PROVE  \E c \in Cleaner :
           /\ cleaner' = [cleaner EXCEPT ![p] = c] /\ cleaner[p].pc = "off"
           /\ UNCHANGED <<now, pool, reported, report>>
           /\ \/ /\ ~ Held /\ c.pc = "renew" /\ c.at = now
                 /\ lock' = [id |-> p, expires |-> now + LockTimeout]
              \/ /\ c.pc = "none" /\ c.at = cleaner[p].at
                 /\ \/ lock' = lock
                    \/ ~ Held /\ lock' = [id |-> p, expires |-> now + LockTimeout]
<1> DEFINE c == [cleaner[p] EXCEPT !.pc = "renew", !.at = now]
           d == [cleaner[p] EXCEPT !.pc = "none"]
<1>1. cleaner[p] \in Cleaner /\ now \in Time
  BY DEF TypeOK
<1>2. /\ c \in Cleaner /\ c.pc = "renew" /\ c.at = now
      /\ d \in Cleaner /\ d.pc = "none" /\ d.at = cleaner[p].at
  BY <1>1 DEF Cleaner
<1>3. /\ cleaner[p].pc = "off" /\ UNCHANGED <<now, pool, reported, report>>
      /\ \/ /\ ~ Held /\ cleaner' = [cleaner EXCEPT ![p] = c]
            /\ lock' = [id |-> p, expires |-> now + LockTimeout]
         \/ /\ cleaner' = [cleaner EXCEPT ![p] = d]
            /\ \/ lock' = lock
               \/ ~ Held /\ lock' = [id |-> p, expires |-> now + LockTimeout]
  BY DEF Acquire, AcquireRaises, TypeOK
<1> HIDE DEF c, d
<1> QED
  BY <1>2, <1>3

LEMMA RenewMoves ==
  ASSUME TypeOK, NEW p \in Process, Renew(p) \/ RenewRaises(p)
  PROVE  \E c \in Cleaner :
           /\ cleaner' = [cleaner EXCEPT ![p] = c] /\ cleaner[p].pc \in {"renew", "sleep"}
           /\ cleaner[p].pc = "sleep" => report[p] = NoReport
           /\ UNCHANGED <<now, pool, reported, report>>
           /\ \/ /\ Held /\ c.pc = "read" /\ c.at = now
                 /\ lock' = [id |-> p, expires |-> now + LockTimeout]
              \/ /\ c.pc = "release" /\ c.at = cleaner[p].at
                 /\ \/ lock' = lock
                    \/ Held /\ lock' = [id |-> p, expires |-> now + LockTimeout]
<1> DEFINE c == [cleaner[p] EXCEPT !.pc = "read", !.at = now]
           d == [cleaner[p] EXCEPT !.pc = "release"]
           e == [cleaner[p] EXCEPT !.pc = "release", !.raised = TRUE]
<1>1. cleaner[p] \in Cleaner /\ now \in Time
  BY DEF TypeOK
<1>2. /\ c \in Cleaner /\ c.pc = "read" /\ c.at = now
      /\ d \in Cleaner /\ d.pc = "release" /\ d.at = cleaner[p].at
      /\ e \in Cleaner /\ e.pc = "release" /\ e.at = cleaner[p].at
  BY <1>1 DEF Cleaner
<1>3. /\ cleaner[p].pc \in {"renew", "sleep"} /\ UNCHANGED <<now, pool, reported, report>>
      /\ cleaner[p].pc = "sleep" => report[p] = NoReport
      /\ \/ /\ Held /\ cleaner' = [cleaner EXCEPT ![p] = c]
            /\ lock' = [id |-> p, expires |-> now + LockTimeout]
         \/ ~ Held /\ cleaner' = [cleaner EXCEPT ![p] = d] /\ lock' = lock
         \/ /\ cleaner' = [cleaner EXCEPT ![p] = e]
            /\ \/ lock' = lock
               \/ Held /\ lock' = [id |-> p, expires |-> now + LockTimeout]
  BY DEF Renew, RenewRaises, LeaveLoop, AtRenewal, Renewed, TypeOK
<1> HIDE DEF c, d, e
<1> QED
  BY <1>2, <1>3

LEMMA SweepingMoves ==
  ASSUME TypeOK, NEW p \in Process, NEW todo \in SUBSET Model
  PROVE  LET c == Sweeping(p, todo) IN
         /\ c \in Cleaner /\ c.at = cleaner[p].at /\ c.todo = todo
         /\ \/ c.pc = "sweep" /\ c.view = cleaner[p].view
            \/ c.pc = "sleep" /\ todo = {}
<1>1. cleaner[p] \in Cleaner /\ now \in 0 .. MaxTime
  BY DEF TypeOK, Time
<1>2. now + TIMEOUT_DURATION \in 0 .. MaxTime + TIMEOUT_DURATION
  BY <1>1, ConstantsAssumption
<1>3. [m \in Model |-> Empty] \in [Model -> Connections]
  BY EmptyType
<1> QED
  BY <1>1, <1>2, <1>3 DEF Sweeping, Cleaner

LEMMA ReadPoolMoves ==
  ASSUME TypeOK, NEW p \in Process, ReadPool(p)
  PROVE  \E c \in Cleaner :
           /\ cleaner' = [cleaner EXCEPT ![p] = c]
           /\ cleaner[p].pc = "read" /\ c.at = cleaner[p].at
           /\ UNCHANGED <<now, lock, pool, reported, report>>
           /\ c.todo = {m \in Model : Present(m)}
           /\ \/ c.pc = "sweep" /\ c.view = pool
              \/ c.pc = "sleep" /\ c.todo = {}
<1> DEFINE todo == {m \in Model : Present(m)}
           s == Sweeping(p, todo)
           c == [s EXCEPT !.view = pool]
           d == Sweeping(p, {})
<1>1. pool \in [Model -> Connections] /\ todo \in SUBSET Model /\ {} \in SUBSET Model
  BY DEF TypeOK
<1>2. /\ cleaner[p].pc = "read" /\ UNCHANGED <<now, lock, pool, reported, report>>
      /\ \/ todo # {} /\ cleaner' = [cleaner EXCEPT ![p] = c]
         \/ todo = {} /\ cleaner' = [cleaner EXCEPT ![p] = d]
  BY DEF ReadPool
<1> HIDE DEF todo
<1>3. /\ s \in Cleaner /\ s.at = cleaner[p].at /\ s.todo = todo
      /\ s.pc = "sweep" \/ (s.pc = "sleep" /\ todo = {})
      /\ d \in Cleaner /\ d.at = cleaner[p].at /\ d.todo = {} /\ d.pc \in {"sweep", "sleep"}
  BY <1>1, SweepingMoves
<1>4. d.pc = "sleep"
  BY DEF Sweeping, TypeOK, Cleaner
<1> HIDE DEF s, d
<1>5. /\ c \in Cleaner /\ c.at = s.at /\ c.todo = s.todo /\ c.pc = s.pc /\ c.view = pool
  BY <1>1, <1>3 DEF Cleaner
<1> HIDE DEF c
<1> QED
  BY <1>2, <1>3, <1>4, <1>5 DEF todo

LEMMA UnexpiredType ==
  ASSUME NEW connections \in Connections, NEW at
  PROVE  Unexpired(connections, at) \in Connections
BY DEF Unexpired, Connections

LEMMA SweepMoves ==
  ASSUME TypeOK, NEW p \in Process, NEW m \in Model, SweepModel(p, m)
  PROVE  \E c \in Cleaner :
           /\ cleaner' = [cleaner EXCEPT ![p] = c]
           /\ cleaner[p].pc = "sweep" /\ m \in cleaner[p].todo /\ c.at = cleaner[p].at
           /\ UNCHANGED <<now, lock, reported, report>>
           /\ \/ ~ Present(m) /\ c.pc = "release" /\ pool' = pool
              \/ /\ pool' = [pool EXCEPT ![m] = Unexpired(cleaner[p].view[m], cleaner[p].at)]
                 /\ c.todo = cleaner[p].todo \ {m}
                 /\ \/ c.pc = "sweep" /\ c.view = cleaner[p].view
                    \/ c.pc = "sleep" /\ c.todo = {}
<1> DEFINE c == Sweeping(p, cleaner[p].todo \ {m})
           d == [cleaner[p] EXCEPT !.pc = "release"]
<1>1. cleaner[p] \in Cleaner /\ cleaner[p].todo \ {m} \in SUBSET Model
  BY DEF TypeOK, Cleaner
<1>2. /\ c \in Cleaner /\ c.at = cleaner[p].at /\ c.todo = cleaner[p].todo \ {m}
      /\ \/ c.pc = "sweep" /\ c.view = cleaner[p].view
         \/ c.pc = "sleep" /\ cleaner[p].todo \ {m} = {}
      /\ d \in Cleaner /\ d.at = cleaner[p].at /\ d.pc = "release"
  BY <1>1, SweepingMoves DEF Cleaner
<1>3. /\ cleaner[p].pc = "sweep" /\ m \in cleaner[p].todo
      /\ UNCHANGED <<now, lock, reported, report>>
      /\ \/ ~ Present(m) /\ cleaner' = [cleaner EXCEPT ![p] = d] /\ pool' = pool
         \/ /\ pool' = [pool EXCEPT ![m] = Unexpired(cleaner[p].view[m], cleaner[p].at)]
            /\ cleaner' = [cleaner EXCEPT ![p] = c]
  BY DEF SweepModel
<1> HIDE DEF c, d
<1> QED
  BY <1>2, <1>3

LEMMA SweepRaisesMoves ==
  ASSUME TypeOK, NEW p \in Process, SweepRaises(p)
  PROVE  \E c \in Cleaner :
           /\ cleaner' = [cleaner EXCEPT ![p] = c] /\ cleaner[p].pc \in {"read", "sweep"}
           /\ c.pc = "release" /\ c.raised /\ c.at = cleaner[p].at
           /\ UNCHANGED <<now, lock, reported, report>>
           /\ \/ pool' = pool
              \/ /\ cleaner[p].pc = "sweep"
                 /\ \E m \in cleaner[p].todo :
                      pool' = [pool EXCEPT ![m] = Unexpired(cleaner[p].view[m], cleaner[p].at)]
<1> DEFINE c == [cleaner[p] EXCEPT !.pc = "release", !.raised = TRUE]
<1>1. c \in Cleaner /\ c.pc = "release" /\ c.raised /\ c.at = cleaner[p].at
  BY DEF TypeOK, Cleaner
<1>2. cleaner' = [cleaner EXCEPT ![p] = c]
  BY DEF SweepRaises, LeaveLoop, TypeOK
<1> HIDE DEF c
<1> QED
  BY <1>1, <1>2 DEF SweepRaises

Holding(p) == cleaner[p].pc \in {"renew", "read", "sweep", "sleep", "release", "drop"}

LEMMA GivingUpMoves ==
  ASSUME TypeOK, NEW p \in Process, ShutDown(p) \/ GetOwner(p)
  PROVE  \E c \in Cleaner :
           /\ cleaner' = [cleaner EXCEPT ![p] = c]
           /\ UNCHANGED <<now, lock, pool, reported, report>>
           /\ report[p] = NoReport \/ cleaner[p].pc = "release"
           /\ \/ c.pc \in {"off", "none"} /\ c.at = 0
              \/ c.pc \in {"release", "drop"} /\ Holding(p) /\ c.at = cleaner[p].at
<1> DEFINE c == [cleaner[p] EXCEPT !.pc = "release", !.stopping = TRUE]
           d == [cleaner[p] EXCEPT !.pc = "drop"]
           e == Ended(p)
<1>1. cleaner[p] \in Cleaner
  BY DEF TypeOK
<1>2. /\ c \in Cleaner /\ c.pc = "release" /\ c.at = cleaner[p].at
      /\ d \in Cleaner /\ d.pc = "drop" /\ d.at = cleaner[p].at
  BY <1>1 DEF Cleaner
<1>3. /\ e \in Cleaner /\ e.pc \in {"off", "none"} /\ e.at = 0
      /\ NotRunning \in Cleaner /\ NotRunning.pc = "off" /\ NotRunning.at = 0
  BY EmptyType DEF Ended, Cleaner, NotRunning
<1>4. /\ UNCHANGED <<now, lock, pool, reported, report>>
      /\ report[p] = NoReport \/ cleaner[p].pc = "release"
      /\ \/ cleaner' = [cleaner EXCEPT ![p] = c] /\ Holding(p)
         \/ cleaner' = [cleaner EXCEPT ![p] = d] /\ Holding(p)
         \/ cleaner' = [cleaner EXCEPT ![p] = e]
         \/ cleaner' = [cleaner EXCEPT ![p] = NotRunning]
  BY DEF ShutDown, GetOwner, Holding
<1> HIDE DEF c, d, e
<1> QED
  BY <1>2, <1>3, <1>4

LEMMA LeavingMoves ==
  ASSUME TypeOK, NEW p \in Process, DropLock(p) \/ ReleaseRaises(p) \/ Crash(p)
  PROVE  \E c \in Cleaner :
           /\ cleaner' = [cleaner EXCEPT ![p] = c] /\ c.pc \in {"off", "none"} /\ c.at = 0
           /\ UNCHANGED <<now, pool, reported>>
           /\ \/ /\ report' = report /\ cleaner[p].pc \in {"release", "drop"}
                 /\ \/ lock' = lock
                    \/ lock' = [id |-> NoProcess, expires |-> 0]
              \/ /\ report' = [report EXCEPT ![p] = NoReport]
                 /\ lock' = IF lock.id = p THEN [lock EXCEPT !.id = NoProcess] ELSE lock
<1>1. /\ Ended(p) \in Cleaner /\ Ended(p).pc \in {"off", "none"} /\ Ended(p).at = 0
      /\ NotRunning \in Cleaner /\ NotRunning.pc = "off" /\ NotRunning.at = 0
  BY EmptyType DEF Ended, Cleaner, NotRunning
<1>2. CASE DropLock(p) \/ ReleaseRaises(p)
  <2>1. /\ cleaner' = [cleaner EXCEPT ![p] = Ended(p)] /\ UNCHANGED <<now, pool, reported>>
        /\ report' = report /\ cleaner[p].pc \in {"release", "drop"}
        /\ lock' = lock \/ lock' = [id |-> NoProcess, expires |-> 0]
    BY <1>2 DEF DropLock, ReleaseRaises
  <2> QED
    BY <1>1, <2>1
<1>3. CASE Crash(p)
  <2>1. /\ cleaner' = [cleaner EXCEPT ![p] = NotRunning] /\ UNCHANGED <<now, pool, reported>>
        /\ report' = [report EXCEPT ![p] = NoReport]
        /\ lock' = IF lock.id = p THEN [lock EXCEPT !.id = NoProcess] ELSE lock
    BY <1>3 DEF Crash
  <2> QED
    BY <1>1, <2>1
<1> QED
  BY <1>2, <1>3

\* A report that is under way.
Reporting(r) ==
  /\ r \in Report /\ r.pc \in {"get", "write"} /\ r.sid \in Sid /\ r.model \in Model
  /\ r.at \in Time /\ r.connections \in Connections

LEMMA UsageMoves ==
  ASSUME TypeOK, NEW p \in Process, NEW s \in Sid, NEW m \in Model, Usage(p, s, m)
  PROVE  \E r \in Report :
           /\ report' = [report EXCEPT ![p] = r] /\ report[p] = NoReport
           /\ UNCHANGED <<now, lock, pool, reported, cleaner>>
           /\ cleaner[p].pc # "off" /\ ~ Occupied(p)
           /\ Reporting(r) /\ r.model = m /\ r.at = now
           /\ r.pc = "write" => ~ Present(m) /\ r.connections = Empty
<1> DEFINE r == [pc |-> IF Present(m) THEN "get" ELSE "write", sid |-> s, model |-> m,
                 at |-> now, connections |-> Empty]
<1>1. now \in Time /\ Empty \in Connections
  BY EmptyType DEF TypeOK
<1>2. /\ Reporting(r) /\ r.model = m /\ r.at = now
      /\ r.pc = "write" => ~ Present(m) /\ r.connections = Empty
  BY <1>1 DEF Reporting, Report
<1>3. /\ report' = [report EXCEPT ![p] = r] /\ report[p] = NoReport
      /\ UNCHANGED <<now, lock, pool, reported, cleaner>>
      /\ cleaner[p].pc # "off" /\ ~ Occupied(p)
  BY DEF Usage
<1> HIDE DEF r
<1> QED
  BY <1>2, <1>3 DEF Reporting

LEMMA UnderWay ==
  ASSUME TypeOK, NEW p \in Process, report[p] # NoReport
  PROVE  Reporting(report[p])
BY DEF TypeOK, Report, NoReport, Reporting

LEMMA GetMoves ==
  ASSUME TypeOK, NEW p \in Process, GetConnections(p) \/ ReportRaises(p)
  PROVE  \E r \in Report :
           /\ report' = [report EXCEPT ![p] = r] /\ report[p] # NoReport
           /\ UNCHANGED <<now, lock, pool, reported, cleaner>>
           /\ \/ r = NoReport
              \/ /\ r # NoReport /\ Reporting(r) /\ r.model = report[p].model
                 /\ r.at = report[p].at /\ r.connections = pool[r.model]
<1> DEFINE b == report[p]
           r == [b EXCEPT !.pc = "write", !.connections = pool[b.model]]
<1>1. CASE GetConnections(p)
  <2>1. b.pc = "get" /\ b # NoReport
    BY <1>1 DEF GetConnections, NoReport
  <2>2. /\ b \in [pc: {"get", "write"}, sid: Sid, model: Model, at: Time, connections: Connections]
        /\ pool[b.model] \in Connections
    BY <2>1 DEF TypeOK, Report
  <2>3. /\ r \in [pc: {"get", "write"}, sid: Sid, model: Model, at: Time, connections: Connections]
        /\ r.pc = "write" /\ r.model = b.model /\ r.at = b.at /\ r.connections = pool[b.model]
    BY <2>2
  <2>4. /\ UNCHANGED <<now, lock, pool, reported, cleaner>>
        /\ \/ report' = [report EXCEPT ![p] = r]
           \/ report' = [report EXCEPT ![p] = NoReport]
    BY <1>1 DEF GetConnections
  <2> HIDE DEF r
  <2>5. r \in Report /\ Reporting(r) /\ r # NoReport
    BY <2>3 DEF Report, Reporting, NoReport
  <2> QED
    BY <2>1, <2>3, <2>4, <2>5, EmptyType
<1>2. CASE ReportRaises(p)
  BY <1>2, EmptyType DEF ReportRaises
<1> QED
  BY <1>1, <1>2

LEMMA StoreMoves ==
  ASSUME TypeOK, NEW p \in Process, StoreReport(p)
  PROVE  LET r == report[p] IN
         /\ Reporting(r) /\ r.pc = "write" /\ r # NoReport
         /\ report' = [report EXCEPT ![p] = NoReport] /\ UNCHANGED <<now, lock, cleaner>>
         /\ pool' = [pool EXCEPT ![r.model] = [r.connections EXCEPT ![r.sid] = r.at]]
         /\ reported' = [reported EXCEPT ![r.model] = [reported[r.model] EXCEPT ![r.sid] = r.at]]
         /\ pool' \in [Model -> Connections] /\ reported' \in [Model -> Connections]
<1>1. report[p].pc = "write" /\ report[p] # NoReport
  BY DEF StoreReport, NoReport
<1>2. Reporting(report[p])
  BY <1>1, UnderWay
<1> DEFINE m == report[p].model
           s == report[p].sid
           at == report[p].at
           conns == report[p].connections
<1>3. /\ m \in Model /\ s \in Sid /\ at \in Time /\ conns \in Connections
      /\ report' = [report EXCEPT ![p] = NoReport] /\ UNCHANGED <<now, lock, cleaner>>
      /\ pool' = [pool EXCEPT ![m] = [conns EXCEPT ![s] = at]]
      /\ reported' = [reported EXCEPT ![m] = [reported[m] EXCEPT ![s] = at]]
  BY <1>2 DEF StoreReport, WithReport, Reporting
<1> HIDE DEF m, s, at, conns
<1>4. pool' \in [Model -> Connections] /\ reported' \in [Model -> Connections]
  BY <1>3 DEF TypeOK, Connections
<1> QED
  BY <1>1, <1>2, <1>3, <1>4 DEF m, s, at, conns

----------------------------------------------------------------------------
(* Types *)

LEMMA TypeNext == TypeOK /\ [Next]_vars => TypeOK'
<1> SUFFICES ASSUME TypeOK, [Next]_vars PROVE TypeOK'
  OBVIOUS
<1>1. now \in 0 .. MaxTime /\ now + LockTimeout \in 0 .. MaxTime + LockTimeout
      /\ 0 \in 0 .. MaxTime + LockTimeout
  BY ConstantsAssumption DEF TypeOK, Time
<1>2. ASSUME NEW p \in Process, NEW c \in Cleaner, cleaner' = [cleaner EXCEPT ![p] = c]
      PROVE  cleaner' \in [Process -> Cleaner]
  BY <1>2 DEF TypeOK
<1>3. ASSUME NEW p \in Process, NEW r \in Report, report' = [report EXCEPT ![p] = r]
      PROVE  report' \in [Process -> Report]
  BY <1>3 DEF TypeOK
<1>4. ASSUME NEW p \in Process, Acquire(p) \/ AcquireRaises(p) \/ Renew(p) \/ RenewRaises(p)
      PROVE  TypeOK'
  <2>1. PICK c \in Cleaner :
          /\ cleaner' = [cleaner EXCEPT ![p] = c] /\ UNCHANGED <<now, pool, reported, report>>
          /\ lock' = lock \/ lock' = [id |-> p, expires |-> now + LockTimeout]
    BY <1>4, AcquireMoves, RenewMoves
  <2> QED
    BY <1>1, <1>2, <2>1 DEF TypeOK
<1>5. ASSUME NEW p \in Process, ReadPool(p) \/ ShutDown(p) \/ GetOwner(p) PROVE TypeOK'
  <2>1. PICK c \in Cleaner : /\ cleaner' = [cleaner EXCEPT ![p] = c]
                             /\ UNCHANGED <<now, lock, pool, reported, report>>
    BY <1>5, ReadPoolMoves, GivingUpMoves
  <2> QED
    BY <1>2, <2>1 DEF TypeOK
<1>6. ASSUME NEW p \in Process, NEW m \in Model, SweepModel(p, m) PROVE TypeOK'
  <2>1. PICK c \in Cleaner :
          /\ cleaner' = [cleaner EXCEPT ![p] = c] /\ UNCHANGED <<now, lock, reported, report>>
          /\ \/ pool' = pool
             \/ pool' = [pool EXCEPT ![m] = Unexpired(cleaner[p].view[m], cleaner[p].at)]
    BY <1>6, SweepMoves
  <2>2. Unexpired(cleaner[p].view[m], cleaner[p].at) \in Connections
    BY UnexpiredType DEF TypeOK, Cleaner
  <2>3. pool' \in [Model -> Connections]
    BY <2>1, <2>2 DEF TypeOK
  <2> QED
    BY <1>2, <2>1, <2>3 DEF TypeOK
<1>7. ASSUME NEW p \in Process, DropLock(p) \/ ReleaseRaises(p) \/ Crash(p) PROVE TypeOK'
  <2>1. PICK c \in Cleaner :
          /\ cleaner' = [cleaner EXCEPT ![p] = c] /\ UNCHANGED <<now, pool, reported>>
          /\ report' = report \/ report' = [report EXCEPT ![p] = NoReport]
          /\ \/ lock' = [id |-> NoProcess, expires |-> 0]
             \/ lock' = [lock EXCEPT !.id = NoProcess]
             \/ lock' = lock
    BY <1>7, LeavingMoves
  <2>2. lock' \in [id: Process \cup {NoProcess}, expires: 0 .. MaxTime + LockTimeout]
    BY <1>1, <2>1 DEF TypeOK
  <2> QED
    BY <1>2, <1>3, <2>1, <2>2, EmptyType DEF TypeOK
<1>8. ASSUME NEW p \in Process,
             GetConnections(p) \/ ReportRaises(p) \/ \E s \in Sid, m \in Model : Usage(p, s, m)
      PROVE  TypeOK'
  <2>1. PICK r \in Report : /\ report' = [report EXCEPT ![p] = r]
                            /\ UNCHANGED <<now, lock, pool, reported, cleaner>>
    BY <1>8, UsageMoves, GetMoves
  <2> QED
    BY <1>3, <2>1 DEF TypeOK
<1>9. ASSUME NEW p \in Process, StoreReport(p) PROVE TypeOK'
  BY <1>3, <1>9, StoreMoves, EmptyType DEF TypeOK
<1>10. CASE Tick
  BY <1>1, <1>10, ConstantsAssumption DEF Tick, TypeOK, Time
<1>11. CASE UNCHANGED vars
  BY <1>11 DEF vars, TypeOK
<1>12. ASSUME NEW p \in Process, SweepRaises(p) PROVE TypeOK'
  <2>1. PICK c \in Cleaner :
          /\ cleaner' = [cleaner EXCEPT ![p] = c] /\ UNCHANGED <<now, lock, reported, report>>
          /\ \/ pool' = pool
             \/ \E m \in cleaner[p].todo :
                  pool' = [pool EXCEPT ![m] = Unexpired(cleaner[p].view[m], cleaner[p].at)]
    BY <1>12, SweepRaisesMoves
  <2>2. \A m \in cleaner[p].todo : Unexpired(cleaner[p].view[m], cleaner[p].at) \in Connections
    BY UnexpiredType DEF TypeOK, Cleaner
  <2>3. pool' \in [Model -> Connections]
    BY <2>1, <2>2 DEF TypeOK
  <2> QED
    BY <1>2, <2>1, <2>3 DEF TypeOK
<1> QED
  BY <1>4, <1>5, <1>6, <1>7, <1>8, <1>9, <1>10, <1>11, <1>12
     DEF Next, CleanerStep, CleanerRaises, ReportStep

LEMMA TypeInit == Init => TypeOK
<1>1. 0 \in Time /\ 0 \in 0 .. MaxTime + LockTimeout
  BY ConstantsAssumption DEF Time
<1> QED
  BY <1>1, EmptyType DEF Init, TypeOK

\* The state is well formed, for any processes, models, sessions and timeouts.
THEOREM UsageTypeCorrect == Spec => []TypeOK
BY TypeInit, TypeNext, PTL DEF Spec

----------------------------------------------------------------------------
(* The lease *)

\* The hold-up of a process, with its sleep, is shorter than the lock lives.
Prompt == TIMEOUT_DURATION + MaxPause < LockTimeout

\* Who holds the lock has its id in the key and is in time to renew it.
LeaseInv ==
  \A p \in Process : Holding(p) =>
    /\ lock.id = p
    /\ lock.expires >= cleaner[p].at + LockTimeout
    /\ cleaner[p].at <= now
    /\ now <= cleaner[p].at + TIMEOUT_DURATION + MaxPause

\* The models a cleaner has yet to sweep are still in the pool.
SweepInv ==
  \A p \in Process : cleaner[p].pc = "sweep" => \A m \in cleaner[p].todo : Present(m)

CleanupInv == LeaseInv /\ SweepInv

LEMMA InitInv == Init => CleanupInv
BY DEF Init, CleanupInv, LeaseInv, SweepInv, Holding, NotRunning

\* In time, a holder finds the key when it renews.
LEMMA HolderHolds ==
  ASSUME Prompt, TypeOK, LeaseInv, NEW p \in Process, Holding(p) PROVE Held
<1>1. now \in Nat /\ cleaner[p].at \in Nat /\ lock.expires \in Nat
  BY ConstantsAssumption DEF TypeOK, Cleaner, Time
<1> QED
  BY <1>1, ConstantsAssumption DEF LeaseInv, Prompt, Held

\* The cleaner of a process that got the lock, or renewed it.
LEMMA TakesLock ==
  ASSUME Prompt, TypeOK, CleanupInv, NEW p \in Process, NEW c \in Cleaner,
         cleaner' = [cleaner EXCEPT ![p] = c],
         c.pc \in {"renew", "read"}, c.at = now,
         lock' = [id |-> p, expires |-> now + LockTimeout],
         UNCHANGED <<now, pool>>,
         Held => Holding(p)
  PROVE  CleanupInv'
<1>1. cleaner'[p] = c /\ \A q \in Process \ {p} : cleaner'[q] = cleaner[q]
  BY DEF TypeOK
<1>2. now \in Nat
  BY ConstantsAssumption DEF TypeOK, Time
<1>3. \A q \in Process \ {p} : ~ Holding(q)
  BY HolderHolds DEF CleanupInv, LeaseInv
<1>4. LeaseInv'
  BY <1>1, <1>2, <1>3, ConstantsAssumption DEF LeaseInv, Holding
<1>5. SweepInv'
  BY <1>1 DEF CleanupInv, SweepInv, Present
<1> QED
  BY <1>4, <1>5 DEF CleanupInv

\* A cleaner that goes on in the time it has, with the lock as it is.
LEMMA KeepsLock ==
  ASSUME TypeOK, CleanupInv, NEW p \in Process, NEW c \in Cleaner,
         cleaner' = [cleaner EXCEPT ![p] = c],
         c.pc \in {"read", "sweep", "sleep", "release", "drop"} =>
           Holding(p) /\ c.at = cleaner[p].at,
         c.pc # "renew",
         c.pc = "sweep" => \A m \in c.todo : Present(m)',
         \A m \in Model : Present(m) => Present(m)' \/ (Holding(p) /\ m \notin c.todo),
         UNCHANGED <<now, lock>>
  PROVE  CleanupInv'
<1>1. cleaner'[p] = c /\ \A q \in Process \ {p} : cleaner'[q] = cleaner[q]
  BY DEF TypeOK
<1>2. LeaseInv'
  BY <1>1 DEF CleanupInv, LeaseInv, Holding
<1>3. SweepInv'
  <2> SUFFICES ASSUME NEW q \in Process \ {p}, cleaner[q].pc = "sweep",
                      NEW m \in cleaner[q].todo
               PROVE  Present(m)'
    BY <1>1 DEF SweepInv
  <2>1. m \in Model /\ Present(m)
    BY DEF CleanupInv, TypeOK, Cleaner, SweepInv
  <2>2. ~ Holding(p)
    BY DEF CleanupInv, LeaseInv, Holding
  <2> QED
    BY <2>1, <2>2
<1> QED
  BY <1>2, <1>3 DEF CleanupInv

\* The cleaner finds its keys, and the invariant holds on.
LEMMA SweepModelInv ==
  ASSUME TypeOK, CleanupInv, NEW p \in Process, NEW m \in Model, SweepModel(p, m)
  PROVE  CleanupInv' /\ cleaner'[p].pc # "release"
<1>1. m \in cleaner[p].todo /\ cleaner[p].pc = "sweep" /\ cleaner[p].todo \subseteq Model
  BY DEF SweepModel, TypeOK, Cleaner
<1>2. Present(m)
  BY <1>1 DEF CleanupInv, SweepInv
<1>3. PICK c \in Cleaner :
        /\ cleaner' = [cleaner EXCEPT ![p] = c] /\ c.at = cleaner[p].at
        /\ UNCHANGED <<now, lock>>
        /\ pool' = [pool EXCEPT ![m] = Unexpired(cleaner[p].view[m], cleaner[p].at)]
        /\ c.todo = cleaner[p].todo \ {m} /\ c.pc \in {"sweep", "sleep"}
  BY <1>2, SweepMoves
<1>4. \A n \in Model \ {m} : Present(n)' <=> Present(n)
  BY <1>3 DEF Present, TypeOK
<1>5. \A n \in c.todo : Present(n)'
  BY <1>1, <1>3, <1>4 DEF CleanupInv, SweepInv
<1>6. \A n \in Model : Present(n) => Present(n)' \/ (Holding(p) /\ n \notin c.todo)
  BY <1>1, <1>3, <1>4 DEF Holding
<1>7. CleanupInv'
  BY <1>1, <1>3, <1>5, <1>6, KeepsLock DEF Holding
<1>8. cleaner'[p] = c
  BY <1>3 DEF TypeOK
<1> QED
  BY <1>3, <1>7, <1>8

\* What a call of the cleaner that raises leaves behind.
LEMMA SweepRaisesInv ==
  ASSUME TypeOK, CleanupInv, NEW p \in Process, SweepRaises(p)
  PROVE  CleanupInv'
<1>1. PICK c \in Cleaner :
        /\ cleaner' = [cleaner EXCEPT ![p] = c] /\ cleaner[p].pc \in {"read", "sweep"}
        /\ c.pc = "release" /\ c.at = cleaner[p].at /\ UNCHANGED <<now, lock>>
  BY SweepRaisesMoves
<1>2. cleaner'[p] = c /\ \A q \in Process \ {p} : cleaner'[q] = cleaner[q]
  BY <1>1 DEF TypeOK
<1>3. \A q \in Process \ {p} : ~ Holding(q)
  BY <1>1 DEF CleanupInv, LeaseInv, Holding
<1>4. LeaseInv'
  BY <1>1, <1>2 DEF CleanupInv, LeaseInv, Holding
<1>5. SweepInv'
  BY <1>1, <1>2, <1>3 DEF SweepInv, Holding
<1> QED
  BY <1>4, <1>5 DEF CleanupInv

\* The holder of the lock renews it and does not learn of it.
LEMMA RenewRaisesInv ==
  ASSUME Prompt, TypeOK, CleanupInv, NEW p \in Process, RenewRaises(p)
  PROVE  CleanupInv'
<1>1. /\ cleaner[p].pc \in {"renew", "sleep"} /\ cleaner'[p].pc = "release"
      /\ cleaner'[p].at = cleaner[p].at /\ \A q \in Process \ {p} : cleaner'[q] = cleaner[q]
      /\ UNCHANGED <<now, pool>>
      /\ lock' = lock \/ lock' = [id |-> p, expires |-> now + LockTimeout]
  BY DEF RenewRaises, LeaveLoop, AtRenewal, Renewed, TypeOK, Cleaner
<1>2. \A q \in Process \ {p} : ~ Holding(q)
  BY <1>1 DEF CleanupInv, LeaseInv, Holding
<1>3. now \in Nat /\ cleaner[p].at \in Nat /\ lock.expires \in Nat
  BY ConstantsAssumption DEF TypeOK, Cleaner, Time
<1>4. /\ Holding(p) /\ lock.id = p /\ lock.expires >= cleaner[p].at + LockTimeout
      /\ cleaner[p].at <= now /\ now <= cleaner[p].at + TIMEOUT_DURATION + MaxPause
  BY <1>1 DEF CleanupInv, LeaseInv, Holding
<1>5. lock'.id = p /\ lock'.expires >= cleaner[p].at + LockTimeout
  <2>1. CASE lock' = lock
    BY <1>4, <2>1
  <2>2. CASE lock' = [id |-> p, expires |-> now + LockTimeout]
    BY <1>3, <1>4, <2>2, ConstantsAssumption
  <2> QED
    BY <1>1, <2>1, <2>2
<1>6. LeaseInv'
  BY <1>1, <1>2, <1>4, <1>5 DEF LeaseInv, Holding
<1>7. SweepInv'
  BY <1>1 DEF CleanupInv, SweepInv, Present
<1> QED
  BY <1>6, <1>7 DEF CleanupInv

LEMMA CleanupNext == Prompt /\ TypeOK /\ CleanupInv /\ [Next]_vars => CleanupInv'
<1> SUFFICES ASSUME Prompt, TypeOK, CleanupInv, [Next]_vars PROVE CleanupInv'
  OBVIOUS
<1>1. ASSUME NEW p \in Process, Acquire(p) \/ AcquireRaises(p) PROVE CleanupInv'
  <2>1. PICK c \in Cleaner :
          /\ cleaner' = [cleaner EXCEPT ![p] = c] /\ UNCHANGED <<now, pool>>
          /\ \/ /\ ~ Held /\ c.pc = "renew" /\ c.at = now
                /\ lock' = [id |-> p, expires |-> now + LockTimeout]
             \/ c.pc = "none" /\ (lock' = lock \/ ~ Held)
    BY <1>1, AcquireMoves
  <2>2. CASE ~ Held /\ c.pc = "none"
    <3>1. \A q \in Process : ~ Holding(q)
      BY <2>2, HolderHolds DEF CleanupInv
    <3>2. \A q \in Process : ~ Holding(q)'
      BY <2>1, <2>2, <3>1 DEF Holding, TypeOK
    <3> QED
      BY <3>2 DEF CleanupInv, LeaseInv, SweepInv, Holding
  <2> QED
    BY <2>1, <2>2, TakesLock, KeepsLock DEF Present
<1>2. ASSUME NEW p \in Process, Renew(p) PROVE CleanupInv'
  <2>1. Holding(p)
    BY <1>2 DEF Renew, AtRenewal, Holding
  <2>2. Held
    BY <2>1, HolderHolds DEF CleanupInv
  <2>3. PICK c \in Cleaner :
          /\ cleaner' = [cleaner EXCEPT ![p] = c] /\ UNCHANGED <<now, pool>>
          /\ \/ /\ c.pc = "read" /\ c.at = now
                /\ lock' = [id |-> p, expires |-> now + LockTimeout]
             \/ c.pc = "release"
    BY <1>2, RenewMoves
  <2>4. c.pc = "read"
    BY <1>2, <2>2, <2>3 DEF Renew, TypeOK, Cleaner
  <2> QED
    BY <2>1, <2>3, <2>4, TakesLock
<1>3. ASSUME NEW p \in Process, ReadPool(p) PROVE CleanupInv'
  <2>1. PICK c \in Cleaner :
          /\ cleaner' = [cleaner EXCEPT ![p] = c] /\ UNCHANGED <<now, lock, pool>>
          /\ cleaner[p].pc = "read" /\ c.at = cleaner[p].at
          /\ c.todo = {m \in Model : Present(m)} /\ c.pc \in {"sweep", "sleep"}
    BY <1>3, ReadPoolMoves
  <2> QED
    BY <2>1, KeepsLock DEF Holding, Present
<1>4. ASSUME NEW p \in Process, ShutDown(p) \/ GetOwner(p) PROVE CleanupInv'
  <2>1. PICK c \in Cleaner :
          /\ cleaner' = [cleaner EXCEPT ![p] = c] /\ UNCHANGED <<now, lock, pool>>
          /\ \/ c.pc \in {"off", "none"}
             \/ c.pc \in {"release", "drop"} /\ Holding(p) /\ c.at = cleaner[p].at
    BY <1>4, GivingUpMoves
  <2> QED
    BY <2>1, KeepsLock DEF Present
<1>5. ASSUME NEW p \in Process, DropLock(p) \/ ReleaseRaises(p) \/ Crash(p) PROVE CleanupInv'
  <2>1. PICK c \in Cleaner :
          /\ cleaner' = [cleaner EXCEPT ![p] = c] /\ UNCHANGED <<now, pool>>
          /\ c.pc \in {"off", "none"}
          /\ \/ cleaner[p].pc \in {"release", "drop"}
             \/ lock' = IF lock.id = p THEN [lock EXCEPT !.id = NoProcess] ELSE lock
    BY <1>5, LeavingMoves
  <2>2. cleaner'[p] = c /\ \A q \in Process \ {p} : cleaner'[q] = cleaner[q]
    BY <2>1 DEF TypeOK
  <2>3. \A q \in Process \ {p} : Holding(q) => lock' = lock
    BY <2>1 DEF CleanupInv, LeaseInv, Holding
  <2>4. LeaseInv'
    BY <2>1, <2>2, <2>3 DEF CleanupInv, LeaseInv, Holding
  <2>5. SweepInv'
    BY <2>1, <2>2 DEF CleanupInv, SweepInv, Present
  <2> QED
    BY <2>4, <2>5 DEF CleanupInv
<1>6. ASSUME UNCHANGED <<now, lock, cleaner>>, \A n \in Model : Present(n) => Present(n)'
      PROVE  CleanupInv'
  <2>1. LeaseInv'
    BY <1>6 DEF CleanupInv, LeaseInv, Holding
  <2>2. SweepInv'
    BY <1>6 DEF CleanupInv, SweepInv, TypeOK, Cleaner
  <2> QED
    BY <2>1, <2>2 DEF CleanupInv
<1>7. ASSUME NEW p \in Process, ReportStep(p) \/ \E s \in Sid, m \in Model : Usage(p, s, m)
      PROVE  CleanupInv'
  <2>1. CASE StoreReport(p)
    <3> DEFINE r == report[p]
    <3>1. /\ UNCHANGED <<now, lock, cleaner>> /\ Reporting(r)
          /\ pool' = [pool EXCEPT ![r.model] = [r.connections EXCEPT ![r.sid] = r.at]]
      BY <2>1, StoreMoves
    <3>2. pool'[r.model][r.sid] = r.at /\ r.at # Never /\ Empty[r.sid] = Never
      BY <3>1 DEF Reporting, TypeOK, Connections, Never, Time, Empty
    <3>3. \A n \in Model : Present(n) => Present(n)'
      BY <3>1, <3>2 DEF Present, TypeOK
    <3> QED
      BY <1>6, <3>1, <3>3
  <2>2. CASE ~ StoreReport(p)
    BY <1>6, <1>7, <2>2, UsageMoves, GetMoves DEF ReportStep, Present
  <2> QED
    BY <2>1, <2>2
<1>8. CASE Tick
  <2>1. /\ now \in Nat /\ now' = now + 1 /\ UNCHANGED <<lock, pool, cleaner>>
    BY <1>8, ConstantsAssumption DEF Tick, TypeOK, Time
  <2>2. LeaseInv'
    <3> SUFFICES ASSUME NEW p \in Process, Holding(p)
                 PROVE  /\ cleaner[p].at <= now + 1
                        /\ now + 1 <= cleaner[p].at + TIMEOUT_DURATION + MaxPause
      BY <2>1 DEF CleanupInv, LeaseInv, Holding
    <3>1. ~ Overdue(p) /\ cleaner[p].at \in Nat /\ cleaner[p].at <= now
      BY <1>8, ConstantsAssumption DEF Tick, TypeOK, Cleaner, Time, CleanupInv, LeaseInv
    <3> QED
      BY <2>1, <3>1, ConstantsAssumption DEF Overdue, Holding
  <2>3. SweepInv'
    BY <2>1 DEF CleanupInv, SweepInv, Present
  <2> QED
    BY <2>2, <2>3 DEF CleanupInv
<1>9. CASE UNCHANGED vars
  BY <1>9 DEF vars, CleanupInv, LeaseInv, SweepInv, Holding, Present
<1> QED
  BY <1>1, <1>2, <1>3, <1>4, <1>5, <1>7, <1>8, <1>9, SweepModelInv, SweepRaisesInv, RenewRaisesInv
     DEF Next, CleanerStep, CleanerRaises

LEMMA CleanupAlways == ASSUME Prompt PROVE Spec => [](TypeOK /\ CleanupInv)
BY InitInv, CleanupNext, TypeInit, TypeNext, PTL DEF Spec

\* Two processes never clean at once, for any number of processes, any timeouts
\* and any crashes, when no process is held up beyond the life of its lock.
THEOREM OneCleanerAtATime ==
  ASSUME Prompt PROVE Spec => []OneCleaner
<1>1. CleanupInv => OneCleaner
  BY DEF CleanupInv, LeaseInv, OneCleaner, Cleaning, Holding
<1> QED
  BY <1>1, CleanupAlways, PTL

\* Under the same assumption a renewal finds the key and a sweep finds the
\* models it deletes: a cleaner that still runs ends only when a call raises.
THEOREM CleanersGoOn ==
  ASSUME Prompt PROVE Spec => CleanerGoesOn
<1>1. TypeOK /\ CleanupInv /\ [Next]_vars =>
        [\A p \in Process :
           /\ cleaner[p].pc \in {"renew", "read", "sweep"} \/ AtRenewal(p)
           /\ cleaner'[p].pc = "release"
           => cleaner'[p].raised \/ cleaner'[p].stopping]_vars
  <2> SUFFICES ASSUME TypeOK, CleanupInv, Next, NEW p \in Process,
                      cleaner[p].pc \in {"renew", "read", "sweep"} \/ AtRenewal(p),
                      cleaner'[p].pc = "release",
                      ~ cleaner'[p].raised, ~ cleaner'[p].stopping
               PROVE  FALSE
    OBVIOUS
  <2>1. cleaner[p].pc \in {"renew", "read", "sweep", "sleep"}
    BY DEF AtRenewal
  <2>2. CASE CleanerStep(p)
    <3>1. Held
      BY <2>1, HolderHolds DEF Holding, CleanupInv
    <3>2. CASE Renew(p)
      BY <3>1, <3>2 DEF Renew, TypeOK, Cleaner
    <3>3. CASE ReadPool(p)
      BY <3>3, ReadPoolMoves DEF TypeOK
    <3>4. CASE \E m \in Model : SweepModel(p, m)
      BY <3>4, SweepModelInv
    <3> QED
      BY <2>1, <2>2, <3>2, <3>3, <3>4 DEF CleanerStep, GetOwner, DropLock
  <2>3. CASE CleanerRaises(p) \/ ShutDown(p)
    BY <2>1, <2>3 DEF CleanerRaises, AcquireRaises, RenewRaises, SweepRaises, ReleaseRaises,
       LeaveLoop, ShutDown, NotRunning, TypeOK, Cleaner
  <2>4. ASSUME NEW q \in Process \ {p}, CleanerStep(q) \/ CleanerRaises(q) \/ ShutDown(q)
        PROVE  cleaner'[p] = cleaner[p]
    BY <2>4 DEF CleanerStep, Renew, ReadPool, GetOwner, DropLock, SweepModel, CleanerRaises,
       AcquireRaises, RenewRaises, SweepRaises, ReleaseRaises, LeaveLoop, ShutDown, TypeOK
  <2>5. ASSUME NEW q \in Process,
               \/ Acquire(q) \/ ReportStep(q) \/ Crash(q)
               \/ \E s \in Sid, m \in Model : Usage(q, s, m)
        PROVE  cleaner'[p] = cleaner[p] \/ cleaner'[p] = NotRunning \/ Acquire(p)
    BY <2>5 DEF Acquire, ReportStep, GetConnections, StoreReport, ReportRaises, Crash, Usage, TypeOK
  <2>6. CASE Tick
    BY <2>1, <2>6 DEF Tick
  <2>7. \/ cleaner'[p] = cleaner[p] \/ CleanerStep(p) \/ CleanerRaises(p) \/ ShutDown(p)
        \/ cleaner'[p] = NotRunning \/ Acquire(p)
    BY <2>4, <2>5, <2>6 DEF Next
  <2> QED
    BY <2>1, <2>2, <2>3, <2>7 DEF NotRunning, Acquire
<1> QED
  BY <1>1, CleanupAlways, PTL DEF Spec, CleanerGoesOn

----------------------------------------------------------------------------
(* The pool and the reports *)

\* What is in the pool is the last report, and a report of late is there.
Matches(m) ==
  \A s \in Sid :
    /\ pool[m][s] # Never => pool[m][s] = reported[m][s]
    /\ reported[m][s] # Never /\ now - reported[m][s] <= TIMEOUT_DURATION =>
         pool[m][s] = reported[m][s]

\* Who is about to write an entry has in hand what is there.
ViewsHold(m) ==
  \A p \in Process :
    /\ Sweeps(p, m) => cleaner[p].view[m] = pool[m]
    /\ Reports(p, m) /\ report[p].pc = "write" => report[p].connections = pool[m]

\* What a sweep has left had not expired.
Swept(p, m) == cleaner[p].pc \in {"sweep", "sleep"} /\ m \notin cleaner[p].todo
Unexpired_(p, m) ==
  \A s \in Sid : pool[m][s] # Never => cleaner[p].at - pool[m][s] <= TIMEOUT_DURATION
SweepsClean(m) == \A p \in Process : Swept(p, m) => Unexpired_(p, m)

Clear(m) == Matches(m) /\ ViewsHold(m) /\ SweepsClean(m)

\* The cleaner and the handler of a process take turns, and a report that is
\* under way is younger than the last renewal of its own process.
OrderInv ==
  \A p \in Process :
    /\ Occupied(p) \/ cleaner[p].pc = "off" => report[p] = NoReport
    /\ cleaner[p].at <= now
    /\ report[p] # NoReport /\ Cleaning(p) => report[p].at >= cleaner[p].at
    /\ cleaner[p].pc = "sleep" => cleaner[p].todo = {}

PoolInv == TypeOK /\ OrderInv /\ \A m \in Model \ overlapped : Clear(m)

LEMMA Numbers ==
  ASSUME TypeOK
  PROVE  /\ now \in Int /\ TIMEOUT_DURATION \in Int
         /\ \A p \in Process : cleaner[p].at \in Int /\ cleaner[p].at >= 0
         /\ \A m \in Model, s \in Sid : pool[m][s] \in Int /\ reported[m][s] \in Int
         /\ \A p \in Process : report[p] # NoReport => report[p].at \in Int /\ report[p].at >= 0
<1>1. Time \subseteq Int /\ Never \in Int /\ \A i \in Time : i >= 0
  BY ConstantsAssumption DEF Time, Never
<1>2. \A p \in Process : cleaner[p].at \in Time
  BY DEF TypeOK, Cleaner
<1>3. \A m \in Model, s \in Sid : /\ pool[m][s] \in Time \cup {Never}
                                  /\ reported[m][s] \in Time \cup {Never}
  BY DEF TypeOK, Connections
<1>4. \A p \in Process : report[p] # NoReport => report[p].at \in Time
  BY UnderWay DEF Reporting
<1>5. \A m \in Model, s \in Sid : pool[m][s] \in Int /\ reported[m][s] \in Int
  BY <1>1, <1>3
<1>6. now \in Int /\ TIMEOUT_DURATION \in Int
  BY <1>1, ConstantsAssumption DEF TypeOK
<1> QED
  BY <1>1, <1>2, <1>4, <1>5, <1>6

LEMMA OrderNext == TypeOK /\ OrderInv /\ [Next]_vars => OrderInv'
<1> SUFFICES ASSUME TypeOK, OrderInv, [Next]_vars PROVE OrderInv'
  OBVIOUS
<1>1. now \in Int /\ 0 <= now /\ \A p \in Process : cleaner[p].at \in Int
  BY Numbers, ConstantsAssumption DEF TypeOK, Time
\* A cleaner moves.
<1>2. ASSUME NEW p \in Process, NEW c \in Cleaner, cleaner' = [cleaner EXCEPT ![p] = c],
             now' = now, \A q \in Process \ {p} : report'[q] = report[q],
             c.at <= now, report'[p] = NoReport, c.pc = "sleep" => c.todo = {}
      PROVE  OrderInv'
  <2>1. cleaner'[p] = c /\ \A q \in Process \ {p} : cleaner'[q] = cleaner[q]
    BY <1>2 DEF TypeOK
  <2> QED
    BY <1>2, <2>1 DEF OrderInv, Occupied, Cleaning
<1>3. ASSUME NEW p \in Process,
             \/ Acquire(p) \/ Renew(p) \/ ReadPool(p) \/ \E m \in Model : SweepModel(p, m)
             \/ AcquireRaises(p) \/ RenewRaises(p) \/ SweepRaises(p)
      PROVE  OrderInv'
  <2>1. report[p] = NoReport
    BY <1>3, AcquireMoves, RenewMoves, ReadPoolMoves, SweepMoves, SweepRaisesMoves
       DEF OrderInv, Occupied
  <2>2. CASE Acquire(p) \/ AcquireRaises(p) \/ Renew(p) \/ RenewRaises(p)
    <3>1. PICK c \in Cleaner : /\ cleaner' = [cleaner EXCEPT ![p] = c]
                               /\ UNCHANGED <<now, report>> /\ c.pc # "sleep"
                               /\ c.at = now \/ c.at = cleaner[p].at
      BY <2>2, AcquireMoves, RenewMoves
    <3>2. c.at <= now
      BY <1>1, <3>1 DEF OrderInv
    <3> QED
      BY <1>2, <2>1, <3>1, <3>2
  <2>3. CASE ReadPool(p)
    <3>1. PICK c \in Cleaner : /\ cleaner' = [cleaner EXCEPT ![p] = c]
                               /\ UNCHANGED <<now, report>> /\ c.at = cleaner[p].at
                               /\ c.pc = "sleep" => c.todo = {}
      BY <2>3, ReadPoolMoves
    <3> QED
      BY <1>2, <2>1, <3>1 DEF OrderInv
  <2>4. ASSUME NEW m \in Model, SweepModel(p, m) PROVE OrderInv'
    <3>1. PICK c \in Cleaner : /\ cleaner' = [cleaner EXCEPT ![p] = c]
                               /\ UNCHANGED <<now, report>> /\ c.at = cleaner[p].at
                               /\ c.pc = "sleep" => c.todo = {}
      BY <2>4, SweepMoves
    <3> QED
      BY <1>2, <2>1, <3>1 DEF OrderInv
  <2>5. CASE SweepRaises(p)
    <3>1. PICK c \in Cleaner : /\ cleaner' = [cleaner EXCEPT ![p] = c]
                               /\ UNCHANGED <<now, report>> /\ c.at = cleaner[p].at
                               /\ c.pc = "release"
      BY <2>5, SweepRaisesMoves
    <3> QED
      BY <1>2, <2>1, <3>1 DEF OrderInv
  <2> QED
    BY <1>3, <2>2, <2>3, <2>4, <2>5
<1>4. ASSUME NEW p \in Process,
             ShutDown(p) \/ GetOwner(p) \/ DropLock(p) \/ ReleaseRaises(p) \/ Crash(p)
      PROVE  OrderInv'
  <2>1. PICK c \in Cleaner : /\ cleaner' = [cleaner EXCEPT ![p] = c] /\ now' = now
                             /\ c.at \in {0, cleaner[p].at} /\ c.pc # "sleep"
                             /\ \/ report' = report /\ report[p] = NoReport
                                \/ report' = report /\ cleaner[p].pc \in {"release", "drop"}
                                \/ report' = [report EXCEPT ![p] = NoReport]
    BY <1>4, GivingUpMoves, LeavingMoves
  <2>2. /\ report'[p] = NoReport /\ \A q \in Process \ {p} : report'[q] = report[q]
    BY <2>1 DEF OrderInv, Occupied, TypeOK
  <2> QED
    BY <1>1, <1>2, <2>1, <2>2 DEF OrderInv
\* A handler moves, and no cleaner does.
<1>5. ASSUME NEW p \in Process, NEW r, report' = [report EXCEPT ![p] = r],
             UNCHANGED <<now, cleaner>>,
             \/ r = NoReport
             \/ ~ Occupied(p) /\ cleaner[p].pc # "off" /\ r.at = now
             \/ report[p] # NoReport /\ r.at = report[p].at
      PROVE  OrderInv'
  <2>1. report'[p] = r /\ \A q \in Process \ {p} : report'[q] = report[q]
    BY <1>5 DEF TypeOK
  <2> QED
    BY <1>1, <1>5, <2>1 DEF OrderInv, Occupied, Cleaning
<1>6. ASSUME NEW p \in Process, ReportStep(p) \/ \E s \in Sid, m \in Model : Usage(p, s, m)
      PROVE  OrderInv'
  <2>1. CASE StoreReport(p)
    BY <1>5, <2>1, StoreMoves
  <2>2. CASE GetConnections(p) \/ ReportRaises(p)
    <3>1. PICK r \in Report : /\ report' = [report EXCEPT ![p] = r] /\ report[p] # NoReport
                              /\ UNCHANGED <<now, cleaner>>
                              /\ r = NoReport \/ r.at = report[p].at
      BY <2>2, GetMoves
    <3> QED
      BY <1>5, <3>1
  <2>3. CASE \E s \in Sid, m \in Model : Usage(p, s, m)
    <3>1. PICK r \in Report : /\ report' = [report EXCEPT ![p] = r] /\ r.at = now
                              /\ UNCHANGED <<now, cleaner>>
                              /\ ~ Occupied(p) /\ cleaner[p].pc # "off"
      BY <2>3, UsageMoves
    <3> QED
      BY <1>5, <3>1
  <2> QED
    BY <1>6, <2>1, <2>2, <2>3 DEF ReportStep
<1>7. CASE Tick
  BY <1>1, <1>7 DEF Tick, OrderInv, Occupied, Cleaning
<1>8. CASE UNCHANGED vars
  BY <1>8 DEF vars, OrderInv, Occupied, Cleaning
<1> QED
  BY <1>3, <1>4, <1>6, <1>7, <1>8 DEF Next, CleanerStep, CleanerRaises

\* Once an entry is settled, all is clear again.
LEMMA SettledClear ==
  ASSUME TypeOK, OrderInv, NEW m \in Model, Settled(m)
  PROVE  Clear(m)
<1>1. Matches(m)
  BY Numbers DEF Settled, Matches
<1>2. ViewsHold(m)
  BY DEF Settled, ViewsHold
<1>3. SweepsClean(m)
  BY Numbers DEF Settled, SweepsClean, Unexpired_, OrderInv
<1> QED
  BY <1>1, <1>2, <1>3 DEF Clear

LEMMA SettledIsClear == TypeOK /\ OrderInv => \A m \in Model : Settled(m) => Clear(m)
BY SettledClear

LEMMA SettledClearNext == (TypeOK /\ OrderInv => \A m \in Model : Settled(m) => Clear(m))'
BY SettledIsClear, PTL

\* The pool entry stays, and so do most of the hands.
LEMMA EntryStays ==
  ASSUME TypeOK, NEW m \in Model, Clear(m), UNCHANGED now,
         pool'[m] = pool[m], reported'[m] = reported[m],
         \A q \in Process :
           /\ Sweeps(q, m)' => cleaner'[q].view[m] = pool[m]
           /\ Reports(q, m)' /\ report'[q].pc = "write" => report'[q].connections = pool[m]
           /\ Swept(q, m)' => \/ pool[m] = Empty
                              \/ Swept(q, m) /\ cleaner'[q].at = cleaner[q].at
  PROVE  Clear(m)'
<1>1. Matches(m)' /\ ViewsHold(m)'
  BY DEF Clear, Matches, ViewsHold
<1>2. SweepsClean(m)'
  BY DEF Clear, SweepsClean, Unexpired_, Empty
<1> QED
  BY <1>1, <1>2 DEF Clear

\* A cleaner moves, and leaves the entry as it is.
LEMMA CleanerStays ==
  ASSUME TypeOK, NEW m \in Model, Clear(m), UNCHANGED <<now, reported>>,
         NEW p \in Process, NEW c \in Cleaner, cleaner' = [cleaner EXCEPT ![p] = c],
         pool'[m] = pool[m], report' = report \/ report' = [report EXCEPT ![p] = NoReport],
         c.pc = "sweep" /\ m \in c.todo => c.view[m] = pool[m],
         c.pc \in {"sweep", "sleep"} /\ m \notin c.todo =>
           pool[m] = Empty \/ (Swept(p, m) /\ c.at = cleaner[p].at)
  PROVE  Clear(m)'
<1>1. cleaner'[p] = c /\ \A q \in Process \ {p} : cleaner'[q] = cleaner[q]
  BY DEF TypeOK
<1>2. \A q \in Process : report'[q] = report[q] \/ report'[q] = NoReport
  BY DEF TypeOK
<1>3. \A q \in Process :
        /\ Sweeps(q, m)' => cleaner'[q].view[m] = pool[m]
        /\ Swept(q, m)' => \/ pool[m] = Empty
                           \/ Swept(q, m) /\ cleaner'[q].at = cleaner[q].at
  BY <1>1 DEF Clear, ViewsHold, Sweeps, Swept
<1>4. \A q \in Process :
        Reports(q, m)' /\ report'[q].pc = "write" => report'[q].connections = pool[m]
  BY <1>2 DEF Clear, ViewsHold, Reports
<1> QED
  BY <1>3, <1>4, EntryStays

LEMMA CleanerClear ==
  ASSUME TypeOK, NEW m \in Model, Clear(m), NEW p \in Process,
         \/ Acquire(p) \/ Renew(p) \/ ReadPool(p) \/ ShutDown(p)
         \/ GetOwner(p) \/ DropLock(p) \/ Crash(p)
         \/ AcquireRaises(p) \/ RenewRaises(p) \/ ReleaseRaises(p)
  PROVE  Clear(m)'
<1>1. PICK c \in Cleaner :
        /\ cleaner' = [cleaner EXCEPT ![p] = c] /\ UNCHANGED <<now, pool, reported>>
        /\ report' = report \/ report' = [report EXCEPT ![p] = NoReport]
        /\ \/ c.pc \notin {"sweep", "sleep"}
           \/ /\ c.todo = {n \in Model : Present(n)}
              /\ c.pc = "sweep" => c.view = pool
  BY AcquireMoves, RenewMoves, ReadPoolMoves, GivingUpMoves, LeavingMoves
<1>2. /\ c.pc = "sweep" /\ m \in c.todo => c.view[m] = pool[m]
      /\ c.pc \in {"sweep", "sleep"} /\ m \notin c.todo => pool[m] = Empty
  BY <1>1 DEF Present
<1> QED
  BY <1>1, <1>2, CleanerStays

\* Nobody else has the entry in hand when a process changes it.
LEMMA AloneAtEntry ==
  ASSUME NEW m \in Model, NEW p \in Process, Sweeps(p, m) \/ Reports(p, m),
         pool'[m] # pool[m], ~ (Writes(p, m) /\ Clash(p, m))
  PROVE  \A q \in Process \ {p} :
           /\ ~ Sweeps(q, m) /\ ~ Reports(q, m)
           /\ Reports(p, m) /\ Cleaning(q) => ~ report[p].at < cleaner[q].at
BY DEF Writes, Clash

LEMMA SweepClear ==
  ASSUME TypeOK, OrderInv, NEW m \in Model, Clear(m), NEW p \in Process, NEW n \in Model,
         NEW c \in Cleaner, cleaner' = [cleaner EXCEPT ![p] = c],
         cleaner[p].pc = "sweep", n \in cleaner[p].todo, c.at = cleaner[p].at,
         UNCHANGED <<now, lock, reported, report>>,
         pool' = [pool EXCEPT ![n] = Unexpired(cleaner[p].view[n], cleaner[p].at)],
         \/ c.pc = "release"
         \/ /\ c.todo = cleaner[p].todo \ {n}
            /\ \/ c.pc = "sweep" /\ c.view = cleaner[p].view
               \/ c.pc = "sleep" /\ c.todo = {},
         ~ (Writes(p, m) /\ Clash(p, m))
  PROVE  Clear(m)'
<1>1. CASE n # m
  <2>1. pool'[m] = pool[m]
    BY <1>1 DEF TypeOK
  <2>2. c.pc = "sweep" /\ m \in c.todo => c.view[m] = pool[m]
    BY <1>1 DEF Clear, ViewsHold, Sweeps
  <2>3. c.pc # "release" /\ m \notin c.todo => Swept(p, m)
    BY <1>1 DEF Swept
  <2> QED
    BY <2>1, <2>2, <2>3, CleanerStays
<1>2. CASE n = m
  <2> DEFINE at == cleaner[p].at
  <2>1. Sweeps(p, m) /\ cleaner[p].view[m] = pool[m]
    BY <1>2 DEF Clear, ViewsHold, Sweeps
  <2>2. \A s \in Sid :
          pool'[m][s] = IF at - pool[m][s] > TIMEOUT_DURATION THEN Never ELSE pool[m][s]
    BY <1>2, <2>1 DEF Unexpired, TypeOK
  <2>3. at <= now /\ at \in Int /\ now \in Int
    BY Numbers DEF OrderInv
  <2>4. Matches(m)'
    BY <2>2, <2>3, Numbers DEF Clear, Matches
  <2>5. cleaner'[p] = c /\ (c.pc = "release" \/ m \notin c.todo) /\ \A q \in Process \ {p} : cleaner'[q] = cleaner[q]
    BY <1>2 DEF TypeOK
  <2>6. ViewsHold(m)'
    <3>1. ~ Sweeps(p, m)' /\ ~ Reports(p, m)'
      BY <2>5 DEF Sweeps, Reports, OrderInv, Occupied
    <3>2. CASE pool'[m] # pool[m]
      BY <2>1, <2>5, <3>1, <3>2, AloneAtEntry DEF ViewsHold, Sweeps, Reports
    <3>3. CASE pool'[m] = pool[m]
      BY <2>5, <3>1, <3>3 DEF Clear, ViewsHold, Sweeps, Reports
    <3> QED
      BY <3>2, <3>3
  <2>7. SweepsClean(m)'
    <3> SUFFICES ASSUME NEW q \in Process, Swept(q, m)', NEW s \in Sid, pool'[m][s] # Never
                 PROVE  cleaner'[q].at - pool'[m][s] <= TIMEOUT_DURATION
      BY DEF SweepsClean, Unexpired_
    <3>1. pool'[m][s] = pool[m][s] /\ ~ (at - pool[m][s] > TIMEOUT_DURATION)
      BY <2>2
    <3>2. CASE q = p
      BY <2>3, <2>5, <3>1, <3>2, Numbers
    <3>3. CASE q # p
      BY <2>5, <3>1, <3>3 DEF Clear, SweepsClean, Unexpired_, Swept
    <3> QED
      BY <3>2, <3>3
  <2> QED
    BY <2>4, <2>6, <2>7 DEF Clear
<1> QED
  BY <1>1, <1>2

LEMMA SweepStepClear ==
  ASSUME TypeOK, OrderInv, NEW m \in Model, Clear(m), NEW p \in Process,
         SweepRaises(p) \/ \E n \in Model : SweepModel(p, n), ~ (Writes(p, m) /\ Clash(p, m))
  PROVE  Clear(m)'
<1>1. \E c \in Cleaner :
        /\ cleaner' = [cleaner EXCEPT ![p] = c] /\ c.at = cleaner[p].at
        /\ UNCHANGED <<now, lock, reported, report>>
        /\ \/ c.pc = "release" /\ pool' = pool
           \/ \E n \in cleaner[p].todo :
                /\ cleaner[p].pc = "sweep"
                /\ pool' = [pool EXCEPT ![n] = Unexpired(cleaner[p].view[n], cleaner[p].at)]
                /\ \/ c.pc = "release"
                   \/ /\ c.todo = cleaner[p].todo \ {n}
                      /\ \/ c.pc = "sweep" /\ c.view = cleaner[p].view
                         \/ c.pc = "sleep" /\ c.todo = {}
  BY SweepMoves, SweepRaisesMoves
<1>2. cleaner[p].todo \subseteq Model
  BY DEF TypeOK, Cleaner
<1>3. PICK c \in Cleaner :
        /\ cleaner' = [cleaner EXCEPT ![p] = c] /\ c.at = cleaner[p].at
        /\ UNCHANGED <<now, lock, reported, report>>
        /\ \/ c.pc = "release" /\ pool' = pool
           \/ \E n \in Model :
                /\ cleaner[p].pc = "sweep" /\ n \in cleaner[p].todo
                /\ pool' = [pool EXCEPT ![n] = Unexpired(cleaner[p].view[n], cleaner[p].at)]
                /\ \/ c.pc = "release"
                   \/ /\ c.todo = cleaner[p].todo \ {n}
                      /\ \/ c.pc = "sweep" /\ c.view = cleaner[p].view
                         \/ c.pc = "sleep" /\ c.todo = {}
  BY <1>1, <1>2
<1>4. CASE c.pc = "release" /\ pool' = pool
  BY <1>3, <1>4, CleanerStays
<1> QED
  BY <1>3, <1>4, SweepClear

\* A handler asks, or reads, or gives up.
LEMMA AskClear ==
  ASSUME TypeOK, NEW m \in Model, Clear(m), NEW p \in Process,
         GetConnections(p) \/ ReportRaises(p) \/ \E s \in Sid, n \in Model : Usage(p, s, n)
  PROVE  Clear(m)'
<1>1. PICK r \in Report :
        /\ report' = [report EXCEPT ![p] = r] /\ UNCHANGED <<now, pool, reported, cleaner>>
        /\ r # NoReport /\ r.pc = "write" => r.connections = pool[r.model]
  BY UsageMoves, GetMoves DEF Present
<1>2. report'[p] = r /\ \A q \in Process \ {p} : report'[q] = report[q]
  BY <1>1 DEF TypeOK
<1>3. \A q \in Process :
        Reports(q, m)' /\ report'[q].pc = "write" => report'[q].connections = pool[m]
  BY <1>1, <1>2 DEF Clear, ViewsHold, Reports
<1>4. \A q \in Process :
        /\ Sweeps(q, m)' => cleaner'[q].view[m] = pool[m]
        /\ Swept(q, m)' => Swept(q, m) /\ cleaner'[q].at = cleaner[q].at
  BY <1>1 DEF Clear, ViewsHold, Sweeps, Swept
<1> QED
  BY <1>1, <1>3, <1>4, EntryStays

LEMMA StoreClear ==
  ASSUME TypeOK, OrderInv, NEW m \in Model, Clear(m), NEW p \in Process,
         StoreReport(p), ~ (Writes(p, m) /\ Clash(p, m))
  PROVE  Clear(m)'
<1> DEFINE r == report[p]
<1>1. /\ Reporting(r) /\ r.pc = "write" /\ r # NoReport
      /\ report' = [report EXCEPT ![p] = NoReport] /\ UNCHANGED <<now, lock, cleaner>>
      /\ pool' = [pool EXCEPT ![r.model] = [r.connections EXCEPT ![r.sid] = r.at]]
      /\ reported' = [reported EXCEPT ![r.model] = [reported[r.model] EXCEPT ![r.sid] = r.at]]
  BY StoreMoves
<1> DEFINE n == r.model
           at == r.at
           sid == r.sid
<1>2. /\ n \in Model /\ sid \in Sid /\ at \in Int
  BY <1>1, Numbers DEF Reporting
<1>3. report'[p] = NoReport /\ \A q \in Process \ {p} : report'[q] = report[q]
  BY <1>1 DEF TypeOK
<1>4. CASE n # m
  <2>1. pool'[m] = pool[m] /\ reported'[m] = reported[m]
    BY <1>1, <1>2, <1>4 DEF TypeOK
  <2>2. \A q \in Process :
          /\ Sweeps(q, m)' => cleaner'[q].view[m] = pool[m]
          /\ Reports(q, m)' /\ report'[q].pc = "write" => report'[q].connections = pool[m]
          /\ Swept(q, m)' => Swept(q, m) /\ cleaner'[q].at = cleaner[q].at
    BY <1>1, <1>3 DEF Clear, ViewsHold, Sweeps, Reports, Swept
  <2> QED
    BY <1>1, <2>1, <2>2, EntryStays
<1>5. CASE n = m
  <2>1. Reports(p, m) /\ r.connections = pool[m]
    BY <1>1, <1>5 DEF Reports, Clear, ViewsHold
  <2>2. \A s \in Sid : /\ pool'[m][s] = IF s = sid THEN at ELSE pool[m][s]
                       /\ reported'[m][s] = IF s = sid THEN at ELSE reported[m][s]
    BY <1>1, <1>2, <1>5, <2>1 DEF TypeOK, Connections
  <2>3. Matches(m)'
    BY <1>1, <2>2 DEF Clear, Matches
  <2>4. ~ Reports(p, m)' /\ ~ Sweeps(p, m)
    BY <1>1, <1>3 DEF Reports, Sweeps, OrderInv, Occupied
  <2>5. CASE pool'[m] = pool[m]
    <3>1. ViewsHold(m)'
      BY <1>1, <1>3, <2>4, <2>5 DEF Clear, ViewsHold, Sweeps, Reports
    <3>2. SweepsClean(m)'
      BY <1>1, <2>5 DEF Clear, SweepsClean, Unexpired_, Swept
    <3> QED
      BY <2>3, <3>1, <3>2 DEF Clear
  <2>6. CASE pool'[m] # pool[m]
    <3>1. \A q \in Process \ {p} :
            /\ ~ Sweeps(q, m) /\ ~ Reports(q, m)
            /\ Cleaning(q) => ~ at < cleaner[q].at
      BY <2>1, <2>6, AloneAtEntry
    <3>2. ViewsHold(m)'
      BY <1>1, <1>3, <2>4, <3>1 DEF ViewsHold, Sweeps, Reports
    <3>3. SweepsClean(m)'
      <4> SUFFICES ASSUME NEW q \in Process, Swept(q, m), NEW s \in Sid, pool'[m][s] # Never
                   PROVE  cleaner[q].at - pool'[m][s] <= TIMEOUT_DURATION
        BY <1>1 DEF SweepsClean, Unexpired_, Swept
      <4>1. Cleaning(q)
        BY DEF Swept, Cleaning
      <4>2. at >= cleaner[q].at
        <5>1. CASE q = p
          BY <1>1, <4>1, <5>1 DEF OrderInv
        <5>2. CASE q # p
          BY <1>2, <3>1, <4>1, <5>2, Numbers
        <5> QED
          BY <5>1, <5>2
      <4>3. CASE s = sid
        BY <1>2, <2>2, <4>2, <4>3, Numbers, ConstantsAssumption
      <4>4. CASE s # sid
        BY <2>2, <4>4 DEF Clear, SweepsClean, Unexpired_
      <4> QED
        BY <4>3, <4>4
    <3> QED
      BY <2>3, <3>2, <3>3 DEF Clear
  <2> QED
    BY <2>5, <2>6
<1> QED
  BY <1>4, <1>5

LEMMA ClearNext ==
  ASSUME TypeOK, OrderInv, NEW m \in Model, Clear(m), [Next]_vars,
         \A p \in Process : ~ (Writes(p, m) /\ Clash(p, m))
  PROVE  Clear(m)'
<1>1. CASE Tick
  <2>1. now' = now + 1 /\ now \in Int /\ UNCHANGED <<pool, reported, cleaner, report>>
    BY <1>1, Numbers DEF Tick
  <2>2. Matches(m)'
    BY <2>1, Numbers DEF Clear, Matches
  <2>3. ViewsHold(m)' /\ SweepsClean(m)'
    BY <2>1 DEF Clear, ViewsHold, SweepsClean, Unexpired_, Sweeps, Reports, Swept
  <2> QED
    BY <2>2, <2>3 DEF Clear
<1>2. CASE UNCHANGED vars
  BY <1>2 DEF vars, Clear, Matches, ViewsHold, SweepsClean, Unexpired_, Sweeps, Reports, Swept
<1>3. CASE Next
  BY <1>1, <1>3, CleanerClear, SweepStepClear, AskClear, StoreClear
     DEF Next, CleanerStep, CleanerRaises, ReportStep
<1> QED
  BY <1>2, <1>3

LEMMA PoolNext == PoolInv /\ [Next /\ Overlap]_<<vars, overlapped>> => PoolInv'
<1> SUFFICES ASSUME PoolInv, [Next /\ Overlap]_<<vars, overlapped>> PROVE PoolInv'
  OBVIOUS
<1>1. [Next]_vars
  BY DEF vars
<1>2. TypeOK' /\ OrderInv'
  BY <1>1, TypeNext, OrderNext DEF PoolInv
<1>3. ASSUME NEW m \in Model, m \notin overlapped' PROVE Clear(m)'
  <2>1. CASE Next /\ Overlap
    <3>1. \/ Settled(m)'
          \/ m \notin overlapped /\ \A p \in Process : ~ (Writes(p, m) /\ Clash(p, m))
      BY <1>3, <2>1 DEF Overlap
    <3>2. CASE Settled(m)'
      BY <1>2, <3>2, SettledClearNext
    <3>3. CASE m \notin overlapped /\ \A p \in Process : ~ (Writes(p, m) /\ Clash(p, m))
      BY <1>1, <3>3, ClearNext DEF PoolInv
    <3> QED
      BY <3>1, <3>2, <3>3
  <2>2. CASE UNCHANGED <<vars, overlapped>>
    BY <1>3, <2>2 DEF PoolInv, vars, Clear, Matches, ViewsHold, SweepsClean, Unexpired_,
       Sweeps, Reports, Swept
  <2> QED
    BY <2>1, <2>2
<1> QED
  BY <1>2, <1>3 DEF PoolInv

\* The pool has what sessions have reported of late and, while a cleaner sleeps,
\* nothing that had expired when it swept; for any processes, models, sessions
\* and timeouts, crashes and lost locks included, of the models whose entry no
\* two processes have written at the same time.
THEOREM PoolHasTheReports == SpecO => []PoolMatchesReports
<1>1. InitO => PoolInv
  <2> SUFFICES ASSUME InitO PROVE PoolInv
    OBVIOUS
  <2>1. TypeOK
    BY TypeInit DEF InitO
  <2>2. OrderInv
    BY ConstantsAssumption DEF InitO, Init, OrderInv, Occupied, Cleaning, NotRunning, NoReport
  <2>3. \A m \in Model : Clear(m)
    BY DEF InitO, Init, Clear, Matches, ViewsHold, SweepsClean, Unexpired_, Sweeps, Reports,
       Swept, NotRunning, NoReport, Empty
  <2> QED
    BY <2>1, <2>2, <2>3 DEF PoolInv
<1>2. PoolInv => PoolMatchesReports
  <2> SUFFICES ASSUME PoolInv, NEW m \in Model \ overlapped PROVE
        /\ \A s \in Sid : reported[m][s] # Never /\ now - reported[m][s] <= TIMEOUT_DURATION
                            => Present(m)
        /\ \A p \in Process : cleaner[p].pc = "sleep" =>
             \A s \in Sid : pool[m][s] # Never => cleaner[p].at - pool[m][s] <= TIMEOUT_DURATION
    BY DEF PoolMatchesReports, ReportedModelListed, SweptWhileAsleep
  <2>1. Clear(m)
    BY DEF PoolInv
  <2>2. \A p \in Process : cleaner[p].pc = "sleep" => Swept(p, m)
    BY DEF PoolInv, OrderInv, Swept
  <2> QED
    BY <2>1, <2>2 DEF Clear, Matches, SweepsClean, Unexpired_, Present, Empty
<1> QED
  BY <1>1, <1>2, PoolNext, PTL DEF SpecO

=============================================================================
