---------------------------- MODULE UsageOverlaps ----------------------------
(***************************************************************************)
(* The pool of models in use when the processes overlap in it. The sweep   *)
(* and the handler of a report both write back what they have read, and    *)
(* nothing keeps two processes from doing so at the same time. A history   *)
(* variable holds the models whose entry such an overlap has put in doubt, *)
(* until it is again what the reports say.                                 *)
(***************************************************************************)
EXTENDS UsageCleanup

VARIABLE overlapped

Sweeps(p, m) == cleaner[p].pc = "sweep" /\ m \in cleaner[p].todo
Reports(p, m) == report[p] # NoReport /\ report[p].model = m

\* p writes the entry of m while another process is about to, or what it was
\* told before the last sweep of another.
Writes(p, m) == pool'[m] # pool[m] /\ (Sweeps(p, m) \/ Reports(p, m))
Clash(p, m) ==
  \E q \in Process \ {p} :
    Sweeps(q, m) \/ Reports(q, m) \/ (Reports(p, m) /\ Cleaning(q) /\ report[p].at < cleaner[q].at)

\* The reports that have not expired are in the pool, no other is, and no
\* process is about to write.
Settled(m) ==
  /\ \A s \in Sid : pool[m][s] = IF now - reported[m][s] <= TIMEOUT_DURATION THEN reported[m][s] ELSE Never
  /\ \A p \in Process : ~ Sweeps(p, m) /\ ~ Reports(p, m)

Overlap ==
  overlapped' =
    {m \in Model :
      \/ m \in overlapped /\ ~ Settled(m)'
      \/ \E p \in Process : Writes(p, m) /\ Clash(p, m)}

InitO == Init /\ overlapped = {}
SpecO == InitO /\ [][Next /\ Overlap]_<<vars, overlapped>>

----------------------------------------------------------------------------

\* A model that a session has reported within the last TIMEOUT_DURATION is in
\* the list of models in use, unless writes of two processes have overlapped.
ReportedModelListed ==
  \A m \in Model \ overlapped, s \in Sid :
    reported[m][s] # Never /\ now - reported[m][s] <= TIMEOUT_DURATION => Present(m)

\* While the cleaner sleeps, no report is left that had expired when it swept,
\* unless writes have overlapped.
SweptWhileAsleep ==
  \A p \in Process : cleaner[p].pc = "sleep" =>
    \A m \in Model \ overlapped, s \in Sid :
      pool[m][s] # Never => cleaner[p].at - pool[m][s] <= TIMEOUT_DURATION

\* The pool has what sessions have reported of late, and nothing else.
PoolMatchesReports == ReportedModelListed /\ SweptWhileAsleep
=============================================================================
