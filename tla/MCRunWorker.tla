---------------------------- MODULE MCRunWorker ----------------------------
(* Small instances of RunWorker: threads that may be delayed at will, and
   threads and a database that keep up with the clock, as liveness needs. *)
EXTENDS RunWorker, TLC

VARIABLE pace   \* which of the two this behaviour is of

Punctual == INSTANCE RunWorker WITH
  Timely <- TRUE, ForeignKeys <- TRUE, MaxNow <- 12, ExecLimit <- 2,
  LastSubmit <- 1

mcVars == <<vars, pace>>

MCInit == Init /\ pace \in {"any", "punctual"}

MCNext ==
  \/ pace = "any" /\ Next /\ UNCHANGED pace
  \/ pace = "punctual" /\ Punctual!Next /\ UNCHANGED pace

MCSpec ==
  /\ MCInit /\ [][MCNext]_mcVars
  /\ pace = "punctual" => Punctual!Fairness

\* HeartbeatKeepsLease, of _LeaseHeartbeat: a punctual worker that meets no
\* fault keeps its lease through an execution as long as the lease.
PunctualHeartbeatKeepsLease ==
  pace = "punctual" /\ faults = 0 => Punctual!HeartbeatKeepsLease

\* EveryJobEnds, of the queue and its workers: whatever faults happen, punctual
\* workers bring every job to an end.
PunctualJobsEnd == pace = "punctual" => EveryJobEnds

=============================================================================
