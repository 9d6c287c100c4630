----------------------------- MODULE RunWorker -----------------------------
(***************************************************************************)
(* RunJobWorker.run_one and its _LeaseHeartbeat thread, several workers of *)
(* several application processes on one RunJobQueue.  The worker thread    *)
(* and the heartbeat thread read the clock, then call the database: the    *)
(* reading and the transaction are two steps, and anything may happen in   *)
(* between.                                                                *)
(*                                                                         *)
(* Faults (at most MaxFaults in a behaviour) are what the code handles: a  *)
(* transaction that fails and is rolled back, one that commits but whose   *)
(* answer is lost, a heartbeat that outlasts the join timeout, and the     *)
(* death of a process (the next one takes its place).                      *)
(***************************************************************************)
EXTENDS RunJobQueue

CONSTANTS
  HeartbeatInterval,   \* RunJobWorker.heartbeat_interval_seconds
  NoLease,             \* a worker between two jobs
  ExecLimit,           \* Timely only: the longest harness execution
  Timely,              \* whether threads and the database keep up with the clock
  MaxFaults,           \* bound on faults
  LastSubmit           \* bound: no run is submitted after this time

ASSUME WorkerAssumption ==
  /\ HeartbeatInterval \in Nat \ {0}
  /\ 2 * HeartbeatInterval <= LeaseSeconds   \* RunJobWorker.__post_init__
  /\ NoLease \notin Lease
  /\ ExecLimit \in Nat
  /\ Timely \in BOOLEAN
  /\ MaxFaults \in Nat
  /\ LastSubmit \in Nat

VARIABLES
  task,      \* task[w]: the worker thread: where run_one stands
  beat,      \* beat[w]: the heartbeat thread of the current lease
  zombies,   \* heartbeats in flight that outlived _LeaseHeartbeat.stop
  faults     \* how many faults have happened

workerVars == <<task, beat, zombies, faults>>
vars == <<queueVars, workerVars>>

-----------------------------------------------------------------------------
(* State of a worker *)

\* The transactions a worker waits for, each entered with a clock reading.
Calling == {"claim", "missing", "commit", "retry"}

\* at is the clock reading of the call under way or, while the harness
\* executes, the time the execution started or, between two jobs, the time of
\* the next poll; verdict is how the execution ended.
Task ==
  [pc : {"idle", "get", "execute", "join"} \cup Calling,
   lease : Lease \cup {NoLease},
   at : Nat,
   verdict : {"none", "completed"} \cup FailureAliases]

\* at is the clock reading of the heartbeat being sent or, between two
\* heartbeats, the time the wait started.
Beat ==
  [state : {"off", "waiting", "sending"}, at : Nat, lost : BOOLEAN]

IdleTask == [pc |-> "idle", lease |-> NoLease, at |-> 0, verdict |-> "none"]
NoBeat == [state |-> "off", at |-> 0, lost |-> FALSE]

\* run_one returns and the supervisor calls it again at once.
EndRunOne(w) ==
  /\ task' = [task EXCEPT ![w] = IdleTask]
  /\ beat' = [beat EXCEPT ![w] = NoBeat]

\* run_one raises or returns "idle" or "lease_lost": the supervisor waits
\* before it polls again.  The length of the wait matters only in a system that
\* keeps up with its clock, where it is one tick.
EndAndWait(w) ==
  /\ task' = [task EXCEPT ![w] =
                [IdleTask EXCEPT !.at = IF Timely THEN now + 1 ELSE 0]]
  /\ beat' = [beat EXCEPT ![w] = NoBeat]

Fault ==
  /\ faults < MaxFaults
  /\ faults' = faults + 1

\* A transaction's answer reaches the caller, or is lost after the commit; the
\* caller then sees an error.
AnswerLost == Fault /\ UNCHANGED zombies

HeldBy(w, r) == task[w].lease # NoLease /\ task[w].lease.run = r

\* Rows that another worker's transaction may have locked at this moment.
MayBeLocked(w) ==
  {r \in Runs :
     \/ \E v \in Workers \ {w} :
          \/ task[v].pc = "claim"
          \/ HeldBy(v, r) /\ (task[v].pc \in Calling \/ beat[v].state = "sending")
     \/ \E z \in zombies : z.lease.run = r}

-----------------------------------------------------------------------------
(* run_one *)

BeginClaim(w) ==
  /\ task[w].pc = "idle"
  /\ now >= task[w].at
  /\ task' = [task EXCEPT ![w] = [@ EXCEPT !.pc = "claim", !.at = now]]
  /\ UNCHANGED <<queueVars, beat, zombies, faults>>

\* claim returns a lease; when its answer is lost, run_one raises and nobody
\* knows of the lease.
ClaimJob(w) ==
  /\ task[w].pc = "claim"
  /\ \E r \in Runs, locked \in SUBSET MayBeLocked(w) :
       /\ Claim(w, task[w].at, r, locked)
       /\ \/ /\ task' = [task EXCEPT ![w] =
                           [@ EXCEPT !.pc = "get", !.lease = NewLease(r)]]
             /\ UNCHANGED <<beat, zombies, faults>>
          \/ EndAndWait(w) /\ AnswerLost

\* claim returns None: the outcome is "idle".
ClaimNothing(w) ==
  /\ task[w].pc = "claim"
  /\ \E locked \in SUBSET MayBeLocked(w) : ClaimNone(task[w].at, locked)
  /\ EndAndWait(w)
  /\ UNCHANGED <<zombies, faults>>

\* repository.get finds the run: the heartbeat starts and the harness executes
\* on the worker's own copy of the run.
GetRun(w) ==
  /\ task[w].pc = "get"
  /\ runs[task[w].lease.run] # NoRun
  /\ task' = [task EXCEPT ![w] = [@ EXCEPT !.pc = "execute", !.at = now]]
  /\ beat' = [beat EXCEPT ![w] = [NoBeat EXCEPT !.state = "waiting", !.at = now]]
  /\ UNCHANGED <<queueVars, zombies, faults>>

\* repository.get returns None.
GetMissing(w) ==
  /\ task[w].pc = "get"
  /\ runs[task[w].lease.run] = NoRun
  /\ task' = [task EXCEPT ![w] = [@ EXCEPT !.pc = "missing", !.at = now]]
  /\ UNCHANGED <<queueVars, beat, zombies, faults>>

\* The harness ends and heartbeat.stop sets the stop event: a waiting
\* heartbeat thread leaves at once, one that is sending is joined.
Execute(w) ==
  /\ task[w].pc = "execute"
  /\ \E v \in {"completed"} \cup FailureAliases :
       task' = [task EXCEPT ![w] = [@ EXCEPT !.pc = "join", !.verdict = v]]
  /\ beat' = [beat EXCEPT ![w].state = IF @ = "waiting" THEN "off" ELSE @]
  /\ UNCHANGED <<queueVars, zombies, faults>>

\* Faulty variant: every failure is committed, whatever the attempt.
RecordedAlways(w) == "commit"

\* A result is recorded by a fenced commit (success, or failure of the final
\* attempt), or the job is handed back for a retry.
Recorded(w) ==
  IF task[w].verdict = "completed" \/ task[w].lease.final THEN "commit" ELSE "retry"

\* Faulty variant: the heartbeat's verdict is not looked at.
JoinKeptAnyway(w) ==
  /\ task[w].pc = "join"
  /\ beat[w].state = "off"
  /\ task' = [task EXCEPT ![w] = [@ EXCEPT !.pc = Recorded(w), !.at = now]]
  /\ UNCHANGED <<queueVars, beat, zombies, faults>>

\* The heartbeat thread has ended and kept the lease.
JoinKept(w) ==
  /\ task[w].pc = "join"
  /\ beat[w].state = "off"
  /\ ~beat[w].lost
  /\ task' = [task EXCEPT ![w] = [@ EXCEPT !.pc = Recorded(w), !.at = now]]
  /\ UNCHANGED <<queueVars, beat, zombies, faults>>

\* The heartbeat lost the lease: the local result is discarded.
JoinLost(w) ==
  /\ task[w].pc = "join"
  /\ beat[w].state = "off"
  /\ beat[w].lost
  /\ EndAndWait(w)
  /\ UNCHANGED <<queueVars, zombies, faults>>

\* The heartbeat does not end within the join timeout: the lease counts as
\* lost, and the heartbeat stays in flight.
JoinTimeout(w) ==
  /\ task[w].pc = "join"
  /\ beat[w].state = "sending"
  /\ zombies' = zombies \cup
       {[worker |-> w, lease |-> task[w].lease, at |-> beat[w].at]}
  /\ EndAndWait(w)
  /\ Fault
  /\ UNCHANGED queueVars

\* The transaction a worker has called for, applied to the database.
CallApplied(w) ==
  LET lease == task[w].lease
      t == task[w].at
  IN  \/ /\ task[w].pc = "missing"
         /\ Fail(w, lease, t, "run-not-found", FALSE, 0)
      \/ /\ task[w].pc = "retry"
         /\ Fail(w, lease, t, task[w].verdict, TRUE, RetryDelay)
      \/ /\ task[w].pc = "commit"
         /\ task[w].verdict = "completed"
         /\ CommitLeasedResult(w, lease, t, "completed", "none")
      \/ /\ task[w].pc = "commit"
         /\ task[w].verdict # "completed"
         /\ CommitLeasedResult(w, lease, t, "failed", task[w].verdict)

\* ... and answered, or applied with the answer lost.
Finish(w) ==
  /\ CallApplied(w)
  /\ \/ EndRunOne(w) /\ UNCHANGED <<zombies, faults>>
     \/ EndAndWait(w) /\ AnswerLost

\* The row no longer matches the lease: the outcome is "lease_lost".
FinishRejected(w) ==
  /\ task[w].pc \in Calling \ {"claim"}
  /\ ~ActiveLease(jobs[task[w].lease.run], task[w].lease, w, task[w].at)
  /\ EndAndWait(w)
  /\ UNCHANGED <<queueVars, zombies, faults>>

\* A call to the database fails and is rolled back: run_one raises.
CallFails(w) ==
  /\ task[w].pc \in Calling \cup {"get"}
  /\ Fault
  /\ EndAndWait(w)
  /\ UNCHANGED <<queueVars, zombies>>

\* The process dies with both its threads; another one takes its place.
Crash(w) ==
  /\ task[w].pc # "idle"
  /\ Fault
  /\ EndRunOne(w)
  /\ zombies' = {z \in zombies : z.worker # w}
  /\ UNCHANGED queueVars

-----------------------------------------------------------------------------
(* _LeaseHeartbeat._run *)

\* Faulty variant: one heartbeat per lease period.
BeatDueLate(w) == beat[w].state = "waiting" /\ now >= beat[w].at + LeaseSeconds

\* The wait between two heartbeats is over.
BeatDue(w) == beat[w].state = "waiting" /\ now >= beat[w].at + HeartbeatInterval

BeginBeat(w) ==
  /\ BeatDue(w)
  /\ beat' = [beat EXCEPT ![w] = [@ EXCEPT !.state = "sending", !.at = now]]
  /\ UNCHANGED <<queueVars, task, zombies, faults>>

\* The lease is extended and the thread waits again, unless it has been told
\* to stop.
BeatKept(w) ==
  /\ beat[w].state = "sending"
  /\ Heartbeat(w, task[w].lease, beat[w].at)
  /\ beat' = [beat EXCEPT ![w] =
                [@ EXCEPT !.state = IF task[w].pc = "join" THEN "off" ELSE "waiting",
                          !.at = now]]
  /\ UNCHANGED <<task, zombies, faults>>

BeatIsLost(w) ==
  beat' = [beat EXCEPT ![w] = [@ EXCEPT !.state = "off", !.lost = TRUE]]

\* The lease is no longer the worker's.
BeatRejected(w) ==
  /\ beat[w].state = "sending"
  /\ ~ActiveLease(jobs[task[w].lease.run], task[w].lease, w, beat[w].at)
  /\ BeatIsLost(w)
  /\ UNCHANGED <<queueVars, task, zombies, faults>>

\* A database error counts as a rejection, whether or not the row was updated.
BeatFails(w) ==
  /\ beat[w].state = "sending"
  /\ \/ Heartbeat(w, task[w].lease, beat[w].at)
     \/ UNCHANGED queueVars
  /\ Fault
  /\ BeatIsLost(w)
  /\ UNCHANGED <<task, zombies>>

\* A heartbeat that outlived its stop reaches the database, or fails there.
ZombieBeat(z) ==
  /\ z \in zombies
  /\ \/ Heartbeat(z.worker, z.lease, z.at)
     \/ UNCHANGED queueVars
  /\ zombies' = zombies \ {z}
  /\ UNCHANGED <<task, beat, faults>>

-----------------------------------------------------------------------------
(* The API and the clock *)

\* POST /runs/async.
Submit(r) ==
  /\ now <= LastSubmit
  /\ SaveQueuedRun(r, now)
  /\ UNCHANGED workerVars

\* enqueue of a run that is not stored, where the database does not check.
EnqueueOrphan(r) ==
  /\ ~ForeignKeys
  /\ runs[r] = NoRun
  /\ Enqueue(r, now)
  /\ UNCHANGED workerVars

\* What a system that keeps up with its clock does before time passes.
Due(w) ==
  \/ task[w].pc \in Calling \cup {"get", "join"}
  \/ task[w].pc = "execute" /\ now >= task[w].at + ExecLimit
  \/ /\ task[w].pc = "idle" /\ now >= task[w].at
     /\ \E r \in Runs : Claimable(jobs[r], now) \/ Exhausted(jobs[r], now)
  \/ beat[w].state = "sending"
  \/ BeatDue(w)

TimePasses ==
  /\ Timely => zombies = {} /\ \A w \in Workers : ~Due(w)
  /\ Tick
  /\ UNCHANGED workerVars

-----------------------------------------------------------------------------
Init ==
  /\ QueueInit
  /\ task = [w \in Workers |-> IdleTask]
  /\ beat = [w \in Workers |-> NoBeat]
  /\ zombies = {}
  /\ faults = 0

WorkerStep(w) ==
  \/ BeginClaim(w) \/ ClaimJob(w) \/ ClaimNothing(w)
  \/ GetRun(w) \/ GetMissing(w) \/ Execute(w)
  \/ JoinKept(w) \/ JoinLost(w)
  \/ Finish(w) \/ FinishRejected(w)

BeatStep(w) == BeginBeat(w) \/ BeatKept(w) \/ BeatRejected(w)

FaultStep(w) == JoinTimeout(w) \/ CallFails(w) \/ Crash(w) \/ BeatFails(w)

Next ==
  \/ TimePasses
  \/ \E r \in Runs : Submit(r) \/ EnqueueOrphan(r)
  \/ \E w \in Workers : WorkerStep(w) \/ BeatStep(w) \/ FaultStep(w)
  \/ \E z \in zombies : ZombieBeat(z)

Spec == Init /\ [][Next]_vars

\* Threads that can run eventually run and the clock goes on; nothing forces
\* a fault or a submission.
Fairness ==
  /\ WF_vars(TimePasses)
  /\ WF_vars(\E z \in zombies : ZombieBeat(z))
  /\ \A w \in Workers : WF_vars(WorkerStep(w)) /\ WF_vars(BeatStep(w))

LiveSpec == Spec /\ Fairness

-----------------------------------------------------------------------------
(* Properties *)

\* The two threads of every worker have a state of run_one and of
\* _LeaseHeartbeat._run; faults stay within their bound.
WorkerTypeOK ==
  /\ task \in [Workers -> Task]
  /\ beat \in [Workers -> Beat]
  /\ zombies \subseteq [worker : Workers, lease : Lease, at : Nat]
  /\ faults \in 0..MaxFaults

\* A completed job and a completed run come together, and a run is stored as
\* failed only with its job, after its last attempt: no crash, late answer,
\* retry or takeover of run_one leaves one side of a result behind, and no
\* attempt before the last writes a failure into the run.
ResultsCommitTogether ==
  \A r \in Runs :
    /\ jobs[r].state = "completed" <=> runs[r].status = "completed"
    /\ runs[r].status = "failed" =>
         jobs[r].state = "failed" /\ jobs[r].attempts = MaxAttempts

\* Two workers never execute under the same lease, and a worker that believes
\* in its lease without being the owner of the row has been superseded: the
\* row has moved on to a later attempt, or the job is over or queued again.
LeasesAreExclusive ==
  \A w \in Workers :
    task[w].lease # NoLease =>
      LET lease == task[w].lease
          row == jobs[lease.run]
      IN  /\ \A v \in Workers \ {w} : task[v].lease # lease
          /\ row.attempts >= lease.attempt
          /\ row.token = lease.token => row.owner = w /\ row.attempts = lease.attempt

\* A heartbeat never shortens the lease it extends, not even one that was sent
\* long ago, by a thread its worker has given up on.
LeaseNeverShortens ==
  [][\A r \in Runs :
       jobs[r].state = "leased" /\ jobs'[r].token = jobs[r].token =>
         jobs'[r].expires >= jobs[r].expires]_vars

\* A worker whose lease is gone changes nothing any more: a row changes only
\* through a claim, a submission, or a call made under the row's own token.
OnlyTheHolderWrites ==
  [][\A r \in Runs :
       /\ runs'[r] # runs[r] /\ runs[r] # NoRun =>
            /\ runs'[r].by = jobs[r].token
            /\ \E w \in Workers : /\ HeldBy(w, r)
                                  /\ task[w].lease.token = jobs[r].token
                                  /\ ~beat[w].lost
       /\ jobs'[r].state = "queued" /\ jobs[r].state # "queued" =>
            \/ jobs[r] = NoJob
            \/ \E w \in Workers : /\ HeldBy(w, r)
                                  /\ task[w].lease.token = jobs[r].token
                                  /\ ~beat[w].lost]_vars

\* The rows of a run and its job are their holder's: nobody else changes them, and
\* what a heartbeat that was sent long ago writes never shortens a lease.
RowsAreTheHolders == LeaseNeverShortens /\ OnlyTheHolderWrites

\* In a system that keeps up with its clock and meets no fault, the heartbeat
\* (an interval of at most half the lease) keeps every lease alive until the
\* result is recorded: a slow execution is never taken over.
HeartbeatKeepsLease ==
  \A w \in Workers :
    task[w].lease # NoLease =>
      ActiveLease(jobs[task[w].lease.run], task[w].lease, w, now)

\* Every job ends: whatever faults happen, a queued or leased job is completed
\* or failed some day, through retries, takeovers of expired leases, or the
\* attempt limit.
EveryJobEnds ==
  \A r \in Runs : jobs[r].state \in Live ~> jobs[r].state \in Terminal

\* As DESIGN.md has it, the failure of a job is recorded with its run's, in
\* one transaction.
FailuresCommitTogether ==
  \A r \in Runs : jobs[r].state = "failed" => runs[r].status = "failed"

\* run_one on the queue implements the life of a run that RunLifecycle
\* describes.
OutcomeOf(r) ==
  CASE runs[r].status \in Terminal -> runs[r].status
    [] jobs[r].state = "absent" -> "unknown"
    [] runs[r].status \notin Terminal /\ jobs[r].state = "failed" -> "abandoned"
    [] OTHER -> "submitted"

Lifecycle == INSTANCE RunLifecycle WITH
  outcome <- [r \in Runs |-> OutcomeOf(r)],
  attempts <- [r \in Runs |-> jobs[r].attempts]

\* run_one on the queue implements the promise of POST /runs/async: at most
\* MaxAttempts attempts and at most one end, failed only after the last one.
ImplementsLifecycle == Lifecycle!Spec

=============================================================================
