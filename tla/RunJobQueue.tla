---------------------------- MODULE RunJobQueue ----------------------------
(***************************************************************************)
(* The persistent job queue of the control plane and the two tables its    *)
(* transactions touch: run_jobs (PostgresRunJobQueue) and runs             *)
(* (PostgresRunRepository.save_queued_run / commit_leased_result).         *)
(*                                                                         *)
(* One action is one database transaction.  The caller reads its clock     *)
(* before the transaction begins, so every action takes that reading t,    *)
(* which may be older than the present time: a call can wait for a         *)
(* connection or for a row lock between the reading and the transaction.   *)
(*                                                                         *)
(* The clients are arbitrary: any worker may call any operation with any   *)
(* lease ever handed out, at any time and with any earlier clock reading.  *)
(* RunWorker restricts them to what RunJobWorker does.                     *)
(***************************************************************************)
EXTENDS Naturals, FiniteSets

CONSTANTS
  Runs,             \* run ids; run_jobs.run_id is unique, so a job is named by its run
  Workers,          \* worker ids
  NoWorker,         \* NULL in run_jobs.lease_owner
  MaxAttempts,      \* PostgresRunJobQueue.max_attempts
  LeaseSeconds,     \* RunJobWorker.lease_seconds
  RetryDelay,       \* RunJobWorker.retry_delay_seconds
  FailureAliases,   \* the aliases an execution can fail with
  ForeignKeys,      \* whether the database enforces run_jobs.run_id -> runs.id
  MaxNow            \* bound: the clock stops here

ASSUME QueueAssumption ==
  /\ NoWorker \notin Workers
  /\ MaxAttempts \in Nat \ {0}
  /\ LeaseSeconds \in Nat \ {0}
  /\ RetryDelay \in Nat
  /\ "attempt-limit-exhausted" \notin FailureAliases
  /\ ForeignKeys \in BOOLEAN
  /\ MaxNow \in Nat

VARIABLES
  now,      \* the clock
  tokens,   \* how many lease tokens (uuid4) have been drawn
  leases,   \* every RunJobLease handed out so far
  jobs,     \* run_jobs
  runs      \* runs: the stored status, and the attempt that produced it

queueVars == <<now, tokens, leases, jobs, runs>>

-----------------------------------------------------------------------------
(* The rows *)

NoToken == 0

Live == {"queued", "leased"}
Terminal == {"completed", "failed"}
Aliases == FailureAliases \cup
  {"none", "run-not-found", "attempt-limit-exhausted"}

JobRow ==
  [state : {"absent"} \cup Live \cup Terminal,
   available : Nat,
   attempts : Nat,
   owner : Workers \cup {NoWorker},
   token : Nat,
   expires : Nat,
   alias : Aliases]

Lease ==
  [run : Runs, token : Nat \ {0}, attempt : Nat \ {0}, final : BOOLEAN]

\* by is the token under which the stored result was committed: every
\* execution writes results of its own (conversation_id, ended_at, ...).
RunRow ==
  [status : {"absent", "running"} \cup Terminal, alias : Aliases, by : Nat]

NoJob ==
  [state |-> "absent", available |-> 0, attempts |-> 0, owner |-> NoWorker,
   token |-> NoToken, expires |-> 0, alias |-> "none"]

NoRun == [status |-> "absent", alias |-> "none", by |-> NoToken]
RunningRun == [status |-> "running", alias |-> "none", by |-> NoToken]

QueuedJob(t) == [NoJob EXCEPT !.state = "queued", !.available = t]

\* lease_owner, lease_token and lease_expires_at set to NULL.
Released(job) ==
  [job EXCEPT !.owner = NoWorker, !.token = NoToken, !.expires = 0]

\* ... as the holder, or the expiry of its last attempt, leaves the job.
LeftAs(job, state, alias) ==
  [Released(job) EXCEPT !.state = state, !.alias = alias]

\* A row with a new lease on it.
LeasedTo(job, w, token, expires) ==
  [job EXCEPT !.state = "leased", !.owner = w, !.token = token,
              !.expires = expires, !.attempts = job.attempts + 1,
              !.alias = "none"]

-----------------------------------------------------------------------------
(* Conditions of the statements *)

\* Faulty variant: takes over a lease that has not expired.
LeaseOverAnyLease(job, t) == job.state = "leased"

LeaseOver(job, t) == job.state = "leased" /\ job.expires <= t

\* Faulty variant: identifies the holder by its worker id alone.
ActiveLeaseByOwner(row, lease, w, t) ==
  /\ row.state = "leased"
  /\ row.owner = w
  /\ row.expires > t

\* _active_lease_conditions: the lease this worker holds is still the job's.
ActiveLease(row, lease, w, t) ==
  /\ row.state = "leased"
  /\ row.owner = w
  /\ row.token = lease.token
  /\ row.expires > t

\* Faulty variant: does not look at the state of the job.
ExhaustedAnyState(job, t) == job.attempts >= MaxAttempts

\* The rows _expire_exhausted_jobs_statement updates.
Exhausted(job, t) ==
  /\ job.attempts >= MaxAttempts
  /\ job.state = "queued" \/ LeaseOver(job, t)

ExpireExhausted(t) ==
  [r \in Runs |->
     IF Exhausted(jobs[r], t)
       THEN LeftAs(jobs[r], "failed", "attempt-limit-exhausted")
       ELSE jobs[r]]

\* Faulty variant: one attempt too many.
ClaimableOnceMore(job, t) ==
  /\ job.attempts <= MaxAttempts
  /\ \/ job.state = "queued" /\ job.available <= t
     \/ LeaseOver(job, t)

\* Faulty variant: expired leases are not claimed again.
ClaimableQueuedOnly(job, t) ==
  job.attempts < MaxAttempts /\ job.state = "queued" /\ job.available <= t

\* The rows _claim_statement selects from.
Claimable(job, t) ==
  /\ job.attempts < MaxAttempts
  /\ \/ job.state = "queued" /\ job.available <= t
     \/ LeaseOver(job, t)

\* ORDER BY available_at ... LIMIT 1 FOR UPDATE SKIP LOCKED: a row that is
\* first among those no other transaction has locked.  Rows available at the
\* same time are ordered by created_at and id, which are left out: any of them
\* may come first.
FirstClaimable(r, t, locked) ==
  /\ r \notin locked
  /\ Claimable(jobs[r], t)
  /\ \A q \in Runs \ locked :
       Claimable(jobs[q], t) => jobs[r].available <= jobs[q].available

-----------------------------------------------------------------------------
(* Transactions.  t is the caller's clock reading. *)

\* PostgresRunRepository.save of a new running run (a synchronous or observed
\* run, which has no job).  Later saves, which overwrite the run, are in RunStore.
SaveRun(r) ==
  /\ runs[r] = NoRun
  /\ runs' = [runs EXCEPT ![r] = RunningRun]
  /\ UNCHANGED <<now, tokens, leases, jobs>>

\* PostgresRunRepository.save_queued_run: the run and its job in one
\* transaction; an existing job is returned as it is.
SaveQueuedRun(r, t) ==
  /\ jobs[r] = NoJob
  /\ runs[r] = NoRun
  /\ runs' = [runs EXCEPT ![r] = RunningRun]
  /\ jobs' = [jobs EXCEPT ![r] = QueuedJob(t)]
  /\ UNCHANGED <<now, tokens, leases>>

\* PostgresRunJobQueue.enqueue.  The losing side of two concurrent calls hits
\* the unique constraint and returns the winner's job, which changes nothing.
Enqueue(r, t) ==
  /\ jobs[r] = NoJob
  /\ ForeignKeys => runs[r] # NoRun
  /\ jobs' = [jobs EXCEPT ![r] = QueuedJob(t)]
  /\ UNCHANGED <<now, tokens, leases, runs>>

\* Faulty variant: a job that is taken over keeps its token.
FreshTokenReused(r) ==
  IF jobs[r].token # NoToken THEN jobs[r].token ELSE tokens + 1

\* uuid4(): a token no lease has had.
FreshToken(r) == tokens + 1

\* Faulty variant: built before the attempt is counted.
NewLeaseTooEarly(r) ==
  [run |-> r, token |-> FreshToken(r), attempt |-> jobs[r].attempts,
   final |-> jobs[r].attempts >= MaxAttempts]

\* The lease claim hands out for job r.
NewLease(r) ==
  [run |-> r, token |-> FreshToken(r), attempt |-> jobs[r].attempts + 1,
   final |-> jobs[r].attempts + 1 >= MaxAttempts]

\* PostgresRunJobQueue.claim that finds a row: exhausted jobs are failed first,
\* then the row is leased under a fresh token.
Claim(w, t, r, locked) ==
  /\ FirstClaimable(r, t, locked)
  /\ tokens' = tokens + 1
  /\ leases' = leases \cup {NewLease(r)}
  /\ jobs' = [ExpireExhausted(t) EXCEPT
                ![r] = LeasedTo(@, w, FreshToken(r), t + LeaseSeconds)]
  /\ UNCHANGED <<now, runs>>

\* PostgresRunJobQueue.claim that returns None: exhausted jobs are failed.
ClaimNone(t, locked) ==
  /\ \A r \in Runs \ locked : ~Claimable(jobs[r], t)
  /\ jobs' = ExpireExhausted(t)
  /\ UNCHANGED <<now, tokens, leases, runs>>

\* PostgresRunJobQueue.heartbeat that updates its row.
Heartbeat(w, lease, t) ==
  /\ ActiveLease(jobs[lease.run], lease, w, t)
  /\ jobs' = [jobs EXCEPT ![lease.run].expires = t + LeaseSeconds]
  /\ UNCHANGED <<now, tokens, leases, runs>>

\* PostgresRunJobQueue.complete that updates its row: the job alone.
Complete(w, lease, t) ==
  /\ ActiveLease(jobs[lease.run], lease, w, t)
  /\ jobs' = [jobs EXCEPT ![lease.run] = LeftAs(@, "completed", "none")]
  /\ UNCHANGED <<now, tokens, leases, runs>>

\* PostgresRunJobQueue.fail that finds its row: back to the queue after delay,
\* or failed for good when the failure is not retryable or no attempt is left.
Fail(w, lease, t, alias, retryable, delay) ==
  /\ ActiveLease(jobs[lease.run], lease, w, t)
  /\ LET retry == retryable /\ jobs[lease.run].attempts < MaxAttempts
     IN  jobs' = [jobs EXCEPT ![lease.run] =
                    [LeftAs(@, IF retry THEN "queued" ELSE "failed", alias)
                       EXCEPT !.available = t + delay]]
  /\ UNCHANGED <<now, tokens, leases, runs>>

\* PostgresRunRepository.commit_leased_result that finds its row: the run's
\* result and the job's end in one transaction.
CommitLeasedResult(w, lease, t, status, alias) ==
  /\ ActiveLease(jobs[lease.run], lease, w, t)
  /\ runs' = [runs EXCEPT ![lease.run] =
                [status |-> status, alias |-> alias, by |-> lease.token]]
  /\ jobs' = [jobs EXCEPT ![lease.run] = LeftAs(@, status, alias)]
  /\ UNCHANGED <<now, tokens, leases>>

\* Time passes.
Tick ==
  /\ now < MaxNow
  /\ now' = now + 1
  /\ UNCHANGED <<tokens, leases, jobs, runs>>

-----------------------------------------------------------------------------
(* The queue with arbitrary clients *)

QueueInit ==
  /\ now = 0
  /\ tokens = 0
  /\ leases = {}
  /\ jobs = [r \in Runs |-> NoJob]
  /\ runs = [r \in Runs |-> NoRun]

QueueNext ==
  \/ Tick
  \/ \E r \in Runs : SaveRun(r)
  \/ \E r \in Runs, t \in 0..now : SaveQueuedRun(r, t)
  \/ \E r \in Runs, t \in 0..now : Enqueue(r, t)
  \/ \E w \in Workers, t \in 0..now, r \in Runs, locked \in SUBSET Runs :
       Claim(w, t, r, locked)
  \/ \E t \in 0..now, locked \in SUBSET Runs : ClaimNone(t, locked)
  \/ \E w \in Workers, lease \in leases, t \in 0..now :
       Heartbeat(w, lease, t)
  \/ \E w \in Workers, lease \in leases, t \in 0..now :
       Complete(w, lease, t)
  \/ \E w \in Workers, lease \in leases, t \in 0..now,
        alias \in FailureAliases \cup {"run-not-found"},
        retryable \in BOOLEAN, delay \in {0, RetryDelay} :
       Fail(w, lease, t, alias, retryable, delay)
  \/ \E w \in Workers, lease \in leases, t \in 0..now :
       CommitLeasedResult(w, lease, t, "completed", "none")
  \/ \E w \in Workers, lease \in leases, t \in 0..now,
        alias \in FailureAliases :
       CommitLeasedResult(w, lease, t, "failed", alias)

QueueSpec == QueueInit /\ [][QueueNext]_queueVars

-----------------------------------------------------------------------------
(* Properties *)

\* Every row and every lease has the shape of its table or dataclass.
QueueTypeOK ==
  /\ now \in Nat
  /\ tokens \in Nat
  /\ leases \subseteq Lease
  /\ jobs \in [Runs -> JobRow]
  /\ runs \in [Runs -> RunRow]

\* claim never hands out the same attempt of a run twice, nor one beyond the
\* limit, and only the lease of attempt max_attempts is marked final: whatever
\* crashes, retries and late calls happen, at most one worker can ever record
\* a run's final failure.
AttemptsHandedOutOnce ==
  \A r \in Runs :
    LET given == {l \in leases : l.run = r}
    IN  /\ \A l \in given : l.attempt \in 1..jobs[r].attempts
        /\ \A l, m \in given : l.attempt = m.attempt => l = m
        /\ \A l \in given : l.final <=> l.attempt = MaxAttempts
        /\ jobs[r].attempts <= MaxAttempts

\* A stored result is the newest attempt's and the job's end agrees with it:
\* commit_leased_result never stores the result of an attempt that a later
\* claim has superseded, nor a result without the job's terminal state.
StoredResultIsNewest ==
  \A r \in Runs :
    runs[r].status \in Terminal =>
      /\ jobs[r].state = runs[r].status
      /\ jobs[r].alias = runs[r].alias
      /\ \E l \in leases : /\ l.run = r
                           /\ l.token = runs[r].by
                           /\ l.attempt = jobs[r].attempts

\* While a lease has not expired nobody but its holder can end it: no claim
\* takes the job over and no claim writes it off as exhausted, however old the
\* clock readings of the callers are.
LiveLeaseIsKept ==
  [][\A r \in Runs :
       jobs[r].state = "leased" /\ jobs[r].expires > now =>
         /\ jobs'[r].attempts = jobs[r].attempts
         /\ jobs'[r].alias # "attempt-limit-exhausted"]_queueVars

\* A job that has ended stays exactly as it ended, and so does the result
\* stored with it: no late heartbeat, retry, completion or commit of any lease
\* reopens or rewrites it.
EndedStaysEnded ==
  [][\A r \in Runs :
       jobs[r].state \in Terminal =>
         /\ jobs'[r] = jobs[r]
         /\ runs[r].status \in Terminal => runs'[r] = runs[r]]_queueVars

=============================================================================
