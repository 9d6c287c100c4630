-------------------------- MODULE RunWorkerProofs --------------------------
(***************************************************************************)
(* Proofs about RunWorker, for any number of runs, workers, attempts and   *)
(* faults and any lease, heartbeat and retry times: what run_one and its   *)
(* heartbeat thread do is what the queue allows its clients to do, so the  *)
(* theorems of RunJobQueueProofs hold of it; results commit together;      *)
(* leases are exclusive; rows are their holders'; and the life of a run is *)
(* the one RunLifecycle describes.                                         *)
(***************************************************************************)
EXTENDS RunWorker, RunJobQueueProofs

-----------------------------------------------------------------------------
(* The inductive invariant *)

\* A lease that claim handed to w: the row that carries its token names w.
Held(l, w) ==
  /\ l \in leases
  /\ jobs[l.run].token = l.token => jobs[l.run].owner = w

\* A heartbeat sent at t under lease l would not shorten the lease.
NotAhead(l, t) ==
  jobs[l.run].token = l.token => jobs[l.run].expires <= t + LeaseSeconds

\* Where run_one stands, what it holds and what it is about to write.
TaskInv(w) ==
  /\ task[w].lease = NoLease <=> task[w].pc \in {"idle", "claim"}
  /\ task[w].lease # NoLease => Held(task[w].lease, w)
  /\ task[w].pc # "idle" => task[w].at <= now
  /\ task[w].pc \in {"join", "commit", "retry"} =>
       task[w].verdict \in {"completed"} \cup FailureAliases
  /\ task[w].pc = "retry" => task[w].verdict # "completed"
  /\ task[w].pc = "commit" /\ task[w].verdict # "completed" => task[w].lease.final

\* The heartbeat thread lives while the harness executes or is joined, and so
\* does its verdict.
BeatInv(w) ==
  /\ beat[w].state # "off" \/ beat[w].lost => task[w].pc \in {"execute", "join"}
  /\ beat[w].state = "sending" =>
       beat[w].at <= now /\ NotAhead(task[w].lease, beat[w].at)

ZombieInv(z) ==
  Held(z.lease, z.worker) /\ z.at <= now /\ NotAhead(z.lease, z.at)

\* No two threads send heartbeats under the same lease.
OneThreadPerLease ==
  /\ \A v, w \in Workers :
       task[v].lease = task[w].lease => v = w \/ task[w].lease = NoLease
  /\ \A w \in Workers : \A z \in zombies : z.lease # task[w].lease
  /\ \A y, z \in zombies : y.lease = z.lease => y = z

\* No lease lasts longer than LeaseSeconds from now.
LeasesAreShort == \A r \in Runs : jobs[r].expires <= now + LeaseSeconds

ThreadInv ==
  /\ \A w \in Workers : TaskInv(w) /\ BeatInv(w)
  /\ \A z \in zombies : ZombieInv(z)
  /\ OneThreadPerLease

WorkerInv ==
  /\ QueueInv
  /\ WorkerTypeOK
  /\ ThreadInv
  /\ LeasesAreShort
  /\ ResultsCommitTogether

-----------------------------------------------------------------------------
(* What the workers' transactions do to the rows *)

\* What no worker calls for under a lease: the API, the clock, and claims.
UnleasedStep ==
  \/ UNCHANGED queueVars
  \/ Tick
  \/ \E r \in Runs : SaveQueuedRun(r, now) \/ Enqueue(r, now)
  \/ \E w \in Workers, t \in 0..now, r \in Runs, locked \in SUBSET Runs :
       Claim(w, t, r, locked)
  \/ \E t \in 0..now, locked \in SUBSET Runs : ClaimNone(t, locked)

\* All transactions but heartbeats.  A failure is committed under the lease of
\* the last attempt only.
QuietStep ==
  \/ UnleasedStep
  \/ \E w \in Workers, lease \in leases, t \in 0..now,
        alias \in FailureAliases \cup {"run-not-found"},
        retryable \in BOOLEAN, delay \in {0, RetryDelay} :
       Fail(w, lease, t, alias, retryable, delay)
  \/ \E w \in Workers, lease \in leases, t \in 0..now :
       CommitLeasedResult(w, lease, t, "completed", "none")
  \/ \E w \in Workers, lease \in leases, t \in 0..now, alias \in FailureAliases :
       lease.final /\ CommitLeasedResult(w, lease, t, "failed", alias)

\* A step after which a row that carries the token of lease l is as it was.
Kept(l) ==
  /\ l \in leases'
  /\ jobs'[l.run].token = l.token =>
       /\ jobs[l.run].token = l.token
       /\ jobs'[l.run].owner = jobs[l.run].owner
       /\ jobs'[l.run].expires = jobs[l.run].expires

\* What an arbitrary step must do to the queue for its part of WorkerInv.
RowsKeepInv ==
  QueueInv' /\ LeasesAreShort' /\ ResultsCommitTogether' /\ now' >= now

\* The rows part of WorkerInv, which the transactions keep by themselves.
RowsInv == QueueInv /\ LeasesAreShort /\ ResultsCommitTogether

\* A row that is cleared has no token and no expiry; nothing else changes but
\* its state and alias.
LEMMA LeftAsColumns ==
  ASSUME NEW j \in JobRow, NEW s \in {"queued"} \cup Terminal, NEW a \in Aliases
  PROVE  /\ LeftAs(j, s, a) \in JobRow
         /\ LeftAs(j, s, a).state = s
         /\ LeftAs(j, s, a).alias = a
         /\ LeftAs(j, s, a).token = NoToken
         /\ LeftAs(j, s, a).expires = 0
         /\ LeftAs(j, s, a).attempts = j.attempts
  <1>1. LeftAs(j, s, a) \in JobRow
    BY LeftAsType
  <1> QED
    BY <1>1 DEF LeftAs, Released, JobRow

\* Failing the exhausted jobs: every row is as it was, or it was live, was not
\* stored as ended, and is now failed without a lease.
LEMMA ExpireExhaustedColumns ==
  ASSUME QueueTypeOK, NEW t, NEW r \in Runs
  PROVE  \/ /\ ~Exhausted(jobs[r], t)
            /\ ExpireExhausted(t)[r] = jobs[r]
         \/ /\ Exhausted(jobs[r], t)
            /\ jobs[r].state \in Live
            /\ ExpireExhausted(t)[r].state = "failed"
            /\ ExpireExhausted(t)[r].token = NoToken
            /\ ExpireExhausted(t)[r].expires = 0
            /\ ExpireExhausted(t)[r].attempts = jobs[r].attempts
  <1>1. CASE ~Exhausted(jobs[r], t)
    BY <1>1 DEF ExpireExhausted
  <1>2. CASE Exhausted(jobs[r], t)
    <2>1. jobs[r] \in JobRow
      BY DEF QueueTypeOK
    <2>2. ExpireExhausted(t)[r]
            = LeftAs(jobs[r], "failed", "attempt-limit-exhausted")
      BY <1>2 DEF ExpireExhausted
    <2>3. "failed" \in Terminal /\ "attempt-limit-exhausted" \in Aliases
      BY DEF Terminal, Aliases
    <2>4. jobs[r].state \in Live
      BY <1>2 DEF Exhausted, LeaseOver, Live
    <2> QED
      BY <1>2, <2>1, <2>2, <2>3, <2>4, LeftAsColumns
  <1> QED
    BY <1>1, <1>2

\* A row whose job is live has no result.
LEMMA LiveHasNoResult ==
  ASSUME QueueInv, NEW r \in Runs, jobs[r].state \notin Terminal
  PROVE  runs[r].status \notin Terminal
  BY DEF QueueInv, StoredResultIsNewest

\* A row carries a token only while it is leased.
LEMMA TokenMeansLeased ==
  ASSUME QueueInv, NEW l \in leases, jobs[l.run].token = l.token
  PROVE  jobs[l.run].state = "leased"
  <1>1. l.run \in Runs /\ l.token # NoToken
    BY DEF QueueInv, QueueTypeOK, Lease, NoToken
  <1> QED
    BY <1>1 DEF QueueInv, RowsFollowLeases

\* A claim gives the row of q to w under a token that no lease had, and fails
\* the other exhausted jobs; a claim that finds nothing only does the latter.
LEMMA ClaimRows ==
  ASSUME QueueInv, NEW w \in Workers, NEW t \in 0..now, NEW q \in Runs,
         NEW locked, Claim(w, t, q, locked)
  PROVE  /\ jobs[q].state \in Live
         /\ jobs[q].attempts < MaxAttempts
         /\ jobs'[q].state = "leased"
         /\ jobs'[q].token = tokens + 1
         /\ jobs'[q].owner = w
         /\ jobs'[q].expires = t + LeaseSeconds
         /\ jobs'[q].attempts = jobs[q].attempts + 1
         /\ NewLease(q) \in Lease /\ NewLease(q) \in leases'
         /\ NewLease(q).run = q /\ NewLease(q).token = tokens + 1
         /\ NewLease(q) \notin leases
         /\ \A r \in Runs \ {q} : jobs'[r] = ExpireExhausted(t)[r]
  <1>1. /\ jobs[q] \in JobRow
        /\ jobs[q].state \in Live
        /\ jobs[q].attempts < MaxAttempts
        /\ jobs[q].attempts \in Nat
        /\ tokens \in Nat /\ now \in Nat
    BY DEF QueueInv, QueueTypeOK, JobRow, Claim, FirstClaimable, Claimable,
           LeaseOver, Live
  <1>2. ExpireExhausted(t)[q] = jobs[q]
    BY <1>1, QueueAssumption DEF ExpireExhausted, Exhausted
  <1>3. ExpireExhausted(t) \in [Runs -> JobRow]
    BY ExpireExhaustedType DEF QueueInv
  <1>4. jobs'[q] = LeasedTo(jobs[q], w, tokens + 1, t + LeaseSeconds)
    BY <1>2, <1>3 DEF Claim, FreshToken
  <1>5. /\ jobs'[q].state = "leased"
        /\ jobs'[q].token = tokens + 1
        /\ jobs'[q].owner = w
        /\ jobs'[q].expires = t + LeaseSeconds
        /\ jobs'[q].attempts = jobs[q].attempts + 1
    BY <1>1, <1>4 DEF LeasedTo, JobRow
  <1>6. \A r \in Runs \ {q} : jobs'[r] = ExpireExhausted(t)[r]
    BY <1>3 DEF Claim
  <1>7. /\ NewLease(q) \in Lease
        /\ NewLease(q).run = q
        /\ NewLease(q).token = tokens + 1
    BY <1>1 DEF NewLease, FreshToken, Lease
  <1>8. NewLease(q) \notin leases
    BY <1>1, <1>7 DEF QueueInv, TokensAreUnique
  <1>9. NewLease(q) \in leases'
    BY DEF Claim
  <1> QED
    BY <1>1, <1>5, <1>6, <1>7, <1>8, <1>9

\* After a claim, found or not, the row of a lease handed out earlier has the
\* lease's token only if nothing happened to it.
LEMMA ClaimKeeps ==
  ASSUME RowsInv, NEW w \in Workers, NEW t \in 0..now, NEW q \in Runs,
         NEW locked \in SUBSET Runs, Claim(w, t, q, locked)
  PROVE  RowsKeepInv /\ \A l \in leases : Kept(l)
  <1> USE DEF RowsInv
  <1>1. /\ jobs[q].state \in Live
        /\ jobs'[q].state = "leased"
        /\ jobs'[q].token = tokens + 1
        /\ jobs'[q].expires = t + LeaseSeconds
        /\ \A r \in Runs \ {q} : jobs'[r] = ExpireExhausted(t)[r]
    BY ClaimRows
  <1>2. \A r \in Runs \ {q} :
          \/ jobs'[r] = jobs[r]
          \/ /\ jobs[r].state \in Live
             /\ jobs'[r].state = "failed"
             /\ jobs'[r].token = NoToken
             /\ jobs'[r].expires = 0
    BY <1>1, ExpireExhaustedColumns DEF QueueInv
  <1>3. UNCHANGED <<now, runs>> /\ leases \subseteq leases'
    BY DEF Claim
  <1>4. now \in Nat /\ LeaseSeconds \in Nat
    BY QueueAssumption DEF QueueInv, QueueTypeOK
  <1>5. QueueInv'
    BY <1>4, ClaimKeepsInv
  <1>6. LeasesAreShort'
    BY <1>1, <1>2, <1>3, <1>4 DEF LeasesAreShort
  <1>7. \A r \in Runs : jobs[r].state \in Live => runs[r].status \notin Terminal
    BY LiveHasNoResult DEF Live, Terminal
  <1>8. ResultsCommitTogether'
    BY <1>1, <1>2, <1>3, <1>7 DEF ResultsCommitTogether, Live, Terminal
  <1>9. ASSUME NEW l \in leases PROVE Kept(l)
    <2>1. l.run \in Runs /\ l.token # NoToken /\ l.token # tokens + 1
      BY DEF QueueInv, QueueTypeOK, TokensAreUnique, Lease, NoToken
    <2>2. CASE l.run = q
      BY <1>1, <1>3, <2>1, <2>2 DEF Kept
    <2>3. CASE l.run # q
      BY <1>2, <1>3, <2>1, <2>3 DEF Kept
    <2> QED
      BY <2>2, <2>3
  <1> QED
    BY <1>3, <1>4, <1>5, <1>6, <1>8, <1>9 DEF RowsKeepInv

(* A claim that finds no job buries exhausted jobs only: what a lease still
   promises of its row is kept. *)
LEMMA ClaimNoneKeeps ==
  ASSUME RowsInv, NEW t \in 0..now, NEW locked \in SUBSET Runs,
         ClaimNone(t, locked)
  PROVE  RowsKeepInv /\ \A l \in leases : Kept(l)
  <1> USE DEF RowsInv
  <1>1. \A r \in Runs :
          \/ jobs'[r] = jobs[r]
          \/ /\ jobs[r].state \in Live
             /\ jobs'[r].state = "failed"
             /\ jobs'[r].token = NoToken
             /\ jobs'[r].expires = 0
    BY ExpireExhaustedColumns DEF QueueInv, ClaimNone
  <1>2. UNCHANGED <<now, runs, leases>>
    BY DEF ClaimNone
  <1>3. now \in Nat /\ LeaseSeconds \in Nat
    BY QueueAssumption DEF QueueInv, QueueTypeOK
  <1>4. QueueInv'
    BY <1>3, ClaimNoneKeepsInv
  <1>5. LeasesAreShort'
    BY <1>1, <1>2, <1>3 DEF LeasesAreShort
  <1>6. \A r \in Runs : jobs[r].state \in Live => runs[r].status \notin Terminal
    BY LiveHasNoResult DEF Live, Terminal
  <1>7. ResultsCommitTogether'
    BY <1>1, <1>2, <1>6 DEF ResultsCommitTogether, Live, Terminal
  <1>8. ASSUME NEW l \in leases PROVE Kept(l)
    <2>1. l.run \in Runs /\ l.token # NoToken
      BY DEF QueueInv, QueueTypeOK, Lease, NoToken
    <2> QED
      BY <1>1, <1>2, <2>1 DEF Kept
  <1> QED
    BY <1>2, <1>3, <1>4, <1>5, <1>7, <1>8 DEF RowsKeepInv

\* The holder clears its row; the run's row is as it was, or ends the way the
\* job does, a failed one after its last attempt.
LEMMA HolderLeaves ==
  ASSUME RowsInv, QueueInv', NEW lease \in leases, NEW w, NEW t,
         ActiveLease(jobs[lease.run], lease, w, t),
         jobs' = [jobs EXCEPT ![lease.run] = jobs'[lease.run]],
         jobs'[lease.run].token = NoToken,
         jobs'[lease.run].expires = 0,
         jobs'[lease.run].attempts = jobs[lease.run].attempts,
         \/ runs' = runs /\ jobs'[lease.run].state \in {"queued", "failed"}
         \/ /\ runs' = [runs EXCEPT ![lease.run] = runs'[lease.run]]
            /\ jobs'[lease.run].state \in Terminal
            /\ runs'[lease.run].status = jobs'[lease.run].state
            /\ runs'[lease.run].status = "failed" => lease.final,
         UNCHANGED <<now, tokens, leases>>
  PROVE  RowsKeepInv /\ \A l \in leases : Kept(l)
  <1> USE DEF RowsInv
  <1>1. /\ lease.run \in Runs
        /\ jobs[lease.run].state = "leased"
        /\ lease.attempt = jobs[lease.run].attempts
        /\ runs[lease.run].status \notin Terminal
    BY ActiveLeaseIsNewest
  <1>2. \A r \in Runs : r # lease.run => jobs'[r] = jobs[r] /\ runs'[r] = runs[r]
    BY <1>1 DEF QueueInv, QueueTypeOK
  <1>3. now \in Nat /\ LeaseSeconds \in Nat
    BY QueueAssumption DEF QueueInv, QueueTypeOK
  <1>4. LeasesAreShort'
    BY <1>2, <1>3 DEF LeasesAreShort
  <1>5. lease.final => lease.attempt = MaxAttempts
    BY <1>1 DEF QueueInv, AttemptsHandedOutOnce
  <1>6. ResultsCommitTogether'
    <2> SUFFICES ASSUME NEW r \in Runs
                 PROVE  /\ jobs'[r].state = "completed" <=> runs'[r].status = "completed"
                        /\ runs'[r].status = "failed" =>
                             jobs'[r].state = "failed" /\ jobs'[r].attempts = MaxAttempts
      BY DEF ResultsCommitTogether
    <2>1. CASE r = lease.run
      BY <1>1, <1>5, <2>1 DEF Terminal
    <2>2. CASE r # lease.run
      BY <1>2, <2>2 DEF ResultsCommitTogether
    <2> QED
      BY <2>1, <2>2
  <1>7. ASSUME NEW l \in leases PROVE Kept(l)
    <2>1. l.run \in Runs /\ l.token # NoToken
      BY DEF QueueInv, QueueTypeOK, Lease, NoToken
    <2> QED
      BY <1>2, <2>1 DEF Kept
  <1> QED
    BY <1>3, <1>4, <1>6, <1>7 DEF RowsKeepInv

(* Reporting a failure gives the reporter's own lease up and keeps what every
   other lease promises of its row. *)
LEMMA FailKeeps ==
  ASSUME RowsInv, NEW lease \in leases, NEW w, NEW t \in 0..now,
         NEW alias \in FailureAliases \cup {"run-not-found"},
         NEW retryable \in BOOLEAN, NEW delay \in {0, RetryDelay},
         Fail(w, lease, t, alias, retryable, delay)
  PROVE  RowsKeepInv /\ \A l \in leases : Kept(l)
  <1>1. alias \in Aliases /\ delay \in Nat /\ t \in Nat
    BY QueueAssumption DEF Aliases, RowsInv, QueueInv, QueueTypeOK
  <1>2. QueueInv'
    BY <1>1, FailKeepsInv DEF RowsInv
  <1>3. PICK s \in {"queued", "failed"} :
          jobs' = [jobs EXCEPT ![lease.run] =
                     [LeftAs(jobs[lease.run], s, alias)
                        EXCEPT !.available = t + delay]]
    <2>1. CASE retryable /\ jobs[lease.run].attempts < MaxAttempts
      BY <2>1 DEF Fail
    <2>2. CASE ~(retryable /\ jobs[lease.run].attempts < MaxAttempts)
      BY <2>2 DEF Fail
    <2> QED
      BY <2>1, <2>2
  <1>4. ActiveLease(jobs[lease.run], lease, w, t)
    BY DEF Fail
  <1>5. lease.run \in Runs /\ jobs[lease.run] \in JobRow
    BY <1>4, ActiveLeaseIsNewest DEF RowsInv
  <1> DEFINE left == LeftAs(jobs[lease.run], s, alias)
  <1>6. /\ left \in JobRow
        /\ left.state = s
        /\ left.token = NoToken
        /\ left.expires = 0
        /\ left.attempts = jobs[lease.run].attempts
    <2>1. s \in {"queued"} \cup Terminal
      BY DEF Terminal
    <2> QED
      BY <1>1, <1>5, <2>1, LeftAsColumns
  <1>7. jobs'[lease.run] = [left EXCEPT !.available = t + delay]
    BY <1>3, <1>5 DEF RowsInv, QueueInv, QueueTypeOK
  <1> HIDE DEF left
  <1>8. /\ jobs'[lease.run].state = s
        /\ jobs'[lease.run].token = NoToken
        /\ jobs'[lease.run].expires = 0
        /\ jobs'[lease.run].attempts = jobs[lease.run].attempts
    BY <1>6, <1>7 DEF JobRow
  <1>9. jobs' = [jobs EXCEPT ![lease.run] = jobs'[lease.run]]
    BY <1>3, <1>7 DEF left
  <1>10. UNCHANGED <<now, tokens, leases, runs>>
    BY DEF Fail
  <1> QED
    BY <1>2, <1>4, <1>8, <1>9, <1>10, HolderLeaves

(* Committing a result ends the committer's own job and keeps what every other
   lease promises of its row. *)
LEMMA CommitKeeps ==
  ASSUME RowsInv, NEW lease \in leases, NEW w, NEW t,
         NEW status \in Terminal, NEW alias \in FailureAliases \cup {"none"},
         status = "failed" => lease.final,
         CommitLeasedResult(w, lease, t, status, alias)
  PROVE  RowsKeepInv /\ \A l \in leases : Kept(l)
  <1>1. alias \in Aliases
    BY DEF Aliases
  <1>2. QueueInv'
    BY <1>1, CommitKeepsInv DEF RowsInv
  <1>3. ActiveLease(jobs[lease.run], lease, w, t)
    BY DEF CommitLeasedResult
  <1>4. lease.run \in Runs /\ jobs[lease.run] \in JobRow
    BY <1>3, ActiveLeaseIsNewest DEF RowsInv
  <1>5. /\ jobs'[lease.run] = LeftAs(jobs[lease.run], status, alias)
        /\ runs'[lease.run] =
             [status |-> status, alias |-> alias, by |-> lease.token]
    BY <1>4 DEF CommitLeasedResult, RowsInv, QueueInv, QueueTypeOK
  <1>6. /\ jobs'[lease.run].state = status
        /\ jobs'[lease.run].token = NoToken
        /\ jobs'[lease.run].expires = 0
        /\ jobs'[lease.run].attempts = jobs[lease.run].attempts
    <2>1. status \in {"queued"} \cup Terminal
      OBVIOUS
    <2>2. jobs[lease.run] \in JobRow
      BY <1>4
    <2>3. LeftAs(jobs[lease.run], status, alias) \in JobRow
      BY <1>1, <2>1, <2>2, LeftAsType
    <2> QED
      BY <1>5, <2>2, <2>3 DEF LeftAs, Released, JobRow
  <1>7. runs'[lease.run].status = status
    BY <1>5
  <1>8. /\ jobs' = [jobs EXCEPT ![lease.run] = jobs'[lease.run]]
        /\ runs' = [runs EXCEPT ![lease.run] = runs'[lease.run]]
        /\ UNCHANGED <<now, tokens, leases>>
    BY <1>5 DEF CommitLeasedResult
  <1> QED
    BY <1>2, <1>3, <1>6, <1>7, <1>8, HolderLeaves

\* A new job row has no lease and its run no result.
LEMMA NewJobKeeps ==
  ASSUME RowsInv, NEW q \in Runs, SaveQueuedRun(q, now) \/ Enqueue(q, now)
  PROVE  RowsKeepInv /\ \A l \in leases : Kept(l)
  <1> USE DEF RowsInv
  <1>1. now \in Nat /\ LeaseSeconds \in Nat
    BY QueueAssumption DEF QueueInv, QueueTypeOK
  <1>2. QueueInv'
    BY <1>1, NewJobKeepsInv DEF SaveQueuedRun, Enqueue
  <1>3. /\ jobs[q] = NoJob
        /\ jobs' = [jobs EXCEPT ![q] = QueuedJob(now)]
        /\ runs' = runs \/ runs' = [runs EXCEPT ![q] = RunningRun]
        /\ UNCHANGED <<now, tokens, leases>>
    BY DEF SaveQueuedRun, Enqueue
  <1>4. \A r \in Runs : /\ r # q => jobs'[r] = jobs[r] /\ runs'[r] = runs[r]
                        /\ runs'[q] = runs[q] \/ runs'[q] = RunningRun
    BY <1>3 DEF QueueInv, QueueTypeOK
  <1>5. /\ jobs'[q].state = "queued"
        /\ jobs'[q].token = NoToken
        /\ jobs'[q].expires = 0
    BY <1>3 DEF QueueInv, QueueTypeOK, QueuedJob, NoJob
  <1>6. RunningRun.status = "running" /\ runs[q].status \notin Terminal
    BY <1>3, LiveHasNoResult DEF RunningRun, NoJob, Terminal
  <1>7. LeasesAreShort'
    BY <1>1, <1>3, <1>4, <1>5 DEF LeasesAreShort
  <1>8. ResultsCommitTogether'
    BY <1>4, <1>5, <1>6 DEF ResultsCommitTogether, Terminal
  <1>9. ASSUME NEW l \in leases PROVE Kept(l)
    <2>1. l.run \in Runs /\ l.token # NoToken
      BY DEF QueueInv, QueueTypeOK, Lease, NoToken
    <2> QED
      BY <1>3, <1>4, <1>5, <2>1 DEF Kept
  <1> QED
    BY <1>1, <1>2, <1>3, <1>7, <1>8, <1>9 DEF RowsKeepInv

\* The rows part of WorkerInv is kept by every transaction but a heartbeat, and
\* no such transaction touches a row and leaves an old token on it.
LEMMA QuietKeeps ==
  ASSUME RowsInv, QuietStep
  PROVE  RowsKeepInv /\ \A l \in leases : Kept(l)
  <1> DEFINE Goal == RowsKeepInv /\ \A l \in leases : Kept(l)
  <1> SUFFICES Goal
    OBVIOUS
  <1> HIDE DEF Goal
  <1>1. now \in Nat /\ LeaseSeconds \in Nat
    BY QueueAssumption DEF RowsInv, QueueInv, QueueTypeOK
  <1>2. CASE UNCHANGED queueVars
    <2>1. QueueInv'
      BY <1>2, StepKeepsInv DEF RowsInv
    <2> QED
      BY <1>1, <1>2, <2>1 DEF Goal, RowsInv, RowsKeepInv, queueVars, Kept,
                              LeasesAreShort, ResultsCommitTogether
  <1>3. CASE Tick
    <2>1. QueueInv'
      BY <1>3, StepKeepsInv DEF RowsInv, QueueNext
    <2>2. now' = now + 1 /\ UNCHANGED <<tokens, leases, jobs, runs>>
      BY <1>3 DEF Tick
    <2>3. \A r \in Runs : jobs[r].expires \in Nat
      BY DEF RowsInv, QueueInv, QueueTypeOK, JobRow
    <2>4. LeasesAreShort'
      BY <1>1, <2>2, <2>3 DEF RowsInv, LeasesAreShort
    <2> QED
      BY <1>1, <2>1, <2>2, <2>4 DEF Goal, RowsInv, RowsKeepInv, Kept,
                                    ResultsCommitTogether
  <1>4. ASSUME NEW r \in Runs, SaveQueuedRun(r, now) \/ Enqueue(r, now) PROVE Goal
    BY <1>4, NewJobKeeps DEF Goal
  <1>5. ASSUME NEW w \in Workers, NEW t \in 0..now, NEW r \in Runs,
               NEW locked \in SUBSET Runs, Claim(w, t, r, locked)
        PROVE  Goal
    BY <1>5, ClaimKeeps DEF Goal
  <1>6. ASSUME NEW t \in 0..now, NEW locked \in SUBSET Runs, ClaimNone(t, locked)
        PROVE  Goal
    BY <1>6, ClaimNoneKeeps DEF Goal
  <1>7. ASSUME NEW w \in Workers, NEW lease \in leases, NEW t \in 0..now,
               NEW alias \in FailureAliases \cup {"run-not-found"},
               NEW retryable \in BOOLEAN, NEW delay \in {0, RetryDelay},
               Fail(w, lease, t, alias, retryable, delay)
        PROVE  Goal
    BY <1>7, FailKeeps DEF Goal
  <1>8. ASSUME NEW w \in Workers, NEW lease \in leases, NEW t \in 0..now,
               CommitLeasedResult(w, lease, t, "completed", "none")
        PROVE  Goal
    BY <1>8, CommitKeeps DEF Goal, Terminal
  <1>9. ASSUME NEW w \in Workers, NEW lease \in leases, NEW t \in 0..now,
               NEW alias \in FailureAliases, lease.final,
               CommitLeasedResult(w, lease, t, "failed", alias)
        PROVE  Goal
    BY <1>9, CommitKeeps DEF Goal, Terminal
  <1> QED
    BY <1>2, <1>3, <1>4, <1>5, <1>6, <1>7, <1>8, <1>9
       DEF QuietStep, UnleasedStep

\* A heartbeat extends its own row and changes nothing else.
LEMMA HeartbeatKeeps ==
  ASSUME RowsInv, NEW h \in leases, NEW w, NEW t \in 0..now, Heartbeat(w, h, t)
  PROVE  /\ RowsKeepInv
         /\ \A l \in leases : l # h => Kept(l)
         /\ jobs'[h.run].token = h.token
         /\ jobs'[h.run].owner = jobs[h.run].owner
         /\ jobs'[h.run].expires = t + LeaseSeconds
         /\ UNCHANGED <<now, tokens, leases, runs>>
  <1> USE DEF RowsInv
  <1>1. now \in Nat /\ LeaseSeconds \in Nat
    BY QueueAssumption DEF QueueInv, QueueTypeOK
  <1>2. QueueInv'
    BY <1>1, HeartbeatKeepsInv
  <1>3. /\ h.run \in Runs
        /\ jobs[h.run] \in JobRow
        /\ jobs[h.run].token = h.token
        /\ jobs[h.run].state = "leased"
    BY ActiveLeaseIsNewest DEF Heartbeat, ActiveLease
  <1>4. /\ jobs'[h.run] = [jobs[h.run] EXCEPT !.expires = t + LeaseSeconds]
        /\ \A r \in Runs : r # h.run => jobs'[r] = jobs[r]
        /\ UNCHANGED <<now, tokens, leases, runs>>
    BY <1>3 DEF Heartbeat, QueueInv, QueueTypeOK
  <1>5. /\ jobs'[h.run].token = h.token
        /\ jobs'[h.run].owner = jobs[h.run].owner
        /\ jobs'[h.run].expires = t + LeaseSeconds
        /\ jobs'[h.run].state = jobs[h.run].state
        /\ jobs'[h.run].attempts = jobs[h.run].attempts
    BY <1>3, <1>4 DEF JobRow
  <1>6. LeasesAreShort'
    <2>1. t + LeaseSeconds <= now + LeaseSeconds
      BY <1>1
    <2>2. \A r \in Runs : jobs'[r].expires <= now + LeaseSeconds
      BY <1>4, <1>5, <2>1 DEF LeasesAreShort
    <2> QED
      BY <1>4, <2>2 DEF LeasesAreShort
  <1>7. ResultsCommitTogether'
    <2>1. \A r \in Runs : /\ jobs'[r].state = jobs[r].state
                          /\ jobs'[r].attempts = jobs[r].attempts
      BY <1>4, <1>5
    <2> QED
      BY <1>4, <2>1 DEF ResultsCommitTogether
  <1>8. ASSUME NEW l \in leases, l # h PROVE Kept(l)
    <2>1. l.run \in Runs /\ l.token # h.token
      BY <1>8 DEF QueueInv, QueueTypeOK, Lease, TokensAreUnique
    <2> QED
      BY <1>4, <1>5, <2>1 DEF Kept
  <1> QED
    BY <1>1, <1>2, <1>4, <1>5, <1>6, <1>7, <1>8 DEF RowsKeepInv

-----------------------------------------------------------------------------
(* What a step of one thread leaves of the others *)

\* A worker whose threads do not move keeps its part of the invariant.
LEMMA OthersKeep ==
  ASSUME WorkerInv, now' \in Nat, now' >= now,
         NEW v \in Workers, task'[v] = task[v], beat'[v] = beat[v],
         task[v].lease # NoLease => Kept(task[v].lease)
  PROVE  TaskInv(v)' /\ BeatInv(v)'
  <1>1. TaskInv(v) /\ BeatInv(v)
    BY DEF WorkerInv, ThreadInv
  <1>2. task[v] \in Task /\ beat[v] \in Beat /\ now \in Nat
    BY DEF WorkerInv, WorkerTypeOK, QueueInv, QueueTypeOK
  <1>3. task[v].at \in Nat /\ beat[v].at \in Nat
    BY <1>2 DEF Task, Beat
  <1>4. TaskInv(v)'
    BY <1>1, <1>2, <1>3 DEF TaskInv, Held, Kept
  <1>5. beat[v].state = "sending" => task[v].lease # NoLease
    BY <1>1 DEF TaskInv, BeatInv
  <1>6. BeatInv(v)'
    BY <1>1, <1>2, <1>3, <1>5 DEF BeatInv, NotAhead, Kept
  <1> QED
    BY <1>4, <1>6

\* So does a heartbeat that outlived its stop.
LEMMA ZombiesKeep ==
  ASSUME WorkerInv, now' \in Nat, now' >= now,
         NEW z \in zombies, Kept(z.lease)
  PROVE  ZombieInv(z)'
  <1>1. ZombieInv(z) /\ z.at \in Nat /\ now \in Nat
    BY DEF WorkerInv, ThreadInv, WorkerTypeOK, QueueInv, QueueTypeOK
  <1> QED
    BY <1>1 DEF ZombieInv, Held, NotAhead, Kept

\* A step of worker w that takes no new lease and adds no zombie.
LEMMA ThreadStep ==
  ASSUME WorkerInv, RowsKeepInv, NEW w \in Workers, NEW nt \in Task, NEW nb \in Beat,
         task' = [task EXCEPT ![w] = nt],
         beat' = [beat EXCEPT ![w] = nb],
         zombies' \subseteq zombies,
         faults' \in 0..MaxFaults,
         nt.lease \in {task[w].lease, NoLease},
         \A l \in leases : l # task[w].lease => Kept(l),
         TaskInv(w)', BeatInv(w)'
  PROVE  WorkerInv'
  <1>1. /\ task \in [Workers -> Task]
        /\ beat \in [Workers -> Beat]
        /\ zombies \subseteq [worker : Workers, lease : Lease, at : Nat]
    BY DEF WorkerInv, WorkerTypeOK
  <1>2. now' \in Nat /\ now' >= now
    BY DEF RowsKeepInv, QueueInv, QueueTypeOK
  <1>3. WorkerTypeOK'
    BY <1>1 DEF WorkerTypeOK
  <1>4. \A v \in Workers : v # w => task'[v] = task[v] /\ beat'[v] = beat[v]
    BY <1>1
  <1>5. task'[w] = nt
    BY <1>1
  <1>6. \A v \in Workers : task[v].lease # NoLease => task[v].lease \in leases
    BY DEF WorkerInv, ThreadInv, TaskInv, Held
  <1>7. /\ \A u, v \in Workers :
             task[u].lease = task[v].lease => u = v \/ task[v].lease = NoLease
        /\ \A v \in Workers : \A z \in zombies : z.lease # task[v].lease
        /\ \A y, z \in zombies : y.lease = z.lease => y = z
    BY DEF WorkerInv, ThreadInv, OneThreadPerLease
  <1>8. ASSUME NEW v \in Workers PROVE TaskInv(v)' /\ BeatInv(v)'
    <2>1. CASE v = w
      BY <2>1
    <2>2. CASE v # w
      <3>1. task[v].lease # NoLease => Kept(task[v].lease)
        BY <1>6, <1>7, <2>2
      <3> QED
        BY <1>2, <1>4, <2>2, <3>1, OthersKeep
    <2> QED
      BY <2>1, <2>2
  <1>9. ASSUME NEW z \in zombies' PROVE ZombieInv(z)'
    <2>1. z \in zombies /\ z.lease \in leases
      BY DEF WorkerInv, ThreadInv, ZombieInv, Held
    <2>2. Kept(z.lease)
      BY <1>7, <2>1
    <2> QED
      BY <1>2, <2>1, <2>2, ZombiesKeep
  <1>10. OneThreadPerLease'
    <2>1. \A v \in Workers : task'[v].lease \in {task[v].lease, NoLease}
      BY <1>4, <1>5
    <2>2. \A z \in zombies : z.lease # NoLease
      BY <1>1, WorkerAssumption
    <2> QED
      BY <1>7, <2>1, <2>2 DEF OneThreadPerLease
  <1> QED
    BY <1>3, <1>8, <1>9, <1>10 DEF WorkerInv, ThreadInv, RowsKeepInv

\* run_one ends, at once or after a wait: the worker holds nothing any more.
LEMMA EndKeeps ==
  ASSUME WorkerInv, RowsKeepInv, NEW w \in Workers, EndRunOne(w) \/ EndAndWait(w),
         zombies' \subseteq zombies, faults' \in 0..MaxFaults,
         \A l \in leases : l # task[w].lease => Kept(l)
  PROVE  WorkerInv'
  <1>1. PICK at \in Nat :
          task' = [task EXCEPT ![w] = [pc |-> "idle", lease |-> NoLease,
                                       at |-> at, verdict |-> "none"]]
    <2>1. now \in Nat /\ now + 1 \in Nat
      BY DEF WorkerInv, QueueInv, QueueTypeOK
    <2>2. CASE EndRunOne(w)
      BY <2>2 DEF EndRunOne, IdleTask
    <2>3. CASE EndAndWait(w)
      <3> DEFINE a == IF Timely THEN now + 1 ELSE 0
      <3>1. a \in Nat
        BY <2>1
      <3>2. task' = [task EXCEPT ![w] = [IdleTask EXCEPT !.at = a]]
        BY <2>3 DEF EndAndWait
      <3> HIDE DEF a
      <3>3. [IdleTask EXCEPT !.at = a]
              = [pc |-> "idle", lease |-> NoLease, at |-> a, verdict |-> "none"]
        BY DEF IdleTask
      <3> QED
        BY <3>1, <3>2, <3>3
    <2> QED
      BY <2>2, <2>3
  <1> DEFINE nt == [pc |-> "idle", lease |-> NoLease, at |-> at, verdict |-> "none"]
  <1>2. nt \in Task /\ nt.lease = NoLease /\ nt.pc = "idle"
    BY DEF Task
  <1>3. beat' = [beat EXCEPT ![w] = NoBeat]
    BY DEF EndRunOne, EndAndWait
  <1>4. NoBeat \in Beat /\ NoBeat.state = "off" /\ ~NoBeat.lost
    BY DEF NoBeat, Beat
  <1>5. task'[w] = nt /\ beat'[w] = NoBeat
    BY <1>1, <1>3 DEF WorkerInv, WorkerTypeOK
  <1> HIDE DEF nt
  <1>6. TaskInv(w)'
    BY <1>2, <1>5 DEF TaskInv
  <1>7. BeatInv(w)'
    BY <1>4, <1>5 DEF BeatInv
  <1>8. task' = [task EXCEPT ![w] = nt]
    BY <1>1 DEF nt
  <1> QED
    BY <1>2, <1>3, <1>4, <1>6, <1>7, <1>8, ThreadStep

-----------------------------------------------------------------------------
(* The steps of run_one *)

\* What WorkerInv says of the thread of w.
LEMMA ThreadFacts ==
  ASSUME WorkerInv, NEW w \in Workers
  PROVE  /\ RowsInv
         /\ task \in [Workers -> Task] /\ beat \in [Workers -> Beat]
         /\ task[w] \in Task /\ beat[w] \in Beat
         /\ task[w].at \in Nat /\ beat[w].at \in Nat
         /\ TaskInv(w) /\ BeatInv(w)
         /\ now \in Nat
         /\ faults \in 0..MaxFaults
         /\ task[w].pc # "idle" => task[w].at \in 0..now
         /\ task[w].lease # NoLease => task[w].lease \in leases
  <1>1. /\ task \in [Workers -> Task] /\ beat \in [Workers -> Beat]
        /\ task[w] \in Task /\ beat[w] \in Beat
        /\ now \in Nat
        /\ faults \in 0..MaxFaults
    BY DEF WorkerInv, WorkerTypeOK, QueueInv, QueueTypeOK
  <1>2. RowsInv /\ TaskInv(w) /\ BeatInv(w)
    BY DEF WorkerInv, RowsInv, ThreadInv
  <1>3. task[w].at \in Nat /\ beat[w].at \in Nat
    BY <1>1 DEF Task, Beat
  <1>4. task[w].pc # "idle" => task[w].at \in 0..now
    BY <1>1, <1>2, <1>3 DEF TaskInv
  <1>5. task[w].lease # NoLease => task[w].lease \in leases
    BY <1>2 DEF TaskInv, Held
  <1> QED
    BY <1>1, <1>2, <1>3, <1>4, <1>5

\* A fault stays within the bound.
LEMMA FaultType ==
  ASSUME WorkerInv, Fault
  PROVE  faults' \in 0..MaxFaults
  BY WorkerAssumption DEF WorkerInv, WorkerTypeOK, Fault

\* A step of the threads alone.
LEMMA LocalKeeps ==
  ASSUME WorkerInv, UNCHANGED queueVars
  PROVE  RowsKeepInv /\ \A l \in leases : Kept(l)
  BY QuietKeeps DEF QuietStep, UnleasedStep, WorkerInv, RowsInv

\* The transaction a worker calls for is one the queue offers: under a lease it
\* was given, with a clock reading of the past, and a failure is committed only
\* after the last attempt.
LEMMA CallIsQuiet ==
  ASSUME WorkerInv, NEW w \in Workers, CallApplied(w)
  PROVE  QuietStep
  <1>1. /\ TaskInv(w)
        /\ task[w].pc # "idle" => task[w].at \in 0..now
        /\ task[w].lease # NoLease => task[w].lease \in leases
    BY ThreadFacts
  <1>2. task[w].pc \in {"missing", "retry", "commit"}
    BY DEF CallApplied
  <1>3. task[w].lease \in leases /\ task[w].at \in 0..now
    BY <1>1, <1>2 DEF TaskInv
  <1>4. CASE Fail(w, task[w].lease, task[w].at, "run-not-found", FALSE, 0)
    BY <1>3, <1>4 DEF QuietStep
  <1>5. CASE /\ task[w].pc = "retry"
             /\ Fail(w, task[w].lease, task[w].at, task[w].verdict, TRUE, RetryDelay)
    <2>1. task[w].verdict \in FailureAliases \cup {"run-not-found"}
      BY <1>1, <1>5 DEF TaskInv
    <2> QED
      BY <1>3, <1>5, <2>1 DEF QuietStep
  <1>6. CASE CommitLeasedResult(w, task[w].lease, task[w].at, "completed", "none")
    BY <1>3, <1>6 DEF QuietStep
  <1>7. CASE /\ task[w].pc = "commit" /\ task[w].verdict # "completed"
             /\ CommitLeasedResult(w, task[w].lease, task[w].at, "failed",
                                   task[w].verdict)
    <2>1. task[w].verdict \in FailureAliases /\ task[w].lease.final
      BY <1>1, <1>7 DEF TaskInv
    <2> QED
      BY <1>3, <1>7, <2>1 DEF QuietStep
  <1> QED
    BY <1>4, <1>5, <1>6, <1>7 DEF CallApplied

(* Reading the clock for a claim preserves the invariant. *)
LEMMA BeginClaimKeepsInv ==
  ASSUME WorkerInv, NEW w \in Workers, BeginClaim(w)
  PROVE  WorkerInv'
  <1> DEFINE nt == [task[w] EXCEPT !.pc = "claim", !.at = now]
  <1>1. /\ task \in [Workers -> Task] /\ beat \in [Workers -> Beat]
        /\ task[w] \in Task /\ beat[w] \in Beat
        /\ TaskInv(w) /\ BeatInv(w)
        /\ now \in Nat /\ faults \in 0..MaxFaults
    BY ThreadFacts
  <1>2. RowsKeepInv /\ \A l \in leases : Kept(l)
    BY LocalKeeps DEF BeginClaim
  <1>3. /\ nt \in Task
        /\ nt.pc = "claim" /\ nt.at = now /\ nt.lease = task[w].lease
    BY <1>1 DEF Task, Calling
  <1>4. /\ task' = [task EXCEPT ![w] = nt]
        /\ beat' = [beat EXCEPT ![w] = beat[w]]
        /\ UNCHANGED <<now, leases, jobs, zombies, faults>>
    BY <1>1 DEF BeginClaim, queueVars
  <1>5. task'[w] = nt /\ beat'[w] = beat[w] /\ task[w].pc = "idle"
    BY <1>1, <1>4 DEF BeginClaim
  <1> HIDE DEF nt
  <1>6. task[w].lease = NoLease /\ beat[w].state = "off" /\ ~beat[w].lost
    BY <1>1, <1>5 DEF TaskInv, BeatInv
  <1>7. TaskInv(w)'
    BY <1>1, <1>3, <1>4, <1>5, <1>6 DEF TaskInv
  <1>8. BeatInv(w)'
    BY <1>5, <1>6 DEF BeatInv
  <1> QED
    BY <1>1, <1>2, <1>3, <1>4, <1>7, <1>8, ThreadStep

\* claim hands w a lease that no thread has.
LEMMA ClaimJobKeepsInv ==
  ASSUME WorkerInv, NEW w \in Workers, ClaimJob(w)
  PROVE  WorkerInv'
  <1>1. /\ RowsInv
        /\ task \in [Workers -> Task] /\ beat \in [Workers -> Beat]
        /\ task[w] \in Task /\ beat[w] \in Beat
        /\ task[w].at \in Nat
        /\ TaskInv(w) /\ BeatInv(w)
        /\ now \in Nat /\ faults \in 0..MaxFaults
        /\ task[w].at \in 0..now
    BY ThreadFacts DEF ClaimJob
  <1>2. PICK q \in Runs, locked \in SUBSET Runs :
          /\ Claim(w, task[w].at, q, locked)
          /\ \/ /\ task' = [task EXCEPT ![w] =
                             [@ EXCEPT !.pc = "get", !.lease = NewLease(q)]]
                /\ UNCHANGED <<beat, zombies, faults>>
             \/ EndAndWait(w) /\ AnswerLost
    BY DEF ClaimJob, MayBeLocked
  <1>3. RowsKeepInv /\ \A l \in leases : Kept(l)
    BY <1>1, <1>2, ClaimKeeps
  <1>4. CASE EndAndWait(w) /\ AnswerLost
    BY <1>3, <1>4, EndKeeps, FaultType DEF AnswerLost
  <1>5. CASE /\ task' = [task EXCEPT ![w] =
                           [@ EXCEPT !.pc = "get", !.lease = NewLease(q)]]
             /\ UNCHANGED <<beat, zombies, faults>>
    <2> DEFINE nt == [task[w] EXCEPT !.pc = "get", !.lease = NewLease(q)]
    <2>1. /\ jobs'[q].owner = w
          /\ NewLease(q) \in Lease /\ NewLease(q) \in leases'
          /\ NewLease(q).run = q
          /\ NewLease(q) \notin leases
      BY <1>1, <1>2, ClaimRows DEF RowsInv
    <2>2. /\ nt \in Task
          /\ nt.pc = "get" /\ nt.lease = NewLease(q) /\ nt.at = task[w].at
      BY <1>1, <2>1 DEF Task
    <2>3. task'[w] = nt /\ \A v \in Workers : v # w => task'[v] = task[v]
      BY <1>1, <1>5
    <2>4. WorkerTypeOK'
      BY <1>1, <1>5, <2>2 DEF WorkerTypeOK, WorkerInv
    <2> HIDE DEF nt
    <2>5. now' = now
      BY <1>2 DEF Claim
    <2>6. NewLease(q) # NoLease
      BY <2>1, WorkerAssumption
    <2>7. TaskInv(w)'
      BY <1>1, <2>1, <2>2, <2>3, <2>5, <2>6 DEF TaskInv, Held
    <2>8. task[w].pc = "claim"
      BY DEF ClaimJob
    <2>9. BeatInv(w)'
      BY <1>1, <1>5, <2>8 DEF BeatInv
    <2>10. \A v \in Workers : task[v].lease # NoLease => task[v].lease \in leases
      BY DEF WorkerInv, ThreadInv, TaskInv, Held
    <2>11. ASSUME NEW v \in Workers PROVE TaskInv(v)' /\ BeatInv(v)'
      <3>1. CASE v = w
        BY <2>7, <2>9, <3>1
      <3>2. CASE v # w
        BY <1>1, <1>3, <1>5, <2>3, <2>5, <2>10, <3>2, OthersKeep
      <3> QED
        BY <3>1, <3>2
    <2>12. ASSUME NEW z \in zombies' PROVE ZombieInv(z)'
      <3>1. z \in zombies /\ z.lease \in leases
        BY <1>5 DEF WorkerInv, ThreadInv, ZombieInv, Held
      <3> QED
        BY <1>1, <1>3, <2>5, <3>1, ZombiesKeep
    <2>13. OneThreadPerLease'
      <3>1. /\ \A u, v \in Workers :
                 task[u].lease = task[v].lease => u = v \/ task[v].lease = NoLease
            /\ \A v \in Workers : \A z \in zombies : z.lease # task[v].lease
            /\ \A y, z \in zombies : y.lease = z.lease => y = z
        BY DEF WorkerInv, ThreadInv, OneThreadPerLease
      <3>2. \A z \in zombies : z.lease \in leases
        BY DEF WorkerInv, ThreadInv, ZombieInv, Held
      <3>3. /\ task'[w].lease = NewLease(q)
            /\ \A v \in Workers : v # w => task'[v].lease = task[v].lease
        BY <2>2, <2>3
      <3>4. \A v \in Workers : v # w => task[v].lease # NewLease(q)
        BY <2>1, <2>6, <2>10
      <3> QED
        BY <1>5, <2>1, <3>1, <3>2, <3>3, <3>4 DEF OneThreadPerLease
    <2> QED
      BY <1>3, <2>4, <2>11, <2>12, <2>13 DEF WorkerInv, ThreadInv, RowsKeepInv
  <1> QED
    BY <1>2, <1>4, <1>5

(* A claim that returns None preserves the invariant. *)
LEMMA ClaimNothingKeepsInv ==
  ASSUME WorkerInv, NEW w \in Workers, ClaimNothing(w)
  PROVE  WorkerInv'
  <1>1. /\ RowsInv
        /\ faults \in 0..MaxFaults
        /\ task[w].at \in 0..now
    BY ThreadFacts DEF ClaimNothing
  <1>2. PICK locked \in SUBSET Runs : ClaimNone(task[w].at, locked)
    BY DEF ClaimNothing, MayBeLocked
  <1>3. RowsKeepInv /\ \A l \in leases : Kept(l)
    BY <1>1, <1>2, ClaimNoneKeeps
  <1> QED
    BY <1>1, <1>3, EndKeeps DEF ClaimNothing

\* The steps after which run_one is over.
LEMMA EndingKeepsInv ==
  ASSUME WorkerInv, NEW w \in Workers,
         \/ JoinLost(w) \/ Finish(w) \/ FinishRejected(w)
         \/ CallFails(w) \/ Crash(w)
  PROVE  WorkerInv'
  <1>1. RowsInv /\ faults \in 0..MaxFaults
    BY ThreadFacts
  <1>2. CASE JoinLost(w) \/ FinishRejected(w)
    BY <1>1, <1>2, LocalKeeps, EndKeeps DEF JoinLost, FinishRejected
  <1>3. CASE CallFails(w)
    BY <1>3, LocalKeeps, EndKeeps, FaultType DEF CallFails
  <1>4. CASE Crash(w)
    BY <1>4, LocalKeeps, EndKeeps, FaultType DEF Crash
  <1>5. CASE Finish(w)
    <2>1. RowsKeepInv /\ \A l \in leases : Kept(l)
      BY <1>1, <1>5, CallIsQuiet, QuietKeeps DEF Finish
    <2>2. zombies' \subseteq zombies /\ faults' \in 0..MaxFaults
      BY <1>1, <1>5, FaultType DEF Finish, AnswerLost
    <2> QED
      BY <1>5, <2>1, <2>2, EndKeeps DEF Finish
  <1> QED
    BY <1>2, <1>3, <1>4, <1>5

\* repository.get: the heartbeat starts, or the run is missing.
LEMMA GetKeepsInv ==
  ASSUME WorkerInv, NEW w \in Workers, GetRun(w) \/ GetMissing(w)
  PROVE  WorkerInv'
  <1>1. /\ task \in [Workers -> Task] /\ beat \in [Workers -> Beat]
        /\ task[w] \in Task /\ beat[w] \in Beat
        /\ TaskInv(w) /\ BeatInv(w)
        /\ now \in Nat /\ faults \in 0..MaxFaults
    BY ThreadFacts
  <1>2. RowsKeepInv /\ \A l \in leases : Kept(l)
    BY LocalKeeps DEF GetRun, GetMissing
  <1>3. PICK pc \in {"execute", "missing"}, nb \in Beat :
          /\ task' = [task EXCEPT ![w] = [task[w] EXCEPT !.pc = pc, !.at = now]]
          /\ beat' = [beat EXCEPT ![w] = nb]
          /\ nb.state # "sending" /\ ~nb.lost
          /\ nb.state = "off" \/ pc = "execute"
          /\ UNCHANGED <<queueVars, zombies, faults>>
    <2>1. CASE GetRun(w)
      <3> DEFINE nb == [NoBeat EXCEPT !.state = "waiting", !.at = now]
      <3>1. nb \in Beat /\ nb.state = "waiting" /\ ~nb.lost
        BY <1>1 DEF NoBeat, Beat
      <3> QED
        BY <2>1, <3>1 DEF GetRun
    <2>2. CASE GetMissing(w)
      <3>1. beat[w].state = "off" /\ ~beat[w].lost
        BY <1>1, <2>2 DEF GetMissing, BeatInv
      <3> QED
        BY <1>1, <2>2, <3>1 DEF GetMissing
    <2> QED
      BY <2>1, <2>2
  <1> DEFINE nt == [task[w] EXCEPT !.pc = pc, !.at = now]
  <1>4. nt \in Task /\ nt.pc = pc /\ nt.at = now /\ nt.lease = task[w].lease
    BY <1>1 DEF Task, Calling
  <1>5. task'[w] = nt /\ beat'[w] = nb
    BY <1>1, <1>3
  <1>6. task' = [task EXCEPT ![w] = nt]
    BY <1>3
  <1> HIDE DEF nt
  <1>7. task[w].lease # NoLease /\ Held(task[w].lease, w)
    BY <1>1 DEF TaskInv, GetRun, GetMissing
  <1>8. Held(task[w].lease, w)'
    BY <1>3, <1>5, <1>4, <1>7 DEF Held, queueVars
  <1>9. TaskInv(w)'
    BY <1>1, <1>3, <1>4, <1>5, <1>7, <1>8 DEF TaskInv, queueVars
  <1>10. BeatInv(w)'
    BY <1>3, <1>4, <1>5 DEF BeatInv
  <1> QED
    BY <1>1, <1>2, <1>3, <1>4, <1>6, <1>9, <1>10, ThreadStep

\* The harness ends: a verdict, and the heartbeat is told to stop.
LEMMA ExecuteKeepsInv ==
  ASSUME WorkerInv, NEW w \in Workers, Execute(w)
  PROVE  WorkerInv'
  <1>1. /\ task \in [Workers -> Task] /\ beat \in [Workers -> Beat]
        /\ task[w] \in Task /\ beat[w] \in Beat
        /\ TaskInv(w) /\ BeatInv(w)
        /\ now \in Nat /\ faults \in 0..MaxFaults
    BY ThreadFacts
  <1>2. RowsKeepInv /\ \A l \in leases : Kept(l)
    BY LocalKeeps DEF Execute
  <1>3. PICK v \in {"completed"} \cup FailureAliases :
          task' = [task EXCEPT ![w] = [task[w] EXCEPT !.pc = "join", !.verdict = v]]
    BY DEF Execute
  <1> DEFINE nt == [task[w] EXCEPT !.pc = "join", !.verdict = v]
  <1> DEFINE nb == [beat[w] EXCEPT !.state = IF beat[w].state = "waiting" THEN "off"
                                                              ELSE beat[w].state]
  <1>4. /\ nt \in Task
        /\ nt.pc = "join" /\ nt.verdict = v
        /\ nt.at = task[w].at /\ nt.lease = task[w].lease
    BY <1>1 DEF Task
  <1>5. /\ nb \in Beat
        /\ nb.state = "sending" => beat[w].state = "sending"
        /\ nb.at = beat[w].at
    BY <1>1 DEF Beat
  <1>6. task' = [task EXCEPT ![w] = nt]
    BY <1>3
  <1>7. /\ beat' = [beat EXCEPT ![w] = nb]
        /\ UNCHANGED <<queueVars, zombies, faults>>
    BY <1>1 DEF Execute
  <1> HIDE DEF nt, nb
  <1>8. task'[w] = nt /\ beat'[w] = nb
    BY <1>1, <1>6, <1>7
  <1>9. task[w].pc = "execute" /\ task[w].lease # NoLease
    BY <1>1 DEF TaskInv, Execute
  <1>10. TaskInv(w)'
    BY <1>1, <1>4, <1>7, <1>8, <1>9 DEF TaskInv, Held, queueVars
  <1>11. BeatInv(w)'
    BY <1>1, <1>4, <1>5, <1>7, <1>8 DEF BeatInv, NotAhead, queueVars
  <1> QED
    BY <1>1, <1>2, <1>4, <1>5, <1>6, <1>7, <1>10, <1>11, ThreadStep

\* The heartbeat kept the lease: the result is to be recorded.
LEMMA JoinKeptKeepsInv ==
  ASSUME WorkerInv, NEW w \in Workers, JoinKept(w)
  PROVE  WorkerInv'
  <1>1. /\ task \in [Workers -> Task] /\ beat \in [Workers -> Beat]
        /\ task[w] \in Task /\ beat[w] \in Beat
        /\ TaskInv(w) /\ BeatInv(w)
        /\ now \in Nat /\ faults \in 0..MaxFaults
    BY ThreadFacts
  <1>2. RowsKeepInv /\ \A l \in leases : Kept(l)
    BY LocalKeeps DEF JoinKept
  <1>3. PICK pc \in {"commit", "retry"} :
          /\ pc = Recorded(w)
          /\ pc = "retry" => task[w].verdict # "completed"
          /\ pc = "commit" => task[w].verdict = "completed" \/ task[w].lease.final
    BY DEF Recorded
  <1> DEFINE nt == [task[w] EXCEPT !.pc = pc, !.at = now]
  <1>4. /\ nt \in Task
        /\ nt.pc = pc /\ nt.verdict = task[w].verdict
        /\ nt.at = now /\ nt.lease = task[w].lease
    BY <1>1 DEF Task, Calling
  <1>5. /\ task' = [task EXCEPT ![w] = nt]
        /\ beat' = [beat EXCEPT ![w] = beat[w]]
        /\ UNCHANGED <<queueVars, zombies, faults>>
    BY <1>1, <1>3 DEF JoinKept
  <1> HIDE DEF nt
  <1>6. task'[w] = nt /\ beat'[w] = beat[w]
    BY <1>1, <1>5
  <1>7. /\ task[w].pc = "join" /\ task[w].lease # NoLease
        /\ beat[w].state = "off" /\ ~beat[w].lost
    BY <1>1 DEF TaskInv, JoinKept
  <1>8. TaskInv(w)'
    BY <1>1, <1>3, <1>4, <1>5, <1>6, <1>7 DEF TaskInv, Held, queueVars
  <1>9. BeatInv(w)'
    BY <1>6, <1>7 DEF BeatInv
  <1> QED
    BY <1>1, <1>2, <1>4, <1>5, <1>8, <1>9, ThreadStep

\* The join times out: the heartbeat stays in flight, alone with the lease.
LEMMA JoinTimeoutKeepsInv ==
  ASSUME WorkerInv, NEW w \in Workers, JoinTimeout(w)
  PROVE  WorkerInv'
  <1> DEFINE z0 == [worker |-> w, lease |-> task[w].lease, at |-> beat[w].at]
  <1>1. /\ RowsInv
        /\ task \in [Workers -> Task] /\ beat \in [Workers -> Beat]
        /\ task[w] \in Task /\ beat[w] \in Beat
        /\ task[w].at \in Nat /\ beat[w].at \in Nat
        /\ TaskInv(w) /\ BeatInv(w)
        /\ now \in Nat
    BY ThreadFacts
  <1>2. RowsKeepInv /\ \A l \in leases : Kept(l)
    BY LocalKeeps DEF JoinTimeout
  <1>3. /\ task[w].lease # NoLease
        /\ task[w].lease \in Lease
        /\ Held(task[w].lease, w)
        /\ beat[w].at <= now /\ NotAhead(task[w].lease, beat[w].at)
    BY <1>1 DEF JoinTimeout, TaskInv, BeatInv, Task
  <1>4. z0.worker = w /\ z0.lease = task[w].lease /\ z0.at = beat[w].at
    OBVIOUS
  <1>5. z0 \in [worker : Workers, lease : Lease, at : Nat]
    BY <1>1, <1>3
  <1>6. zombies' = zombies \cup {z0} /\ faults' \in 0..MaxFaults
        /\ UNCHANGED queueVars
    BY FaultType DEF JoinTimeout
  <1> HIDE DEF z0
  <1>7. PICK nt \in Task : /\ task' = [task EXCEPT ![w] = nt]
                           /\ nt.lease = NoLease /\ nt.pc = "idle"
    <2> DEFINE a == IF Timely THEN now + 1 ELSE 0
    <2> DEFINE idle == [IdleTask EXCEPT !.at = a]
    <2>1. a \in Nat
      BY <1>1
    <2>2. task' = [task EXCEPT ![w] = idle]
      BY DEF JoinTimeout, EndAndWait
    <2> HIDE DEF a
    <2>3. idle \in Task /\ idle.lease = NoLease /\ idle.pc = "idle"
      BY <2>1 DEF IdleTask, Task
    <2> QED
      BY <2>2, <2>3
  <1>8. beat' = [beat EXCEPT ![w] = NoBeat]
    BY DEF JoinTimeout, EndAndWait
  <1>9. NoBeat \in Beat /\ NoBeat.state = "off" /\ ~NoBeat.lost
    BY DEF NoBeat, Beat
  <1>10. WorkerTypeOK'
    BY <1>1, <1>5, <1>6, <1>7, <1>8, <1>9 DEF WorkerTypeOK, WorkerInv
  <1>11. /\ task'[w] = nt /\ beat'[w] = NoBeat
         /\ \A v \in Workers : v # w => task'[v] = task[v] /\ beat'[v] = beat[v]
    BY <1>1, <1>7, <1>8
  <1>12. TaskInv(w)' /\ BeatInv(w)'
    BY <1>7, <1>9, <1>11 DEF TaskInv, BeatInv
  <1>13. now' = now
    BY <1>6 DEF queueVars
  <1>14. \A v \in Workers : task[v].lease # NoLease => task[v].lease \in leases
    BY DEF WorkerInv, ThreadInv, TaskInv, Held
  <1>15. ASSUME NEW v \in Workers PROVE TaskInv(v)' /\ BeatInv(v)'
    <2>1. CASE v = w
      BY <1>12, <2>1
    <2>2. CASE v # w
      BY <1>1, <1>2, <1>11, <1>13, <1>14, <2>2, OthersKeep
    <2> QED
      BY <2>1, <2>2
  <1>16. ASSUME NEW z \in zombies' PROVE ZombieInv(z)'
    <2>1. CASE z = z0
      BY <1>3, <1>4, <1>6, <2>1 DEF ZombieInv, Held, NotAhead, queueVars
    <2>2. CASE z # z0
      <3>1. z \in zombies /\ z.lease \in leases
        BY <1>6, <2>2 DEF WorkerInv, ThreadInv, ZombieInv, Held
      <3> QED
        BY <1>1, <1>2, <1>13, <3>1, ZombiesKeep
    <2> QED
      BY <2>1, <2>2
  <1>17. OneThreadPerLease'
    <2>1. /\ \A u, v \in Workers :
               task[u].lease = task[v].lease => u = v \/ task[v].lease = NoLease
          /\ \A v \in Workers : \A z \in zombies : z.lease # task[v].lease
          /\ \A y, z \in zombies : y.lease = z.lease => y = z
      BY DEF WorkerInv, ThreadInv, OneThreadPerLease
    <2>2. \A z \in zombies : z.lease # NoLease
      BY WorkerAssumption DEF WorkerInv, WorkerTypeOK
    <2>3. /\ task'[w].lease = NoLease
          /\ \A v \in Workers : v # w => task'[v].lease = task[v].lease
      BY <1>7, <1>11
    <2> QED
      BY <1>3, <1>4, <1>6, <2>1, <2>2, <2>3 DEF OneThreadPerLease
  <1> QED
    BY <1>2, <1>10, <1>15, <1>16, <1>17 DEF WorkerInv, ThreadInv, RowsKeepInv

-----------------------------------------------------------------------------
(* The steps of _LeaseHeartbeat._run *)

\* A heartbeat is due: it reads the clock, so it cannot shorten the lease.
LEMMA BeginBeatKeepsInv ==
  ASSUME WorkerInv, NEW w \in Workers, BeginBeat(w)
  PROVE  WorkerInv'
  <1>1. /\ task \in [Workers -> Task] /\ beat \in [Workers -> Beat]
        /\ task[w] \in Task /\ beat[w] \in Beat
        /\ TaskInv(w) /\ BeatInv(w)
        /\ task[w].lease # NoLease => task[w].lease \in leases
        /\ now \in Nat /\ faults \in 0..MaxFaults
    BY ThreadFacts
  <1>2. RowsKeepInv /\ \A l \in leases : Kept(l)
    BY LocalKeeps DEF BeginBeat
  <1> DEFINE nb == [beat[w] EXCEPT !.state = "sending", !.at = now]
  <1>3. nb \in Beat /\ nb.at = now
    BY <1>1 DEF Beat
  <1>4. /\ beat' = [beat EXCEPT ![w] = nb]
        /\ task' = [task EXCEPT ![w] = task[w]]
        /\ UNCHANGED <<queueVars, zombies, faults>>
    BY <1>1 DEF BeginBeat
  <1> HIDE DEF nb
  <1>5. task'[w] = task[w] /\ beat'[w] = nb
    BY <1>1, <1>4
  <1>6. task[w].pc \in {"execute", "join"} /\ task[w].lease # NoLease
    BY <1>1 DEF BeginBeat, BeatDue, BeatInv, TaskInv
  <1>7. task[w].lease.run \in Runs
    BY <1>1, <1>6 DEF WorkerInv, QueueInv, QueueTypeOK, Lease
  <1>8. jobs[task[w].lease.run].expires <= now + LeaseSeconds
    BY <1>7 DEF WorkerInv, LeasesAreShort
  <1>9. TaskInv(w)'
    BY <1>1, <1>4, <1>5 DEF TaskInv, Held, queueVars
  <1>10. BeatInv(w)'
    BY <1>1, <1>3, <1>4, <1>5, <1>6, <1>8 DEF BeatInv, NotAhead, queueVars
  <1> QED
    BY <1>1, <1>2, <1>3, <1>4, <1>9, <1>10, ThreadStep

\* What a heartbeat of w does to the rows.
LEMMA BeatSent ==
  ASSUME WorkerInv, NEW w \in Workers, beat[w].state = "sending",
         Heartbeat(w, task[w].lease, beat[w].at) \/ UNCHANGED queueVars,
         UNCHANGED task
  PROVE  /\ RowsKeepInv
         /\ \A l \in leases : l # task[w].lease => Kept(l)
         /\ Held(task[w].lease, w)'
         /\ UNCHANGED now
  <1>1. /\ RowsInv
        /\ TaskInv(w) /\ BeatInv(w)
        /\ beat[w].at \in Nat /\ now \in Nat
    BY ThreadFacts
  <1>2. /\ task[w].lease \in leases
        /\ Held(task[w].lease, w)
        /\ beat[w].at \in 0..now
    BY <1>1 DEF BeatInv, TaskInv, Held
  <1>3. CASE UNCHANGED queueVars
    <2>1. RowsKeepInv /\ \A l \in leases : Kept(l)
      BY <1>3, LocalKeeps
    <2> QED
      BY <1>2, <1>3, <2>1 DEF queueVars, Held
  <1>4. CASE Heartbeat(w, task[w].lease, beat[w].at)
    <2>1. PICK h \in leases : h = task[w].lease
      BY <1>2
    <2>2. PICK t \in 0..now : t = beat[w].at
      BY <1>2
    <2>3. Heartbeat(w, h, t)
      BY <1>4, <2>1, <2>2
    <2>4. /\ RowsKeepInv
          /\ \A l \in leases : l # h => Kept(l)
          /\ jobs'[h.run].owner = jobs[h.run].owner
          /\ UNCHANGED <<now, leases>>
      BY <1>1, <2>3, HeartbeatKeeps
    <2>5. jobs[h.run].owner = w
      BY <2>3 DEF Heartbeat, ActiveLease
    <2>6. Held(h, w)'
      BY <2>4, <2>5 DEF Held
    <2> QED
      BY <2>1, <2>4, <2>6 DEF Held
  <1> QED
    BY <1>3, <1>4

\* The heartbeat ends: it keeps the lease, loses it, or fails.
LEMMA BeatEndsKeepsInv ==
  ASSUME WorkerInv, NEW w \in Workers,
         BeatKept(w) \/ BeatRejected(w) \/ BeatFails(w)
  PROVE  WorkerInv'
  <1>1. /\ task \in [Workers -> Task] /\ beat \in [Workers -> Beat]
        /\ task[w] \in Task /\ beat[w] \in Beat
        /\ TaskInv(w) /\ BeatInv(w)
        /\ now \in Nat /\ faults \in 0..MaxFaults
    BY ThreadFacts
  <1>2. /\ beat[w].state = "sending"
        /\ Heartbeat(w, task[w].lease, beat[w].at) \/ UNCHANGED queueVars
        /\ UNCHANGED <<task, zombies>>
        /\ faults' \in 0..MaxFaults
    BY <1>1, FaultType DEF BeatKept, BeatRejected, BeatFails
  <1>3. /\ RowsKeepInv
        /\ \A l \in leases : l # task[w].lease => Kept(l)
        /\ Held(task[w].lease, w)'
        /\ UNCHANGED now
    BY <1>2, BeatSent
  <1>4. PICK nb \in Beat : /\ beat' = [beat EXCEPT ![w] = nb]
                           /\ nb.state # "sending"
    <2>1. CASE BeatKept(w)
      <3>1. PICK s \in {"off", "waiting"} :
              beat' = [beat EXCEPT ![w] = [beat[w] EXCEPT !.state = s, !.at = now]]
        BY <2>1 DEF BeatKept
      <3>2. [beat[w] EXCEPT !.state = s, !.at = now] \in Beat
        BY <1>1 DEF Beat
      <3>3. [beat[w] EXCEPT !.state = s, !.at = now].state = s
        BY <1>1 DEF Beat
      <3> QED
        BY <3>1, <3>2, <3>3
    <2>2. CASE BeatRejected(w) \/ BeatFails(w)
      <3> DEFINE nb == [beat[w] EXCEPT !.state = "off", !.lost = TRUE]
      <3>1. nb \in Beat /\ nb.state = "off"
        BY <1>1 DEF Beat
      <3>2. beat' = [beat EXCEPT ![w] = nb]
        BY <2>2 DEF BeatRejected, BeatFails, BeatIsLost
      <3> QED
        BY <3>1, <3>2
    <2> QED
      BY <2>1, <2>2
  <1>5. task' = [task EXCEPT ![w] = task[w]]
    BY <1>1, <1>2
  <1>6. task'[w] = task[w] /\ beat'[w] = nb
    BY <1>1, <1>2, <1>4
  <1>7. task[w].pc \in {"execute", "join"}
    BY <1>1, <1>2 DEF BeatInv
  <1>8. TaskInv(w)'
    BY <1>1, <1>3, <1>6 DEF TaskInv
  <1>9. BeatInv(w)'
    BY <1>4, <1>6, <1>7 DEF BeatInv
  <1> QED
    BY <1>1, <1>2, <1>3, <1>4, <1>5, <1>8, <1>9, ThreadStep

\* A step of nobody's threads: it ends zombies at most.
LEMMA NoThreadMoves ==
  ASSUME WorkerInv, RowsKeepInv, UNCHANGED <<task, beat, faults>>,
         zombies' \subseteq zombies,
         \A w \in Workers : task[w].lease # NoLease => Kept(task[w].lease),
         \A z \in zombies' : Kept(z.lease)
  PROVE  WorkerInv'
  <1>1. now' \in Nat /\ now' >= now
    BY DEF RowsKeepInv, QueueInv, QueueTypeOK
  <1>2. WorkerTypeOK'
    BY DEF WorkerInv, WorkerTypeOK
  <1>3. \A w \in Workers : TaskInv(w)' /\ BeatInv(w)'
    BY <1>1, OthersKeep
  <1>4. \A z \in zombies' : ZombieInv(z)'
    BY <1>1, ZombiesKeep
  <1>5. OneThreadPerLease'
    BY DEF WorkerInv, ThreadInv, OneThreadPerLease
  <1> QED
    BY <1>2, <1>3, <1>4, <1>5 DEF WorkerInv, ThreadInv, RowsKeepInv

\* A late heartbeat may only extend the row of its own lease, which no thread
\* has any more.
LEMMA ZombieBeatKeepsInv ==
  ASSUME WorkerInv, NEW z \in zombies, ZombieBeat(z)
  PROVE  WorkerInv'
  <1>1. RowsInv /\ now \in Nat
    BY DEF WorkerInv, RowsInv, QueueInv, QueueTypeOK
  <1>2. z.lease \in leases /\ z.at \in 0..now
    BY <1>1 DEF WorkerInv, WorkerTypeOK, ThreadInv, ZombieInv, Held
  <1>3. RowsKeepInv /\ \A l \in leases : l # z.lease => Kept(l)
    <2>1. CASE UNCHANGED queueVars
      BY <2>1, LocalKeeps
    <2>2. CASE Heartbeat(z.worker, z.lease, z.at)
      BY <1>1, <1>2, <2>2, HeartbeatKeeps
    <2> QED
      BY <2>1, <2>2 DEF ZombieBeat
  <1>4. /\ zombies' = zombies \ {z}
        /\ UNCHANGED <<task, beat, faults>>
    BY DEF ZombieBeat
  <1>5. /\ \A w \in Workers : task[w].lease # z.lease
        /\ \A y \in zombies : y.lease = z.lease => y = z
    BY DEF WorkerInv, ThreadInv, OneThreadPerLease
  <1>6. \A w \in Workers : task[w].lease # NoLease => task[w].lease \in leases
    BY DEF WorkerInv, ThreadInv, TaskInv, Held
  <1>7. \A y \in zombies : y.lease \in leases
    BY DEF WorkerInv, ThreadInv, ZombieInv, Held
  <1>8. /\ \A w \in Workers : task[w].lease # NoLease => Kept(task[w].lease)
        /\ \A y \in zombies' : Kept(y.lease)
    BY <1>3, <1>4, <1>5, <1>6, <1>7
  <1> QED
    BY <1>3, <1>4, <1>8, NoThreadMoves

\* The API and the clock.
LEMMA OutsideKeepsInv ==
  ASSUME WorkerInv, QuietStep, UNCHANGED workerVars
  PROVE  WorkerInv'
  <1>1. RowsKeepInv /\ \A l \in leases : Kept(l)
    BY QuietKeeps DEF WorkerInv, RowsInv
  <1>2. \A w \in Workers : task[w].lease # NoLease => task[w].lease \in leases
    BY DEF WorkerInv, ThreadInv, TaskInv, Held
  <1>3. \A z \in zombies : z.lease \in leases
    BY DEF WorkerInv, ThreadInv, ZombieInv, Held
  <1> QED
    BY <1>1, <1>2, <1>3, NoThreadMoves DEF workerVars

-----------------------------------------------------------------------------
(* The invariant *)

LEMMA InitEstablishesWorkerInv == Init => WorkerInv
  <1> SUFFICES ASSUME Init PROVE WorkerInv
    OBVIOUS
  <1>1. QueueInit
    BY DEF Init
  <1>2. QueueInv
    BY <1>1, InitEstablishesInv
  <1>3. /\ IdleTask \in Task
        /\ IdleTask.pc = "idle" /\ IdleTask.lease = NoLease
    BY DEF IdleTask, Task
  <1>4. NoBeat \in Beat /\ NoBeat.state = "off" /\ ~NoBeat.lost
    BY DEF NoBeat, Beat
  <1>5. \A w \in Workers : task[w] = IdleTask /\ beat[w] = NoBeat
    BY DEF Init
  <1>6. WorkerTypeOK
    BY <1>3, <1>4, WorkerAssumption DEF Init, WorkerTypeOK
  <1>7. \A w \in Workers : TaskInv(w) /\ BeatInv(w)
    BY <1>3, <1>4, <1>5 DEF TaskInv, BeatInv
  <1>8. ThreadInv
    BY <1>3, <1>5, <1>7 DEF ThreadInv, OneThreadPerLease, Init
  <1>9. \A r \in Runs : jobs[r] = NoJob /\ runs[r] = NoRun
    BY <1>1 DEF QueueInit
  <1>10. LeasesAreShort
    BY <1>1, <1>9, QueueAssumption DEF LeasesAreShort, QueueInit, NoJob
  <1>11. ResultsCommitTogether
    BY <1>9 DEF ResultsCommitTogether, NoJob, NoRun
  <1> QED
    BY <1>2, <1>6, <1>8, <1>10, <1>11 DEF WorkerInv

\* Every step of a thread, of the API, of the clock, and every fault, keeps
\* WorkerInv.
LEMMA StepKeepsWorkerInv == WorkerInv /\ [Next]_vars => WorkerInv'
  <1> SUFFICES ASSUME WorkerInv, [Next]_vars PROVE WorkerInv'
    OBVIOUS
  <1>1. CASE UNCHANGED vars
    BY <1>1, OutsideKeepsInv DEF vars, QuietStep, UnleasedStep
  <1>2. CASE TimePasses
    BY <1>2, OutsideKeepsInv DEF TimePasses, QuietStep, UnleasedStep
  <1>3. ASSUME NEW r \in Runs, Submit(r) \/ EnqueueOrphan(r) PROVE WorkerInv'
    BY <1>3, OutsideKeepsInv DEF Submit, EnqueueOrphan, QuietStep, UnleasedStep
  <1>4. ASSUME NEW w \in Workers, WorkerStep(w) PROVE WorkerInv'
    BY <1>4, BeginClaimKeepsInv, ClaimJobKeepsInv, ClaimNothingKeepsInv,
       GetKeepsInv, ExecuteKeepsInv, JoinKeptKeepsInv, EndingKeepsInv
       DEF WorkerStep
  <1>5. ASSUME NEW w \in Workers, BeatStep(w) PROVE WorkerInv'
    BY <1>5, BeginBeatKeepsInv, BeatEndsKeepsInv DEF BeatStep
  <1>6. ASSUME NEW w \in Workers, FaultStep(w) PROVE WorkerInv'
    BY <1>6, JoinTimeoutKeepsInv, EndingKeepsInv, BeatEndsKeepsInv DEF FaultStep
  <1>7. ASSUME NEW z \in zombies, ZombieBeat(z) PROVE WorkerInv'
    BY <1>7, ZombieBeatKeepsInv
  <1> QED
    BY <1>1, <1>2, <1>3, <1>4, <1>5, <1>6, <1>7 DEF Next

\* The inductive invariant holds in every state of the workers and the queue.
THEOREM WorkerInvariance == Spec => []WorkerInv
  BY InitEstablishesWorkerInv, StepKeepsWorkerInv, PTL DEF Spec

\* The threads of every worker are where run_one and _LeaseHeartbeat._run can
\* be, and faults stay within their bound.
THEOREM WorkerTypeCorrect == Spec => []WorkerTypeOK
  <1>1. WorkerInv => WorkerTypeOK
    BY DEF WorkerInv
  <1> QED
    BY <1>1, WorkerInvariance, PTL

\* Whatever faults happen, a result of run_one is in both tables or in none,
\* and a failure is stored only after the last attempt.
THEOREM ResultsAreAtomic == Spec => []ResultsCommitTogether
  <1>1. WorkerInv => ResultsCommitTogether
    BY DEF WorkerInv
  <1> QED
    BY <1>1, WorkerInvariance, PTL

\* No two workers hold one lease, and a worker that is not the owner of its row
\* has been superseded.
THEOREM LeaseExclusion == Spec => []LeasesAreExclusive
  <1>1. WorkerInv => LeasesAreExclusive
    <2> SUFFICES ASSUME WorkerInv, NEW w \in Workers, task[w].lease # NoLease,
                        NEW l, l = task[w].lease
                 PROVE  /\ \A v \in Workers \ {w} : task[v].lease # l
                        /\ jobs[l.run].attempts >= l.attempt
                        /\ jobs[l.run].token = l.token =>
                             jobs[l.run].owner = w /\ jobs[l.run].attempts = l.attempt
      BY DEF LeasesAreExclusive
    <2>1. l \in leases /\ Held(l, w)
      BY DEF WorkerInv, ThreadInv, TaskInv, Held
    <2>2. l.run \in Runs /\ l \in Lease
      BY <2>1 DEF WorkerInv, QueueInv, QueueTypeOK, Lease
    <2>3. \A v \in Workers \ {w} : task[v].lease # l
      BY DEF WorkerInv, ThreadInv, OneThreadPerLease
    <2>4. jobs[l.run].attempts >= l.attempt
      <3>1. l.attempt \in 1..jobs[l.run].attempts
        BY <2>1, <2>2 DEF WorkerInv, QueueInv, AttemptsHandedOutOnce
      <3>2. jobs[l.run].attempts \in Nat /\ l.attempt \in Nat
        BY <2>2 DEF WorkerInv, QueueInv, QueueTypeOK, JobRow, Lease
      <3> QED
        BY <3>1, <3>2
    <2>5. ASSUME jobs[l.run].token = l.token
          PROVE  jobs[l.run].owner = w /\ jobs[l.run].attempts = l.attempt
      <3>1. jobs[l.run].state = "leased"
        BY <2>1, <2>5, TokenMeansLeased DEF WorkerInv
      <3>2. PICK m \in leases : /\ m.token = jobs[l.run].token
                                /\ m.attempt = jobs[l.run].attempts
        BY <2>2, <3>1 DEF WorkerInv, QueueInv, RowsFollowLeases
      <3>3. m = l
        BY <2>1, <2>5, <3>2 DEF WorkerInv, QueueInv, TokensAreUnique
      <3> QED
        BY <2>1, <2>5, <3>2, <3>3 DEF Held
    <2> QED
      BY <2>3, <2>4, <2>5
  <1> QED
    BY <1>1, WorkerInvariance, PTL

-----------------------------------------------------------------------------
(* The workers are clients of the queue *)

\* A heartbeat under way, of a worker's thread or one that outlived its stop.
SentHeartbeat(h, w, t) ==
  /\ h \in leases /\ w \in Workers /\ t \in 0..now
  /\ NotAhead(h, t)
  /\ Heartbeat(w, h, t)

\* Every step is a transaction the queue offers to arbitrary clients.
LEMMA StepOfTheQueue ==
  ASSUME WorkerInv, [Next]_vars
  PROVE  \/ UnleasedStep
         \/ \E w \in Workers : CallApplied(w)
         \/ \E h, w, t : SentHeartbeat(h, w, t)
  <1> DEFINE Goal == \/ UnleasedStep
                     \/ \E w \in Workers : CallApplied(w)
                     \/ \E h, w, t : SentHeartbeat(h, w, t)
  <1> SUFFICES Goal
    OBVIOUS
  <1>1. CASE UNCHANGED queueVars
    BY <1>1 DEF UnleasedStep
  <1>2. CASE TimePasses
    BY <1>2 DEF TimePasses, UnleasedStep
  <1>3. ASSUME NEW r \in Runs, Submit(r) \/ EnqueueOrphan(r) PROVE Goal
    BY <1>3 DEF Submit, EnqueueOrphan, UnleasedStep
  <1>4. ASSUME NEW w \in Workers, WorkerStep(w) \/ BeatStep(w) \/ FaultStep(w)
        PROVE  Goal
    <2>1. /\ TaskInv(w) /\ BeatInv(w)
          /\ beat[w].at \in Nat /\ now \in Nat
          /\ task[w].pc # "idle" => task[w].at \in 0..now
          /\ task[w].lease # NoLease => task[w].lease \in leases
      BY ThreadFacts
    <2>2. CASE ClaimJob(w)
      <3>1. task[w].at \in 0..now
        BY <2>1, <2>2 DEF ClaimJob
      <3>2. PICK q \in Runs, locked \in SUBSET Runs : Claim(w, task[w].at, q, locked)
        BY <2>2 DEF ClaimJob, MayBeLocked
      <3> QED
        BY <3>1, <3>2 DEF UnleasedStep
    <2>3. CASE ClaimNothing(w)
      <3>1. task[w].at \in 0..now
        BY <2>1, <2>3 DEF ClaimNothing
      <3>2. PICK locked \in SUBSET Runs : ClaimNone(task[w].at, locked)
        BY <2>3 DEF ClaimNothing, MayBeLocked
      <3> QED
        BY <3>1, <3>2 DEF UnleasedStep
    <2>4. CASE Finish(w)
      BY <2>4 DEF Finish
    <2>5. CASE /\ beat[w].state = "sending"
               /\ Heartbeat(w, task[w].lease, beat[w].at)
      <3>1. /\ task[w].lease \in leases /\ beat[w].at \in 0..now
            /\ NotAhead(task[w].lease, beat[w].at)
        BY <2>1, <2>5 DEF BeatInv, TaskInv
      <3>2. SentHeartbeat(task[w].lease, w, beat[w].at)
        BY <2>5, <3>1 DEF SentHeartbeat
      <3> QED
        BY <3>2
    <2> QED
      BY <1>1, <1>4, <2>2, <2>3, <2>4, <2>5
         DEF WorkerStep, BeatStep, FaultStep, BeginClaim, GetRun, GetMissing,
             Execute, JoinKept, JoinLost, FinishRejected, BeginBeat, BeatKept,
             BeatRejected, JoinTimeout, CallFails, Crash, BeatFails
  <1>5. ASSUME NEW z \in zombies, ZombieBeat(z) PROVE Goal
    <2>1. CASE UNCHANGED queueVars
      BY <2>1 DEF UnleasedStep
    <2>2. CASE Heartbeat(z.worker, z.lease, z.at)
      <3>1. /\ z.lease \in leases /\ z.worker \in Workers /\ z.at \in 0..now
            /\ NotAhead(z.lease, z.at)
        BY DEF WorkerInv, ThreadInv, ZombieInv, Held, WorkerTypeOK, QueueInv,
               QueueTypeOK
      <3>2. SentHeartbeat(z.lease, z.worker, z.at)
        BY <2>2, <3>1 DEF SentHeartbeat
      <3> QED
        BY <3>2
    <2> QED
      BY <1>5, <2>1, <2>2 DEF ZombieBeat
  <1> QED
    BY <1>1, <1>2, <1>3, <1>4, <1>5 DEF Next, vars

(* The workers only ever call the queue: every step of theirs is a step of the
   queue's specification. *)
LEMMA ClientOfTheQueue ==
  ASSUME WorkerInv, [Next]_vars
  PROVE  [QueueNext]_queueVars
  <1>1. now \in 0..now
    BY DEF WorkerInv, QueueInv, QueueTypeOK
  <1>2. CASE QuietStep
    BY <1>1, <1>2 DEF QuietStep, UnleasedStep, QueueNext
  <1>3. CASE \E h, w, t : SentHeartbeat(h, w, t)
    BY <1>3 DEF SentHeartbeat, QueueNext
  <1> QED
    BY <1>2, <1>3, StepOfTheQueue, CallIsQuiet DEF QuietStep

\* run_one, its heartbeat thread, crashes and lost answers included, is a client
\* of the queue: whatever is proved of the queue holds of the workers.
THEOREM WorkersImplementQueue == Spec => QueueSpec
  <1>1. Init => QueueInit
    BY DEF Init
  <1>2. WorkerInv /\ [Next]_vars => [QueueNext]_queueVars
    BY ClientOfTheQueue
  <1> QED
    BY <1>1, <1>2, WorkerInvariance, PTL DEF Spec, QueueSpec

\* In particular no worker takes over a lease that has not expired and nothing
\* that has ended changes.
THEOREM WorkersKeepEnds == Spec => LiveLeaseIsKept /\ EndedStaysEnded
  BY WorkersImplementQueue, LiveLeases, EndsAreFinal, PTL

-----------------------------------------------------------------------------
(* Rows are their holders' *)

\* A heartbeat, however late, does not shorten the lease it extends.
LEMMA NoStepShortens ==
  ASSUME WorkerInv, [Next]_vars, NEW r \in Runs,
         jobs[r].state = "leased", jobs'[r].token = jobs[r].token
  PROVE  jobs'[r].expires >= jobs[r].expires
  <1>1. RowsInv /\ jobs[r].expires \in Nat
    BY DEF WorkerInv, RowsInv, QueueInv, QueueTypeOK, JobRow
  <1>2. PICK l \in leases : l.run = r /\ l.token = jobs[r].token
    BY <1>1 DEF RowsInv, QueueInv, RowsFollowLeases
  <1>3. CASE Kept(l)
    BY <1>1, <1>2, <1>3 DEF Kept
  <1>4. CASE QuietStep
    BY <1>1, <1>3, <1>4, QuietKeeps
  <1>5. ASSUME NEW h, NEW w, NEW t, SentHeartbeat(h, w, t)
        PROVE  jobs'[r].expires >= jobs[r].expires
    <2>1. h \in leases /\ t \in 0..now /\ Heartbeat(w, h, t) /\ NotAhead(h, t)
      BY <1>5 DEF SentHeartbeat
    <2>2. /\ \A m \in leases : m # h => Kept(m)
          /\ jobs'[h.run].expires = t + LeaseSeconds
      BY <1>1, <2>1, HeartbeatKeeps
    <2>3. CASE l = h
      <3>1. t \in Nat /\ LeaseSeconds \in Nat
        BY <2>1, QueueAssumption DEF WorkerInv, QueueInv, QueueTypeOK
      <3>2. jobs[r].expires <= t + LeaseSeconds
        BY <1>2, <2>1, <2>3 DEF NotAhead
      <3>3. jobs'[r].expires = t + LeaseSeconds
        BY <1>2, <2>2, <2>3
      <3> QED
        BY <1>1, <3>1, <3>2, <3>3
    <2> QED
      BY <1>3, <2>2, <2>3
  <1> QED
    BY <1>4, <1>5, StepOfTheQueue, CallIsQuiet DEF QuietStep

\* A call that changes a row is made by the row's holder, whose heartbeat has
\* not lost the lease, and stores its own token.
LEMMA CallIsTheHolders ==
  ASSUME WorkerInv, NEW w \in Workers, CallApplied(w), NEW r \in Runs,
         jobs'[r] # jobs[r] \/ runs'[r] # runs[r]
  PROVE  /\ HeldBy(w, r)
         /\ task[w].lease.token = jobs[r].token
         /\ ~beat[w].lost
         /\ runs'[r] # runs[r] => runs'[r].by = jobs[r].token
  <1> DEFINE l == task[w].lease
  <1>1. /\ task[w].pc \in {"missing", "retry", "commit"}
        /\ ActiveLease(jobs[l.run], l, w, task[w].at)
        /\ \E row : jobs' = [jobs EXCEPT ![l.run] = row]
        /\ \/ runs' = runs
           \/ \E s, a : runs' = [runs EXCEPT ![l.run] =
                                   [status |-> s, alias |-> a, by |-> l.token]]
    BY DEF CallApplied, Fail, CommitLeasedResult
  <1>2. TaskInv(w) /\ BeatInv(w) /\ (l # NoLease => l \in leases)
    BY ThreadFacts
  <1>3. l # NoLease /\ l \in leases /\ ~beat[w].lost
    BY <1>1, <1>2 DEF TaskInv, BeatInv
  <1>4. l.run \in Runs /\ jobs \in [Runs -> JobRow] /\ runs \in [Runs -> RunRow]
    BY <1>3 DEF WorkerInv, QueueInv, QueueTypeOK, Lease
  <1> HIDE DEF l
  <1>5. l.run = r
    BY <1>1, <1>4
  <1>6. l.token = jobs[r].token
    BY <1>1, <1>5 DEF ActiveLease
  <1>7. runs'[r] # runs[r] => runs'[r].by = l.token
    BY <1>1, <1>4, <1>5
  <1> QED
    BY <1>3, <1>5, <1>6, <1>7 DEF HeldBy, l

\* Nothing but a call under a lease changes a stored run or queues a job again.
LEMMA OthersDoNotWrite ==
  ASSUME WorkerInv, NEW r \in Runs,
         UnleasedStep \/ \E h, w, t : SentHeartbeat(h, w, t)
  PROVE  /\ runs'[r] = runs[r] \/ runs[r] = NoRun
         /\ jobs'[r].state = "queued" => jobs[r].state = "queued" \/ jobs[r] = NoJob
  <1> DEFINE Goal ==
        /\ runs'[r] = runs[r] \/ runs[r] = NoRun
        /\ jobs'[r].state = "queued" => jobs[r].state = "queued" \/ jobs[r] = NoJob
  <1> SUFFICES Goal
    OBVIOUS
  <1> HIDE DEF Goal
  <1>1. /\ QueueInv /\ QueueTypeOK /\ now \in Nat
        /\ jobs \in [Runs -> JobRow] /\ runs \in [Runs -> RunRow]
    BY DEF WorkerInv, QueueInv, QueueTypeOK
  <1>2. CASE UNCHANGED queueVars \/ Tick
    BY <1>2 DEF queueVars, Tick, Goal
  <1>3. ASSUME NEW q \in Runs, SaveQueuedRun(q, now) \/ Enqueue(q, now) PROVE Goal
    BY <1>1, <1>3 DEF SaveQueuedRun, Enqueue, Goal
  <1>4. ASSUME NEW t \in 0..now, jobs'[r] = ExpireExhausted(t)[r], runs' = runs
        PROVE  Goal
    BY <1>1, <1>4, ExpireExhaustedColumns DEF Goal
  <1>5. ASSUME NEW w \in Workers, NEW t \in 0..now, NEW q \in Runs,
               NEW locked \in SUBSET Runs, Claim(w, t, q, locked)
        PROVE  Goal
    <2>1. runs' = runs
      BY <1>5 DEF Claim
    <2>2. /\ jobs'[q].state = "leased"
          /\ \A p \in Runs \ {q} : jobs'[p] = ExpireExhausted(t)[p]
      BY <1>1, <1>5, ClaimRows
    <2>3. CASE r = q
      BY <2>1, <2>2, <2>3 DEF Goal
    <2>4. CASE r # q
      BY <1>4, <2>1, <2>2, <2>4
    <2> QED
      BY <2>3, <2>4
  <1>6. ASSUME NEW t \in 0..now, NEW locked \in SUBSET Runs, ClaimNone(t, locked)
        PROVE  Goal
    BY <1>4, <1>6 DEF ClaimNone
  <1>7. ASSUME NEW h, NEW w, NEW t, SentHeartbeat(h, w, t) PROVE Goal
    <2>1. h \in leases /\ h.run \in Runs
      BY <1>1, <1>7 DEF SentHeartbeat, QueueTypeOK, Lease
    <2>2. /\ runs' = runs
          /\ jobs[h.run] \in JobRow
          /\ jobs[h.run].state = "leased"
          /\ jobs'[h.run] = [jobs[h.run] EXCEPT !.expires = t + LeaseSeconds]
          /\ r # h.run => jobs'[r] = jobs[r]
      BY <1>1, <1>7, <2>1 DEF SentHeartbeat, Heartbeat, ActiveLease
    <2>3. jobs'[h.run].state = "leased"
      BY <2>2 DEF JobRow
    <2> QED
      BY <2>2, <2>3 DEF Goal
  <1> QED
    BY <1>2, <1>3, <1>5, <1>6, <1>7 DEF UnleasedStep

\* No heartbeat shortens a lease, and only the holder of a job's lease stores
\* its result or hands it back, whatever calls are still under way.
THEOREM HoldersOwnRows == Spec => RowsAreTheHolders
  <1> DEFINE Lasts ==
        \A r \in Runs :
          jobs[r].state = "leased" /\ jobs'[r].token = jobs[r].token =>
            jobs'[r].expires >= jobs[r].expires
  <1> DEFINE Owned ==
        \A r \in Runs :
          /\ runs'[r] # runs[r] /\ runs[r] # NoRun =>
               /\ runs'[r].by = jobs[r].token
               /\ \E w \in Workers : /\ HeldBy(w, r)
                                     /\ task[w].lease.token = jobs[r].token
                                     /\ ~beat[w].lost
          /\ jobs'[r].state = "queued" /\ jobs[r].state # "queued" =>
               \/ jobs[r] = NoJob
               \/ \E w \in Workers : /\ HeldBy(w, r)
                                     /\ task[w].lease.token = jobs[r].token
                                     /\ ~beat[w].lost
  <1>1. WorkerInv /\ [Next]_vars => [Lasts]_vars
    BY NoStepShortens
  <1>2. WorkerInv /\ [Next]_vars => [Owned]_vars
    <2> DEFINE Holder(r) ==
          \E w \in Workers : /\ HeldBy(w, r)
                             /\ task[w].lease.token = jobs[r].token
                             /\ ~beat[w].lost
    <2> SUFFICES ASSUME WorkerInv, [Next]_vars, NEW r \in Runs
                 PROVE  /\ runs'[r] # runs[r] /\ runs[r] # NoRun =>
                             runs'[r].by = jobs[r].token /\ Holder(r)
                        /\ jobs'[r].state = "queued" /\ jobs[r].state # "queued" =>
                             jobs[r] = NoJob \/ Holder(r)
      OBVIOUS
    <2>1. CASE UnleasedStep \/ \E h, w, t : SentHeartbeat(h, w, t)
      BY <2>1, OthersDoNotWrite
    <2>2. ASSUME NEW w \in Workers, CallApplied(w)
          PROVE  /\ runs'[r] # runs[r] => runs'[r].by = jobs[r].token /\ Holder(r)
                 /\ jobs'[r] # jobs[r] => Holder(r)
      BY <2>2, CallIsTheHolders
    <2> QED
      BY <2>1, <2>2, StepOfTheQueue
  <1>3. Spec => LeaseNeverShortens
    BY <1>1, WorkerInvariance, PTL DEF Spec, LeaseNeverShortens
  <1>4. Spec => OnlyTheHolderWrites
    BY <1>2, WorkerInvariance, PTL DEF Spec, OnlyTheHolderWrites
  <1> QED
    BY <1>3, <1>4 DEF RowsAreTheHolders

-----------------------------------------------------------------------------
(* The life of a run *)

\* OutcomeOf, of the rows themselves.
OutcomeOfRows(run, job) ==
  CASE run.status \in Terminal -> run.status
    [] job.state = "absent" -> "unknown"
    [] run.status \notin Terminal /\ job.state = "failed" -> "abandoned"
    [] OTHER -> "submitted"

(* The outcome of a run, case by case of its two rows. *)
LEMMA OutcomeCases ==
  ASSUME NEW run, NEW job
  PROVE  /\ run.status \in Terminal /\ job.state # "absent" =>
              OutcomeOfRows(run, job) = run.status
         /\ run.status \notin Terminal /\ job.state = "absent" =>
              OutcomeOfRows(run, job) = "unknown"
         /\ run.status \notin Terminal /\ job.state = "failed" =>
              OutcomeOfRows(run, job) = "abandoned"
         /\ run.status \notin Terminal /\ job.state \notin {"absent", "failed"} =>
              OutcomeOfRows(run, job) = "submitted"
  BY DEF OutcomeOfRows

(* The outcome of a run depends on its two rows only. *)
LEMMA OutcomeIsOfRows ==
  ASSUME NEW r
  PROVE  /\ OutcomeOf(r) = OutcomeOfRows(runs[r], jobs[r])
         /\ OutcomeOf(r)' = OutcomeOfRows(runs'[r], jobs'[r])
  BY DEF OutcomeOf, OutcomeOfRows

\* The run of a lease that is active, and of a live job, is submitted.
LEMMA LiveIsSubmitted ==
  ASSUME QueueInv, NEW r \in Runs, jobs[r].state \in Live
  PROVE  OutcomeOf(r) = "submitted"
  <1>1. runs[r].status \notin Terminal
    BY LiveHasNoResult DEF Live, Terminal
  <1> QED
    BY <1>1, OutcomeCases, OutcomeIsOfRows DEF Live

\* A step that changes the outcome of one run at most, and no attempt count.
LEMMA OneOutcome ==
  ASSUME NEW q \in Runs, NEW o, OutcomeOf(q)' = o,
         \A r \in Runs : r # q => jobs'[r] = jobs[r] /\ runs'[r] = runs[r],
         jobs'[q].attempts = jobs[q].attempts
  PROVE  /\ [r \in Runs |-> OutcomeOf(r)]'
              = [[r \in Runs |-> OutcomeOf(r)] EXCEPT ![q] = o]
         /\ [r \in Runs |-> jobs[r].attempts]' = [r \in Runs |-> jobs[r].attempts]
  <1>1. \A r \in Runs : r # q => OutcomeOf(r)' = OutcomeOf(r)
    BY OutcomeIsOfRows
  <1>2. \A r \in Runs : jobs'[r].attempts = jobs[r].attempts
    OBVIOUS
  <1> QED
    BY <1>1, <1>2

(* A new job maps to the abstract submission. *)
LEMMA NewJobSubmits ==
  ASSUME QueueInv, NEW q \in Runs, SaveQueuedRun(q, now) \/ Enqueue(q, now)
  PROVE  Lifecycle!Submit(q)
  <1>1. /\ jobs[q] = NoJob
        /\ jobs' = [jobs EXCEPT ![q] = QueuedJob(now)]
        /\ runs' = runs \/ runs' = [runs EXCEPT ![q] = RunningRun]
    BY DEF SaveQueuedRun, Enqueue
  <1>2. /\ jobs[q].state = "absent" /\ jobs[q].attempts = 0
        /\ jobs'[q].state = "queued" /\ jobs'[q].attempts = 0
    BY <1>1 DEF NoJob, QueuedJob, QueueInv, QueueTypeOK
  <1>3. runs[q].status \notin Terminal
    BY <1>2, LiveHasNoResult DEF Terminal
  <1>4. runs'[q].status \notin Terminal
    BY <1>1, <1>3 DEF RunningRun, Terminal, QueueInv, QueueTypeOK
  <1>5. OutcomeOf(q) = "unknown" /\ OutcomeOf(q)' = "submitted"
    BY <1>2, <1>3, <1>4, OutcomeCases, OutcomeIsOfRows
  <1>6. \A r \in Runs : r # q => jobs'[r] = jobs[r] /\ runs'[r] = runs[r]
    BY <1>1 DEF QueueInv, QueueTypeOK
  <1>7. jobs'[q].attempts = jobs[q].attempts
    BY <1>2
  <1>8. /\ [r \in Runs |-> OutcomeOf(r)]'
             = [[r \in Runs |-> OutcomeOf(r)] EXCEPT ![q] = "submitted"]
        /\ [r \in Runs |-> jobs[r].attempts]' = [r \in Runs |-> jobs[r].attempts]
    BY <1>5, <1>6, <1>7, OneOutcome
  <1> QED
    BY <1>5, <1>8 DEF Lifecycle!Submit

\* A row that claim has failed was submitted, had no attempt left, and is
\* abandoned.
LEMMA ExhaustedIsLost ==
  ASSUME QueueInv, NEW t, NEW r \in Runs, Exhausted(jobs[r], t),
         jobs'[r] = ExpireExhausted(t)[r], runs' = runs
  PROVE  /\ OutcomeOf(r) = "submitted" /\ OutcomeOf(r)' = "abandoned"
         /\ jobs[r].attempts = MaxAttempts
         /\ jobs'[r].attempts = jobs[r].attempts
  <1>1. /\ jobs[r].state \in Live
        /\ jobs'[r].state = "failed"
        /\ jobs'[r].attempts = jobs[r].attempts
    BY ExpireExhaustedColumns DEF QueueInv
  <1>2. OutcomeOf(r) = "submitted"
    BY <1>1, LiveIsSubmitted
  <1>3. runs'[r].status \notin Terminal
    BY <1>1, LiveHasNoResult DEF Live, Terminal
  <1>4. OutcomeOf(r)' = "abandoned"
    BY <1>1, <1>3, OutcomeCases, OutcomeIsOfRows
  <1>5. jobs[r].attempts = MaxAttempts
    <2>1. jobs[r].attempts >= MaxAttempts
      BY DEF Exhausted
    <2>2. jobs[r].attempts <= MaxAttempts /\ jobs[r].attempts \in Nat
      BY DEF QueueInv, AttemptsHandedOutOnce, QueueTypeOK, JobRow
    <2> QED
      BY <2>1, <2>2, QueueAssumption
  <1> QED
    BY <1>1, <1>2, <1>4, <1>5

\* claim: the exhausted jobs are lost, and the claimed one starts an attempt.
LEMMA ClaimPolls ==
  ASSUME QueueInv, NEW w \in Workers, NEW t \in 0..now, NEW q \in Runs,
         NEW locked, Claim(w, t, q, locked)
  PROVE  Lifecycle!Next
  <1> DEFINE lost == {r \in Runs : Exhausted(jobs[r], t)}
  <1>1. /\ jobs[q].state \in Live
        /\ jobs[q].attempts < MaxAttempts
        /\ jobs'[q].state = "leased"
        /\ jobs'[q].attempts = jobs[q].attempts + 1
        /\ \A r \in Runs \ {q} : jobs'[r] = ExpireExhausted(t)[r]
    BY ClaimRows
  <1>2. runs' = runs
    BY DEF Claim
  <1>3. jobs[q].attempts \in Nat /\ MaxAttempts \in Nat
    BY QueueAssumption DEF QueueInv, QueueTypeOK, JobRow
  <1>4. q \notin lost
    BY <1>1, <1>3 DEF Exhausted
  <1>5. OutcomeOf(q) = "submitted"
    BY <1>1, LiveIsSubmitted
  <1>6. OutcomeOf(q)' = "submitted"
    <2>1. runs'[q].status \notin Terminal
      BY <1>1, <1>2, LiveHasNoResult DEF Live, Terminal
    <2> QED
      BY <1>1, <2>1, OutcomeCases, OutcomeIsOfRows
  <1>7. \A r \in lost : /\ OutcomeOf(r) = "submitted" /\ OutcomeOf(r)' = "abandoned"
                        /\ jobs[r].attempts = MaxAttempts
                        /\ jobs'[r].attempts = jobs[r].attempts
    BY <1>1, <1>2, <1>4, ExhaustedIsLost
  <1>8. ASSUME NEW r \in Runs, r \notin lost, r # q
        PROVE  OutcomeOf(r)' = OutcomeOf(r) /\ jobs'[r].attempts = jobs[r].attempts
    <2>1. jobs'[r] = jobs[r]
      BY <1>1, <1>8 DEF ExpireExhausted
    <2> QED
      BY <1>2, <2>1, OutcomeIsOfRows
  <1>9. lost \in SUBSET Runs /\ {q} \in SUBSET Runs
    OBVIOUS
  <1> HIDE DEF lost
  <1>10. [r \in Runs |-> OutcomeOf(r)]'
           = [r \in Runs |-> IF r \in lost THEN "abandoned"
                                           ELSE [s \in Runs |-> OutcomeOf(s)][r]]
    BY <1>5, <1>6, <1>7, <1>8, <1>9
  <1>11. [r \in Runs |-> jobs[r].attempts]'
           = [r \in Runs |-> IF r \in {q} THEN [s \in Runs |-> jobs[s].attempts][r] + 1
                                          ELSE [s \in Runs |-> jobs[s].attempts][r]]
    BY <1>1, <1>7, <1>8, <1>9
  <1>12. Lifecycle!Poll(lost, {q})
    BY <1>1, <1>5, <1>7, <1>9, <1>10, <1>11 DEF Lifecycle!Poll
  <1> QED
    BY <1>9, <1>12 DEF Lifecycle!Next

(* A claim that finds no job abandons, in the abstract specification, the runs
   it buries. *)
LEMMA ClaimNonePolls ==
  ASSUME QueueInv, NEW t \in 0..now, NEW locked, ClaimNone(t, locked)
  PROVE  Lifecycle!Next
  <1> DEFINE lost == {r \in Runs : Exhausted(jobs[r], t)}
  <1>1. /\ \A r \in Runs : jobs'[r] = ExpireExhausted(t)[r]
        /\ runs' = runs
    BY DEF ClaimNone
  <1>2. \A r \in lost : /\ OutcomeOf(r) = "submitted" /\ OutcomeOf(r)' = "abandoned"
                        /\ jobs[r].attempts = MaxAttempts
                        /\ jobs'[r].attempts = jobs[r].attempts
    BY <1>1, ExhaustedIsLost
  <1>3. ASSUME NEW r \in Runs, r \notin lost
        PROVE  OutcomeOf(r)' = OutcomeOf(r) /\ jobs'[r].attempts = jobs[r].attempts
    <2>1. jobs'[r] = jobs[r]
      BY <1>1, <1>3 DEF ExpireExhausted
    <2> QED
      BY <1>1, <2>1, OutcomeIsOfRows
  <1>4. lost \in SUBSET Runs
    OBVIOUS
  <1> HIDE DEF lost
  <1>5. [r \in Runs |-> OutcomeOf(r)]'
          = [r \in Runs |-> IF r \in lost THEN "abandoned"
                                          ELSE [s \in Runs |-> OutcomeOf(s)][r]]
    BY <1>2, <1>3, <1>4
  <1>6. [r \in Runs |-> jobs[r].attempts]'
          = [r \in Runs |-> IF r \in {} THEN [s \in Runs |-> jobs[s].attempts][r] + 1
                                        ELSE [s \in Runs |-> jobs[s].attempts][r]]
    BY <1>2, <1>3, <1>4
  <1>7. Lifecycle!Poll(lost, {})
    BY <1>2, <1>4, <1>5, <1>6 DEF Lifecycle!Poll
  <1> QED
    BY <1>4, <1>7 DEF Lifecycle!Next

\* What the holder of an active lease starts from.
LEMMA HolderIsSubmitted ==
  ASSUME QueueInv, NEW lease \in leases, NEW w, NEW t,
         ActiveLease(jobs[lease.run], lease, w, t)
  PROVE  /\ OutcomeOf(lease.run) = "submitted"
         /\ jobs[lease.run].attempts \in Nat /\ jobs[lease.run].attempts > 0
         /\ lease.final => jobs[lease.run].attempts = MaxAttempts
  <1>1. /\ lease.run \in Runs
        /\ jobs[lease.run] \in JobRow
        /\ jobs[lease.run].state = "leased"
        /\ lease.attempt = jobs[lease.run].attempts
    BY ActiveLeaseIsNewest
  <1>2. OutcomeOf(lease.run) = "submitted"
    BY <1>1, LiveIsSubmitted DEF Live
  <1>3. lease.attempt \in Nat \ {0}
    BY DEF QueueInv, QueueTypeOK, Lease
  <1>4. lease.final => lease.attempt = MaxAttempts
    BY <1>1 DEF QueueInv, AttemptsHandedOutOnce
  <1> QED
    BY <1>1, <1>2, <1>3, <1>4

\* fail hands the job back, which the life of the run does not show, or ends it
\* without a result.
LEMMA FailAbandons ==
  ASSUME QueueInv, NEW lease \in leases, NEW w, NEW t \in 0..now,
         NEW alias \in FailureAliases \cup {"run-not-found"},
         NEW retryable \in BOOLEAN, NEW delay \in {0, RetryDelay},
         Fail(w, lease, t, alias, retryable, delay)
  PROVE  Lifecycle!Next \/ UNCHANGED Lifecycle!vars
  <1> DEFINE q == lease.run
  <1>1. PICK s \in {"queued", "failed"} :
          jobs' = [jobs EXCEPT ![q] = [LeftAs(jobs[q], s, alias)
                                         EXCEPT !.available = t + delay]]
    <2>1. CASE retryable /\ jobs[q].attempts < MaxAttempts
      BY <2>1 DEF Fail
    <2>2. CASE ~(retryable /\ jobs[q].attempts < MaxAttempts)
      BY <2>2 DEF Fail
    <2> QED
      BY <2>1, <2>2
  <1>2. /\ OutcomeOf(q) = "submitted"
        /\ jobs[q].attempts > 0
    BY HolderIsSubmitted DEF Fail
  <1>3. /\ q \in Runs /\ jobs[q] \in JobRow
        /\ runs[q].status \notin Terminal
    BY ActiveLeaseIsNewest DEF Fail
  <1> HIDE DEF q
  <1>4. /\ jobs'[q] = [LeftAs(jobs[q], s, alias) EXCEPT !.available = t + delay]
        /\ \A r \in Runs : r # q => jobs'[r] = jobs[r]
        /\ runs' = runs
    BY <1>1, <1>3 DEF QueueInv, QueueTypeOK, Fail
  <1>5. jobs'[q].state = s /\ jobs'[q].attempts = jobs[q].attempts
    BY <1>3, <1>4 DEF LeftAs, Released, JobRow
  <1> DEFINE o == IF s = "queued" THEN "submitted" ELSE "abandoned"
  <1>6. OutcomeOf(q)' = o
    BY <1>3, <1>4, <1>5, OutcomeCases, OutcomeIsOfRows, ZenonT(30)
  <1>7. \A r \in Runs : r # q => jobs'[r] = jobs[r] /\ runs'[r] = runs[r]
    BY <1>4
  <1> HIDE DEF o
  <1>8. /\ [r \in Runs |-> OutcomeOf(r)]'
             = [[r \in Runs |-> OutcomeOf(r)] EXCEPT ![q] = o]
        /\ [r \in Runs |-> jobs[r].attempts]' = [r \in Runs |-> jobs[r].attempts]
    BY <1>3, <1>5, <1>6, <1>7, OneOutcome
  <1>9. CASE s = "queued"
    <2>1. o = "submitted"
      BY <1>9 DEF o
    <2>2. [r \in Runs |-> OutcomeOf(r)]' = [r \in Runs |-> OutcomeOf(r)]
      BY <1>2, <1>3, <1>8, <2>1
    <2> QED
      BY <1>8, <2>2 DEF Lifecycle!vars
  <1>10. CASE s = "failed"
    <2>1. o = "abandoned"
      BY <1>10 DEF o
    <2>2. Lifecycle!AbandonMissing(q)
      BY <1>2, <1>3, <1>8, <2>1 DEF Lifecycle!AbandonMissing
    <2> QED
      BY <1>3, <2>2 DEF Lifecycle!Next
  <1> QED
    BY <1>9, <1>10

\* commit_leased_result ends the life of the run, a failure after its last
\* attempt.
LEMMA CommitEnds ==
  ASSUME QueueInv, NEW lease \in leases, NEW w, NEW t,
         NEW status \in Terminal, NEW alias, status = "failed" => lease.final,
         CommitLeasedResult(w, lease, t, status, alias)
  PROVE  Lifecycle!Next
  <1> DEFINE q == lease.run
  <1>1. /\ OutcomeOf(q) = "submitted"
        /\ jobs[q].attempts > 0
        /\ status = "failed" => jobs[q].attempts = MaxAttempts
    BY HolderIsSubmitted DEF CommitLeasedResult
  <1>2. q \in Runs /\ jobs[q] \in JobRow
    BY ActiveLeaseIsNewest DEF CommitLeasedResult
  <1>3. /\ jobs'[q] = LeftAs(jobs[q], status, alias)
        /\ runs'[q] = [status |-> status, alias |-> alias, by |-> lease.token]
        /\ \A r \in Runs : r # q => jobs'[r] = jobs[r] /\ runs'[r] = runs[r]
    BY <1>2 DEF QueueInv, QueueTypeOK, CommitLeasedResult
  <1> HIDE DEF q
  <1>4. /\ jobs'[q].state = status /\ jobs'[q].attempts = jobs[q].attempts
        /\ runs'[q].status = status
    BY <1>2, <1>3 DEF LeftAs, Released, JobRow
  <1>5. OutcomeOf(q)' = status
    <2>1. status # "absent"
      BY DEF Terminal
    <2> QED
      BY <1>4, <2>1, OutcomeCases, OutcomeIsOfRows
  <1>6. /\ [r \in Runs |-> OutcomeOf(r)]'
             = [[r \in Runs |-> OutcomeOf(r)] EXCEPT ![q] = status]
        /\ [r \in Runs |-> jobs[r].attempts]' = [r \in Runs |-> jobs[r].attempts]
    BY <1>2, <1>3, <1>4, <1>5, OneOutcome
  <1>7. CASE status = "completed"
    <2>1. Lifecycle!Succeed(q)
      BY <1>1, <1>2, <1>6, <1>7 DEF Lifecycle!Succeed
    <2> QED
      BY <1>2, <2>1 DEF Lifecycle!Next
  <1>8. CASE status = "failed"
    <2>1. Lifecycle!FailForGood(q)
      BY <1>1, <1>2, <1>6, <1>8 DEF Lifecycle!FailForGood
    <2> QED
      BY <1>2, <2>1 DEF Lifecycle!Next
  <1> QED
    BY <1>7, <1>8 DEF Terminal

(* An extended lease is invisible in the abstract specification. *)
LEMMA HeartbeatIsHidden ==
  ASSUME QueueInv, NEW h \in leases, NEW w, NEW t, Heartbeat(w, h, t)
  PROVE  UNCHANGED Lifecycle!vars
  <1>1. h.run \in Runs /\ jobs[h.run] \in JobRow
    BY ActiveLeaseIsNewest DEF Heartbeat
  <1>2. /\ jobs'[h.run] = [jobs[h.run] EXCEPT !.expires = t + LeaseSeconds]
        /\ \A r \in Runs : r # h.run => jobs'[r] = jobs[r]
        /\ runs' = runs
    BY <1>1 DEF Heartbeat, QueueInv, QueueTypeOK
  <1>3. \A r \in Runs : /\ jobs'[r].state = jobs[r].state
                        /\ jobs'[r].attempts = jobs[r].attempts
    BY <1>1, <1>2 DEF JobRow
  <1>4. \A r \in Runs : OutcomeOf(r)' = OutcomeOf(r)
    BY <1>2, <1>3, OutcomeIsOfRows DEF OutcomeOfRows
  <1>5. /\ [r \in Runs |-> OutcomeOf(r)]' = [r \in Runs |-> OutcomeOf(r)]
        /\ [r \in Runs |-> jobs[r].attempts]' = [r \in Runs |-> jobs[r].attempts]
    BY <1>3, <1>4
  <1> QED
    BY <1>5 DEF Lifecycle!vars

\* Every step of the workers is a step in the life of a run, or hidden from it.
LEMMA StepOfTheLifecycle ==
  ASSUME WorkerInv, [Next]_vars
  PROVE  Lifecycle!Next \/ UNCHANGED Lifecycle!vars
  <1> DEFINE Goal == Lifecycle!Next \/ UNCHANGED Lifecycle!vars
  <1> SUFFICES Goal
    OBVIOUS
  <1> HIDE DEF Goal
  <1>1. QueueInv
    BY DEF WorkerInv
  <1>2. CASE UNCHANGED queueVars \/ Tick
    <2>1. UNCHANGED <<jobs, runs>>
      BY <1>2 DEF queueVars, Tick
    <2>2. \A r \in Runs : OutcomeOf(r)' = OutcomeOf(r)
      BY <2>1, OutcomeIsOfRows
    <2>3. /\ [r \in Runs |-> OutcomeOf(r)]' = [r \in Runs |-> OutcomeOf(r)]
          /\ [r \in Runs |-> jobs[r].attempts]' = [r \in Runs |-> jobs[r].attempts]
      BY <2>1, <2>2
    <2> QED
      BY <2>3 DEF Goal, Lifecycle!vars
  <1>3. ASSUME NEW r \in Runs, SaveQueuedRun(r, now) \/ Enqueue(r, now) PROVE Goal
    BY <1>1, <1>3, NewJobSubmits DEF Goal, Lifecycle!Next
  <1>4. ASSUME NEW w \in Workers, NEW t \in 0..now, NEW r \in Runs,
               NEW locked \in SUBSET Runs, Claim(w, t, r, locked)
        PROVE  Goal
    BY <1>1, <1>4, ClaimPolls DEF Goal
  <1>5. ASSUME NEW t \in 0..now, NEW locked \in SUBSET Runs, ClaimNone(t, locked)
        PROVE  Goal
    BY <1>1, <1>5, ClaimNonePolls DEF Goal
  <1>6. CASE UnleasedStep
    BY <1>2, <1>3, <1>4, <1>5, <1>6 DEF UnleasedStep
  <1>7. ASSUME NEW w \in Workers, NEW lease \in leases, NEW t \in 0..now,
               NEW alias \in FailureAliases \cup {"run-not-found"},
               NEW retryable \in BOOLEAN, NEW delay \in {0, RetryDelay},
               Fail(w, lease, t, alias, retryable, delay)
        PROVE  Goal
    BY <1>1, <1>7, FailAbandons DEF Goal
  <1>8. ASSUME NEW w \in Workers, NEW lease \in leases, NEW t \in 0..now,
               NEW status \in Terminal, NEW alias, status = "failed" => lease.final,
               CommitLeasedResult(w, lease, t, status, alias)
        PROVE  Goal
    BY <1>1, <1>8, CommitEnds DEF Goal
  <1>9. CASE QuietStep
    <2>1. "completed" \in Terminal /\ "failed" \in Terminal
      BY DEF Terminal
    <2> QED
      BY <1>6, <1>7, <1>8, <1>9, <2>1 DEF QuietStep
  <1>10. ASSUME NEW h, NEW w, NEW t, SentHeartbeat(h, w, t) PROVE Goal
    BY <1>1, <1>10, HeartbeatIsHidden DEF SentHeartbeat, Goal
  <1> QED
    BY <1>6, <1>9, <1>10, StepOfTheQueue, CallIsQuiet

\* run_one on the queue keeps the promise of POST /runs/async: every submitted
\* run is attempted at most max_attempts times and ends at most once, failed
\* only after the last attempt, whatever crashes, lost answers and late
\* heartbeats happen.
THEOREM Refinement == Spec => ImplementsLifecycle
  <1>1. Init => Lifecycle!Init
    <2> SUFFICES ASSUME Init PROVE Lifecycle!Init
      OBVIOUS
    <2>1. \A r \in Runs : jobs[r] = NoJob /\ runs[r] = NoRun
      BY DEF Init, QueueInit
    <2>2. \A r \in Runs : /\ jobs[r].state = "absent" /\ jobs[r].attempts = 0
                          /\ runs[r].status \notin Terminal
      BY <2>1 DEF NoJob, NoRun, Terminal
    <2>3. \A r \in Runs : OutcomeOf(r) = "unknown"
      BY <2>2, OutcomeCases, OutcomeIsOfRows
    <2> QED
      BY <2>2, <2>3 DEF Lifecycle!Init
  <1>2. WorkerInv /\ [Next]_vars => [Lifecycle!Next]_(Lifecycle!vars)
    BY StepOfTheLifecycle
  <1> QED
    BY <1>1, <1>2, WorkerInvariance, PTL DEF Spec, ImplementsLifecycle, Lifecycle!Spec

-----------------------------------------------------------------------------
(* A system that keeps up with its clock *)

\* The part of worker w in the invariant of a system that keeps up with its
\* clock and has met no fault: a call or a heartbeat under way was started at
\* the present time, a thread that waits is not late, and the lease lasts until
\* after the next heartbeat is due.
PunctualThread(w) ==
  /\ task[w].pc \in Calling => task[w].at = now
  /\ task[w].lease # NoLease =>
       ActiveLease(jobs[task[w].lease.run], task[w].lease, w, now)
  /\ task[w].pc = "get" =>
       jobs[task[w].lease.run].expires >= now + LeaseSeconds
  /\ task[w].pc = "execute" => beat[w].state # "off"
  /\ beat[w].state = "sending" => beat[w].at = now
  /\ beat[w].state = "waiting" =>
       /\ now <= beat[w].at + HeartbeatInterval
       /\ jobs[task[w].lease.run].expires >= beat[w].at + LeaseSeconds

PunctualInv ==
  faults = 0 => zombies = {} /\ \A w \in Workers : PunctualThread(w)

\* The row of an active lease is changed by nothing but a call under that lease.
LEMMA ActiveRowStays ==
  ASSUME QueueInv, NEW l \in leases, NEW v, ActiveLease(jobs[l.run], l, v, now),
         \/ UnleasedStep
         \/ \E h \in leases : \E w, t, row :
              /\ h # l
              /\ ActiveLease(jobs[h.run], h, w, t)
              /\ jobs' = [jobs EXCEPT ![h.run] = row]
  PROVE  jobs'[l.run] = jobs[l.run]
  <1> DEFINE Goal == jobs'[l.run] = jobs[l.run]
  <1>1. /\ l.run \in Runs
        /\ jobs \in [Runs -> JobRow] /\ jobs[l.run] \in JobRow
        /\ now \in Nat
    BY DEF QueueInv, QueueTypeOK, Lease
  <1>2. /\ jobs[l.run].state = "leased"
        /\ jobs[l.run].token = l.token
        /\ jobs[l.run].expires > now /\ jobs[l.run].expires \in Nat
    BY <1>1 DEF ActiveLease, JobRow
  <1>3. \A t \in 0..now : ~Claimable(jobs[l.run], t) /\ ~Exhausted(jobs[l.run], t)
    BY <1>1, <1>2 DEF Claimable, Exhausted, LeaseOver
  <1>4. \A t \in 0..now : ExpireExhausted(t)[l.run] = jobs[l.run]
    BY <1>1, <1>3 DEF ExpireExhausted
  <1>5. CASE UNCHANGED queueVars \/ Tick
    BY <1>5 DEF queueVars, Tick
  <1>6. ASSUME NEW q \in Runs, SaveQueuedRun(q, now) \/ Enqueue(q, now) PROVE Goal
    <2>1. jobs[q] = NoJob /\ jobs' = [jobs EXCEPT ![q] = QueuedJob(now)]
      BY <1>6 DEF SaveQueuedRun, Enqueue
    <2>2. q # l.run
      BY <1>2, <2>1 DEF NoJob
    <2> QED
      BY <1>1, <2>1, <2>2
  <1>7. ASSUME NEW w \in Workers, NEW t \in 0..now, NEW q \in Runs,
               NEW locked \in SUBSET Runs, Claim(w, t, q, locked)
        PROVE  Goal
    <2>1. q # l.run
      BY <1>3, <1>7 DEF Claim, FirstClaimable
    <2>2. jobs'[l.run] = ExpireExhausted(t)[l.run]
      BY <1>1, <1>7, <2>1, ClaimRows
    <2> QED
      BY <1>4, <2>2
  <1>8. ASSUME NEW t \in 0..now, NEW locked \in SUBSET Runs, ClaimNone(t, locked)
        PROVE  Goal
    BY <1>4, <1>8 DEF ClaimNone
  <1>9. ASSUME NEW h \in leases, h # l, NEW w, NEW t,
               ActiveLease(jobs[h.run], h, w, t),
               NEW row, jobs' = [jobs EXCEPT ![h.run] = row]
        PROVE  Goal
    <2>1. h.token # l.token
      BY <1>9 DEF QueueInv, TokensAreUnique
    <2>2. h.run # l.run
      BY <1>2, <1>9, <2>1 DEF ActiveLease
    <2> QED
      BY <1>1, <1>9, <2>2
  <1> QED
    BY <1>5, <1>6, <1>7, <1>8, <1>9 DEF UnleasedStep

\* A thread that does not move stays punctual while time stands still and its
\* row is kept.
LEMMA OthersStayPunctual ==
  ASSUME NEW v \in Workers, PunctualThread(v), now' = now,
         task'[v] = task[v], beat'[v] = beat[v],
         BeatInv(v), TaskInv(v),
         task[v].lease # NoLease => jobs'[task[v].lease.run] = jobs[task[v].lease.run]
  PROVE  PunctualThread(v)'
  <1>1. beat[v].state = "waiting" \/ task[v].pc = "get" => task[v].lease # NoLease
    BY DEF TaskInv, BeatInv
  <1> QED
    BY <1>1 DEF PunctualThread, ActiveLease

\* A worker between two jobs is punctual.
LEMMA IdleIsPunctual ==
  ASSUME WorkerInv, NEW w \in Workers, EndRunOne(w) \/ EndAndWait(w)
  PROVE  PunctualThread(w)'
  <1>1. task \in [Workers -> Task] /\ beat \in [Workers -> Beat]
    BY DEF WorkerInv, WorkerTypeOK
  <1>2. \E a : task'[w] = [IdleTask EXCEPT !.at = a]
    <2>1. CASE EndRunOne(w)
      <3>1. task'[w] = IdleTask
        BY <1>1, <2>1 DEF EndRunOne
      <3>2. IdleTask = [IdleTask EXCEPT !.at = 0]
        BY DEF IdleTask
      <3> QED
        BY <3>1, <3>2
    <2>2. CASE EndAndWait(w)
      BY <1>1, <2>2 DEF EndAndWait
    <2> QED
      BY <2>1, <2>2
  <1>3. task'[w].pc = "idle" /\ task'[w].lease = NoLease
    BY <1>2 DEF IdleTask
  <1>4. beat'[w].state = "off"
    BY <1>1 DEF EndRunOne, EndAndWait, NoBeat
  <1> QED
    BY <1>3, <1>4 DEF PunctualThread, Calling

\* The clock ticks only when nothing is due: every lease outlasts the tick.
LEMMA TickKeepsPunctual ==
  ASSUME WorkerInv, PunctualInv, Timely, TimePasses
  PROVE  PunctualInv'
  <1> SUFFICES ASSUME faults = 0, NEW w \in Workers
               PROVE  zombies = {} /\ PunctualThread(w)'
    BY DEF PunctualInv, TimePasses, workerVars
  <1>1. /\ now \in Nat /\ task[w] \in Task /\ beat[w] \in Beat
        /\ beat[w].at \in Nat
        /\ TaskInv(w) /\ BeatInv(w)
        /\ task[w].lease # NoLease => task[w].lease \in leases
    BY ThreadFacts
  <1>2. zombies = {} /\ PunctualThread(w)
    BY DEF PunctualInv
  <1>3. ~Due(w)
    BY DEF TimePasses
  <1>4. /\ task[w].pc \notin Calling \cup {"get", "join"}
        /\ beat[w].state # "sending"
        /\ ~BeatDue(w)
    BY <1>3 DEF Due
  <1>5. /\ now' = now + 1
        /\ UNCHANGED <<tokens, leases, jobs, runs, task, beat, zombies, faults>>
    BY DEF TimePasses, Tick, workerVars
  <1>6. CASE task[w].lease = NoLease
    <2>1. task[w].pc = "idle" /\ beat[w].state = "off"
      BY <1>1, <1>4, <1>6 DEF TaskInv, BeatInv, Calling, Beat
    <2> QED
      BY <1>2, <1>5, <1>6, <2>1 DEF PunctualThread, Calling
  <1>7. CASE task[w].lease # NoLease
    <2> DEFINE row == jobs[task[w].lease.run]
    <2>1. task[w].pc = "execute" /\ beat[w].state = "waiting"
      BY <1>1, <1>2, <1>4, <1>7 DEF TaskInv, Calling, Task, Beat, PunctualThread
    <2>2. row \in JobRow /\ row.expires \in Nat
      BY <1>1, <1>7 DEF WorkerInv, QueueInv, QueueTypeOK, Lease, JobRow
    <2>3. /\ HeartbeatInterval \in Nat \ {0} /\ LeaseSeconds \in Nat
          /\ 2 * HeartbeatInterval <= LeaseSeconds
      BY WorkerAssumption, QueueAssumption
    <2>4. now < beat[w].at + HeartbeatInterval
      BY <1>1, <1>4, <2>1, <2>3 DEF BeatDue
    <2>5. row.expires >= beat[w].at + LeaseSeconds
      BY <1>2, <2>1 DEF PunctualThread
    <2>6. ActiveLease(row, task[w].lease, w, now)
      BY <1>2, <1>7 DEF PunctualThread
    <2> HIDE DEF row
    <2>7. now + 1 <= beat[w].at + HeartbeatInterval /\ row.expires > now + 1
      BY <1>1, <2>2, <2>3, <2>4, <2>5
    <2>8. ActiveLease(row, task[w].lease, w, now + 1)
      BY <2>6, <2>7 DEF ActiveLease
    <2> QED
      BY <1>2, <1>5, <2>1, <2>5, <2>7, <2>8 DEF PunctualThread, Calling, row
  <1> QED
    BY <1>2, <1>6, <1>7

\* A step of w, the clock standing still, in which the rows of the others' active
\* leases are kept.
LEMMA OwnStepPunctual ==
  ASSUME WorkerInv, PunctualInv, faults = 0, NEW w \in Workers,
         UnleasedStep \/ (\E row : /\ task[w].lease # NoLease
                                   /\ jobs' = [jobs EXCEPT ![task[w].lease.run] = row]
                                   /\ \E t : ActiveLease(jobs[task[w].lease.run],
                                                         task[w].lease, w, t)),
         now' = now, zombies' = zombies,
         \A v \in Workers \ {w} : task'[v] = task[v] /\ beat'[v] = beat[v],
         PunctualThread(w)'
  PROVE  PunctualInv'
  <1>1. zombies = {} /\ \A v \in Workers : PunctualThread(v)
    BY DEF PunctualInv
  <1>2. ASSUME NEW v \in Workers \ {w} PROVE PunctualThread(v)'
    <2>1. /\ TaskInv(v) /\ BeatInv(v) /\ QueueInv
          /\ task[v].lease # NoLease => task[v].lease \in leases
      BY ThreadFacts DEF RowsInv
    <2>2. task[w].lease # NoLease => task[w].lease \in leases
      BY ThreadFacts
    <2>3. ASSUME task[v].lease # NoLease
          PROVE  jobs'[task[v].lease.run] = jobs[task[v].lease.run]
      <3>1. ActiveLease(jobs[task[v].lease.run], task[v].lease, v, now)
        BY <1>1, <2>3 DEF PunctualThread
      <3>2. task[v].lease # task[w].lease
        BY <1>2, <2>3 DEF WorkerInv, ThreadInv, OneThreadPerLease
      <3>3. task[v].lease \in leases
        BY <2>1, <2>3
      <3>4. PICK l \in leases : l = task[v].lease
        BY <3>3
      <3>5. ActiveLease(jobs[l.run], l, v, now)
        BY <3>1, <3>4
      <3>6. CASE UnleasedStep
        BY <2>1, <3>4, <3>5, <3>6, ActiveRowStays
      <3>7. ASSUME NEW row, NEW t, task[w].lease # NoLease,
                   jobs' = [jobs EXCEPT ![task[w].lease.run] = row],
                   ActiveLease(jobs[task[w].lease.run], task[w].lease, w, t)
            PROVE  jobs'[l.run] = jobs[l.run]
        <4>1. PICK h \in leases : h = task[w].lease
          BY <2>2, <3>7
        <4>2. /\ h # l
              /\ ActiveLease(jobs[h.run], h, w, t)
              /\ jobs' = [jobs EXCEPT ![h.run] = row]
          BY <3>2, <3>4, <3>7, <4>1
        <4> QED
          BY <2>1, <3>5, <4>2, ActiveRowStays
      <3> QED
        BY <3>4, <3>6, <3>7
    <2> QED
      BY <1>1, <1>2, <2>1, <2>3, OthersStayPunctual
  <1> QED
    BY <1>1, <1>2 DEF PunctualInv

(* A step of a worker's task keeps its heartbeat punctual. *)
LEMMA WorkerStepPunctual ==
  ASSUME WorkerInv, PunctualInv, NEW w \in Workers, WorkerStep(w), faults' = 0
  PROVE  PunctualInv'
  <1>1. /\ RowsInv
        /\ task \in [Workers -> Task] /\ beat \in [Workers -> Beat]
        /\ task[w] \in Task /\ beat[w] \in Beat
        /\ TaskInv(w) /\ BeatInv(w)
        /\ now \in Nat
        /\ task[w].pc # "idle" => task[w].at \in 0..now
        /\ task[w].lease # NoLease => task[w].lease \in leases
        /\ faults \in Nat
    BY ThreadFacts, WorkerAssumption
  <1>2. ~Fault /\ faults = 0
    <2>1. ~Fault
      BY <1>1 DEF Fault
    <2> QED
      BY <2>1 DEF WorkerStep, BeginClaim, ClaimJob, ClaimNothing, GetRun, GetMissing,
           Execute, JoinKept, JoinLost, Finish, FinishRejected, AnswerLost
  <1>3. PunctualThread(w)
    BY <1>2 DEF PunctualInv
  <1>4. ASSUME UNCHANGED <<queueVars, zombies>>, PunctualThread(w)',
               \A v \in Workers \ {w} : task'[v] = task[v] /\ beat'[v] = beat[v]
        PROVE  PunctualInv'
    BY <1>2, <1>4, OwnStepPunctual DEF UnleasedStep, queueVars
  <1>5. CASE BeginClaim(w)
    <2>1. /\ task'[w].pc = "claim" /\ task'[w].at = now
          /\ task'[w].lease = NoLease /\ beat'[w].state = "off"
      BY <1>1, <1>5 DEF BeginClaim, TaskInv, BeatInv, Task
    <2>2. PunctualThread(w)'
      BY <1>5, <2>1 DEF PunctualThread, BeginClaim, queueVars
    <2> QED
      BY <1>1, <1>4, <1>5, <2>2 DEF BeginClaim
  <1>6. CASE ClaimJob(w)
    <2>1. task[w].pc = "claim" /\ task[w].at = now /\ beat[w].state = "off"
      BY <1>1, <1>3, <1>6 DEF ClaimJob, PunctualThread, Calling, BeatInv
    <2>2. PICK q \in Runs, locked \in SUBSET Runs :
            /\ Claim(w, now, q, locked)
            /\ task' = [task EXCEPT ![w] =
                          [@ EXCEPT !.pc = "get", !.lease = NewLease(q)]]
            /\ UNCHANGED <<beat, zombies, faults>>
      BY <1>2, <1>6, <2>1 DEF ClaimJob, AnswerLost, MayBeLocked
    <2>3. now \in 0..now
      BY <1>1
    <2>4. /\ jobs'[q].state = "leased"
          /\ jobs'[q].token = tokens + 1
          /\ jobs'[q].owner = w
          /\ jobs'[q].expires = now + LeaseSeconds
          /\ NewLease(q).run = q /\ NewLease(q).token = tokens + 1
      BY <1>1, <2>2, <2>3, ClaimRows DEF RowsInv
    <2>5. task'[w].pc = "get" /\ task'[w].lease = NewLease(q)
      BY <1>1, <2>2 DEF Task
    <2>6. now + LeaseSeconds > now /\ now' = now
      BY <1>1, <2>2, QueueAssumption DEF Claim
    <2>7. ActiveLease(jobs'[q], NewLease(q), w, now)
      BY <2>4, <2>6 DEF ActiveLease
    <2>8. now + LeaseSeconds >= now + LeaseSeconds
      BY <1>1, QueueAssumption
    <2>9. PunctualThread(w)'
      BY <2>1, <2>2, <2>4, <2>5, <2>6, <2>7, <2>8 DEF PunctualThread, Calling
    <2>10. UnleasedStep
      BY <2>2, <2>3 DEF UnleasedStep
    <2>11. \A v \in Workers \ {w} : task'[v] = task[v] /\ beat'[v] = beat[v]
      BY <1>1, <2>2
    <2> QED
      BY <1>2, <2>2, <2>6, <2>9, <2>10, <2>11, OwnStepPunctual
  <1>7. CASE ClaimNothing(w)
    <2>1. PICK locked \in SUBSET Runs : ClaimNone(task[w].at, locked)
      BY <1>7 DEF ClaimNothing, MayBeLocked
    <2>2. task[w].at \in 0..now
      BY <1>1, <1>7 DEF ClaimNothing
    <2>3. UnleasedStep /\ now' = now
      BY <2>1, <2>2 DEF UnleasedStep, ClaimNone
    <2>4. EndAndWait(w) /\ zombies' = zombies
      BY <1>7 DEF ClaimNothing
    <2>5. PunctualThread(w)'
      BY <2>4, IdleIsPunctual
    <2>6. \A v \in Workers \ {w} : task'[v] = task[v] /\ beat'[v] = beat[v]
      BY <1>1, <2>4 DEF EndAndWait
    <2> QED
      BY <1>2, <2>3, <2>4, <2>5, <2>6, OwnStepPunctual
  <1>8. CASE GetRun(w)
    <2>1. task[w].pc = "get" /\ task[w].lease # NoLease
      BY <1>1, <1>8 DEF GetRun, TaskInv
    <2>2. /\ task'[w].pc = "execute" /\ task'[w].lease = task[w].lease
          /\ beat'[w].state = "waiting" /\ beat'[w].at = now
      BY <1>1, <1>8 DEF GetRun, Task, NoBeat
    <2>3. now <= now + HeartbeatInterval
      BY <1>1, WorkerAssumption
    <2>4. PunctualThread(w)'
      BY <1>3, <1>8, <2>1, <2>2, <2>3 DEF PunctualThread, GetRun, Calling, queueVars
    <2> QED
      BY <1>1, <1>4, <1>8, <2>4 DEF GetRun
  <1>9. CASE GetMissing(w)
    <2>1. task[w].pc = "get" /\ beat[w].state = "off"
      BY <1>1, <1>9 DEF GetMissing, BeatInv
    <2>2. /\ task'[w].pc = "missing" /\ task'[w].lease = task[w].lease
          /\ task'[w].at = now /\ beat'[w] = beat[w]
      BY <1>1, <1>9 DEF GetMissing, Task
    <2>3. PunctualThread(w)'
      BY <1>3, <1>9, <2>1, <2>2 DEF PunctualThread, GetMissing, queueVars
    <2> QED
      BY <1>1, <1>4, <1>9, <2>3 DEF GetMissing
  <1>10. CASE Execute(w)
    <2>1. task'[w].pc = "join" /\ task'[w].lease = task[w].lease
      BY <1>1, <1>10 DEF Execute, Task
    <2>2. /\ beat'[w].state # "waiting"
          /\ beat'[w].state = "sending" => beat[w].state = "sending"
          /\ beat'[w].at = beat[w].at
      BY <1>1, <1>10 DEF Execute, Beat
    <2>3. PunctualThread(w)'
      BY <1>3, <1>10, <2>1, <2>2 DEF PunctualThread, Execute, Calling, queueVars
    <2> QED
      BY <1>1, <1>4, <1>10, <2>3 DEF Execute
  <1>11. CASE JoinKept(w)
    <2>1. PICK pc \in {"commit", "retry"} : pc = Recorded(w)
      BY DEF Recorded
    <2>2. /\ task'[w].pc = pc /\ task'[w].lease = task[w].lease
          /\ task'[w].at = now /\ beat'[w] = beat[w] /\ beat[w].state = "off"
      BY <1>1, <1>11, <2>1 DEF JoinKept, Task
    <2>3. PunctualThread(w)'
      BY <1>3, <1>11, <2>2 DEF PunctualThread, JoinKept, queueVars
    <2> QED
      BY <1>1, <1>4, <1>11, <2>3 DEF JoinKept
  <1>12. CASE JoinLost(w) \/ FinishRejected(w)
    <2>1. EndAndWait(w) /\ UNCHANGED <<queueVars, zombies>>
      BY <1>12 DEF JoinLost, FinishRejected
    <2>2. PunctualThread(w)'
      BY <2>1, IdleIsPunctual
    <2> QED
      BY <1>1, <1>4, <2>1, <2>2 DEF EndAndWait
  <1>13. CASE Finish(w)
    <2>1. CallApplied(w) /\ EndRunOne(w) /\ zombies' = zombies
      BY <1>2, <1>13 DEF Finish, AnswerLost
    <2>2. /\ task[w].pc \in {"missing", "retry", "commit"}
          /\ ActiveLease(jobs[task[w].lease.run], task[w].lease, w, task[w].at)
          /\ \E row : jobs' = [jobs EXCEPT ![task[w].lease.run] = row]
          /\ now' = now
      BY <2>1 DEF CallApplied, Fail, CommitLeasedResult
    <2>3. task[w].lease # NoLease
      BY <1>1, <2>2 DEF TaskInv
    <2>4. PunctualThread(w)'
      BY <2>1, IdleIsPunctual
    <2>5. \A v \in Workers \ {w} : task'[v] = task[v] /\ beat'[v] = beat[v]
      BY <1>1, <2>1 DEF EndRunOne
    <2> QED
      BY <1>2, <2>1, <2>2, <2>3, <2>4, <2>5, OwnStepPunctual
  <1> QED
    BY <1>5, <1>6, <1>7, <1>8, <1>9, <1>10, <1>11, <1>12, <1>13 DEF WorkerStep

(* A step of the heartbeat thread keeps it punctual. *)
LEMMA BeatStepPunctual ==
  ASSUME WorkerInv, PunctualInv, NEW w \in Workers, BeatStep(w), faults' = 0
  PROVE  PunctualInv'
  <1>1. /\ task \in [Workers -> Task] /\ beat \in [Workers -> Beat]
        /\ task[w] \in Task /\ beat[w] \in Beat
        /\ TaskInv(w) /\ BeatInv(w)
        /\ now \in Nat
    BY ThreadFacts
  <1>2. faults = 0
    BY DEF BeatStep, BeginBeat, BeatKept, BeatRejected
  <1>3. PunctualThread(w)
    BY <1>2 DEF PunctualInv
  <1>4. \A v \in Workers \ {w} : task'[v] = task[v] /\ beat'[v] = beat[v]
    BY <1>1 DEF BeatStep, BeginBeat, BeatKept, BeatRejected, BeatIsLost
  <1>5. CASE BeginBeat(w)
    <2>1. beat'[w].state = "sending" /\ beat'[w].at = now /\ task'[w] = task[w]
      BY <1>1, <1>5 DEF BeginBeat, Beat
    <2>2. UNCHANGED <<queueVars, zombies>> /\ now' = now
      BY <1>5 DEF BeginBeat, queueVars
    <2>3. PunctualThread(w)'
      BY <1>3, <2>1, <2>2 DEF PunctualThread, queueVars
    <2> QED
      BY <1>2, <1>4, <2>2, <2>3, OwnStepPunctual DEF UnleasedStep
  <1>6. CASE BeatKept(w)
    <2> DEFINE l == task[w].lease
    <2>1. /\ task[w].pc \in {"execute", "join"} /\ l # NoLease /\ l \in leases
          /\ beat[w].at = now
      BY <1>1, <1>3, <1>6 DEF BeatKept, BeatInv, TaskInv, Held, PunctualThread
    <2>2. /\ ActiveLease(jobs[l.run], l, w, now)
          /\ jobs' = [jobs EXCEPT ![l.run] =
                        [jobs[l.run] EXCEPT !.expires = now + LeaseSeconds]]
          /\ UNCHANGED <<now, tokens, leases, runs, task, zombies>>
      BY <1>6, <2>1 DEF BeatKept, Heartbeat
    <2>3. l.run \in Runs /\ jobs \in [Runs -> JobRow] /\ jobs[l.run] \in JobRow
      BY <2>1 DEF WorkerInv, QueueInv, QueueTypeOK, Lease
    <2>4. PICK s \in {"off", "waiting"} :
            /\ s = "off" => task[w].pc = "join"
            /\ beat'[w] = [beat[w] EXCEPT !.state = s, !.at = now]
      BY <1>1, <1>6 DEF BeatKept
    <2>5. beat'[w].state = s /\ beat'[w].at = now
      BY <1>1, <2>4 DEF Beat
    <2> HIDE DEF l
    <2>6. /\ jobs'[l.run].state = jobs[l.run].state
          /\ jobs'[l.run].owner = jobs[l.run].owner
          /\ jobs'[l.run].token = jobs[l.run].token
          /\ jobs'[l.run].expires = now + LeaseSeconds
      BY <2>2, <2>3 DEF JobRow
    <2>7. /\ now + LeaseSeconds > now /\ now + LeaseSeconds >= now + LeaseSeconds
          /\ now <= now + HeartbeatInterval
      BY <1>1, QueueAssumption, WorkerAssumption
    <2>8. ActiveLease(jobs'[l.run], l, w, now)
      BY <2>2, <2>6, <2>7 DEF ActiveLease
    <2>9. PunctualThread(w)'
      BY <2>1, <2>2, <2>4, <2>5, <2>6, <2>7, <2>8 DEF PunctualThread, Calling, l
    <2> QED
      BY <1>2, <1>4, <2>1, <2>2, <2>9, OwnStepPunctual DEF l
  <1>7. CASE BeatRejected(w)
    <2>1. task[w].lease # NoLease /\ beat[w].at = now
      BY <1>1, <1>3, <1>7 DEF BeatRejected, BeatInv, TaskInv, PunctualThread
    <2>2. ActiveLease(jobs[task[w].lease.run], task[w].lease, w, now)
      BY <1>3, <2>1 DEF PunctualThread
    <2> QED
      BY <1>7, <2>1, <2>2 DEF BeatRejected
  <1> QED
    BY <1>5, <1>6, <1>7 DEF BeatStep

(* Without a fault every step keeps every heartbeat punctual. *)
LEMMA StepKeepsPunctual ==
  ASSUME WorkerInv, PunctualInv, Timely, [Next]_vars
  PROVE  PunctualInv'
  <1>1. CASE UNCHANGED vars
    BY <1>1 DEF vars, queueVars, workerVars, PunctualInv, PunctualThread,
                ActiveLease
  <1>2. CASE TimePasses
    BY <1>2, TickKeepsPunctual
  <1>3. ASSUME NEW r \in Runs, Submit(r) \/ EnqueueOrphan(r) PROVE PunctualInv'
    <2>1. /\ UnleasedStep /\ now' = now
          /\ UNCHANGED <<task, beat, zombies, faults>>
      BY <1>3 DEF Submit, EnqueueOrphan, UnleasedStep, SaveQueuedRun, Enqueue,
                  workerVars
    <2> SUFFICES ASSUME faults = 0, NEW v \in Workers
                 PROVE  zombies = {} /\ PunctualThread(v)'
      BY <2>1 DEF PunctualInv
    <2>2. zombies = {} /\ PunctualThread(v)
      BY DEF PunctualInv
    <2>3. /\ TaskInv(v) /\ BeatInv(v) /\ QueueInv
          /\ task[v].lease # NoLease => task[v].lease \in leases
      BY ThreadFacts DEF RowsInv
    <2>4. ASSUME task[v].lease # NoLease
          PROVE  jobs'[task[v].lease.run] = jobs[task[v].lease.run]
      <3>1. ActiveLease(jobs[task[v].lease.run], task[v].lease, v, now)
        BY <2>2, <2>4 DEF PunctualThread
      <3>2. task[v].lease \in leases
        BY <2>3, <2>4
      <3> QED
        BY <2>1, <2>3, <3>1, <3>2, ActiveRowStays
    <2> QED
      BY <2>1, <2>2, <2>3, <2>4, OthersStayPunctual
  <1>4. CASE faults' # 0
    BY <1>4 DEF PunctualInv
  <1>5. ASSUME NEW w \in Workers, WorkerStep(w) \/ BeatStep(w), faults' = 0
        PROVE  PunctualInv'
    BY <1>5, WorkerStepPunctual, BeatStepPunctual
  <1>6. ASSUME NEW w \in Workers, FaultStep(w) PROVE PunctualInv'
    <2>1. Fault
      BY <1>6 DEF FaultStep, JoinTimeout, CallFails, Crash, BeatFails
    <2>2. faults' # 0
      BY <2>1 DEF Fault, WorkerInv, WorkerTypeOK
    <2> QED
      BY <1>4, <2>2
  <1>7. ASSUME NEW z \in zombies, ZombieBeat(z) PROVE PunctualInv'
    BY <1>7 DEF ZombieBeat, PunctualInv
  <1> QED
    BY <1>1, <1>2, <1>3, <1>4, <1>5, <1>6, <1>7 DEF Next

\* A heartbeat every half lease is enough: workers and a database that keep up
\* with the clock, and meet no fault, never lose a lease, however long the
\* harness executes.
THEOREM HeartbeatSuffices ==
  Timely => (Spec => [](faults = 0 => HeartbeatKeepsLease))
  <1> SUFFICES ASSUME Timely PROVE Spec => [](faults = 0 => HeartbeatKeepsLease)
    OBVIOUS
  <1>1. Init => PunctualInv
    <2> SUFFICES ASSUME Init PROVE PunctualInv
      OBVIOUS
    <2>1. zombies = {} /\ \A w \in Workers : task[w] = IdleTask /\ beat[w] = NoBeat
      BY DEF Init
    <2>2. \A w \in Workers : /\ task[w].pc = "idle" /\ task[w].lease = NoLease
                             /\ beat[w].state = "off"
      BY <2>1 DEF IdleTask, NoBeat
    <2> QED
      BY <2>1, <2>2 DEF PunctualInv, PunctualThread, Calling
  <1>2. WorkerInv /\ PunctualInv /\ [Next]_vars => PunctualInv'
    BY StepKeepsPunctual
  <1>3. PunctualInv => (faults = 0 => HeartbeatKeepsLease)
    BY DEF PunctualInv, PunctualThread, HeartbeatKeepsLease
  <1> QED
    BY <1>1, <1>2, <1>3, WorkerInvariance, PTL DEF Spec

=============================================================================
