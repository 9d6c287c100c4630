------------------------- MODULE RunJobQueueProofs -------------------------
(***************************************************************************)
(* Proofs about RunJobQueue, for any set of runs and workers, any attempt  *)
(* limit, lease length and retry delay, and arbitrary clients.             *)
(***************************************************************************)
EXTENDS RunJobQueue, TLAPS

-----------------------------------------------------------------------------
(* The inductive invariant *)

\* A lease is known by its token.
TokensAreUnique ==
  /\ \A l \in leases : l.token <= tokens
  /\ \A l, m \in leases : l.token = m.token => l = m

\* The token of a leased row belongs to the lease of its newest attempt, and
\* the row has no failure alias; no other row has a token.
RowsFollowLeases ==
  \A r \in Runs :
    /\ jobs[r].state # "leased" => jobs[r].token = NoToken
    /\ jobs[r].state = "leased" => jobs[r].alias = "none"
    /\ jobs[r].state = "leased" =>
         \E l \in leases : /\ l.run = r
                           /\ l.token = jobs[r].token
                           /\ l.attempt = jobs[r].attempts

QueueInv ==
  /\ QueueTypeOK
  /\ TokensAreUnique
  /\ RowsFollowLeases
  /\ AttemptsHandedOutOnce
  /\ StoredResultIsNewest

-----------------------------------------------------------------------------
(* Lemmas about rows *)

\* A row whose lease is cleared keeps its shape and its other columns.
LEMMA ReleasedType ==
  ASSUME NEW j \in JobRow
  PROVE  /\ Released(j) \in JobRow
         /\ Released(j).token = NoToken
         /\ Released(j).attempts = j.attempts
         /\ Released(j).state = j.state
  BY QueueAssumption DEF Released, JobRow, NoToken

\* Leaving a job sets its state and alias and clears its lease.
LEMMA LeftAsType ==
  ASSUME NEW j \in JobRow, NEW s \in {"queued"} \cup Terminal, NEW a \in Aliases
  PROVE  /\ LeftAs(j, s, a) \in JobRow
         /\ LeftAs(j, s, a).state = s
         /\ LeftAs(j, s, a).alias = a
         /\ LeftAs(j, s, a).token = NoToken
         /\ LeftAs(j, s, a).attempts = j.attempts
  <1>1. LeftAs(j, s, a) \in JobRow
    BY ReleasedType DEF LeftAs, JobRow, Live
  <1> QED
    BY <1>1, ReleasedType DEF LeftAs, JobRow

\* A leased row has the shape of the table.
LEMMA LeasedToType ==
  ASSUME NEW j \in JobRow, NEW w \in Workers, NEW k \in Nat, NEW e \in Nat
  PROVE  LeasedTo(j, w, k, e) \in JobRow
  <1>1. "none" \in Aliases /\ "leased" \in Live /\ j.attempts + 1 \in Nat
    BY DEF Aliases, Live, JobRow
  <1> QED
    BY <1>1 DEF LeasedTo, JobRow

\* Failing the exhausted jobs keeps every other row and the shape of all.
LEMMA ExpireExhaustedType ==
  ASSUME QueueTypeOK, NEW t
  PROVE  /\ ExpireExhausted(t) \in [Runs -> JobRow]
         /\ \A r \in Runs :
              \/ ExpireExhausted(t)[r] = jobs[r]
              \/ /\ jobs[r].state \in Live
                 /\ jobs[r].attempts >= MaxAttempts
                 /\ jobs[r].state = "leased" => jobs[r].expires <= t
                 /\ ExpireExhausted(t)[r].state = "failed"
                 /\ ExpireExhausted(t)[r].token = NoToken
                 /\ ExpireExhausted(t)[r].attempts = jobs[r].attempts
  <1>1. ASSUME NEW r \in Runs, Exhausted(jobs[r], t)
        PROVE  /\ ExpireExhausted(t)[r] \in JobRow
               /\ jobs[r].state \in Live
               /\ jobs[r].attempts >= MaxAttempts
               /\ jobs[r].state = "leased" => jobs[r].expires <= t
               /\ ExpireExhausted(t)[r].state = "failed"
               /\ ExpireExhausted(t)[r].token = NoToken
               /\ ExpireExhausted(t)[r].attempts = jobs[r].attempts
    <2>1. jobs[r] \in JobRow
      BY DEF QueueTypeOK
    <2>2. ExpireExhausted(t)[r]
            = LeftAs(jobs[r], "failed", "attempt-limit-exhausted")
      BY <1>1 DEF ExpireExhausted
    <2>3. "failed" \in Terminal /\ "attempt-limit-exhausted" \in Aliases
      BY DEF Terminal, Aliases
    <2> QED
      BY <1>1, <2>1, <2>2, <2>3, LeftAsType DEF Exhausted, LeaseOver, Live
  <1>2. ASSUME NEW r \in Runs, ~Exhausted(jobs[r], t)
        PROVE  /\ ExpireExhausted(t)[r] = jobs[r]
               /\ ExpireExhausted(t)[r] \in JobRow
    BY <1>2 DEF QueueTypeOK, ExpireExhausted
  <1>3. ExpireExhausted(t) \in [Runs -> JobRow]
    BY <1>1, <1>2 DEF ExpireExhausted
  <1> QED
    BY <1>1, <1>2, <1>3

-----------------------------------------------------------------------------
(* What the holder of a lease does to its row *)

\* A call that matches a row under an issued lease: the lease is the row's
\* newest attempt, and no result is stored yet.
LEMMA ActiveLeaseIsNewest ==
  ASSUME QueueInv, NEW lease \in leases, NEW w, NEW t,
         ActiveLease(jobs[lease.run], lease, w, t)
  PROVE  /\ lease.run \in Runs
         /\ jobs[lease.run] \in JobRow
         /\ jobs[lease.run].state = "leased"
         /\ lease.attempt = jobs[lease.run].attempts
         /\ runs[lease.run].status \notin Terminal
  <1>1. lease \in Lease /\ lease.run \in Runs
    BY DEF QueueInv, QueueTypeOK, Lease
  <1>2. jobs[lease.run] \in JobRow
    BY <1>1 DEF QueueInv, QueueTypeOK
  <1>3. jobs[lease.run].state = "leased" /\ jobs[lease.run].token = lease.token
    BY DEF ActiveLease
  <1>4. PICK m \in leases : /\ m.run = lease.run
                            /\ m.token = lease.token
                            /\ m.attempt = jobs[lease.run].attempts
    BY <1>1, <1>3 DEF QueueInv, RowsFollowLeases
  <1>5. m = lease
    BY <1>4 DEF QueueInv, TokensAreUnique
  <1>6. runs[lease.run].status \notin Terminal
    BY <1>1, <1>3 DEF QueueInv, StoredResultIsNewest, Terminal
  <1> QED
    BY <1>1, <1>2, <1>3, <1>4, <1>5, <1>6

\* The holder changes its row, keeping the attempt count: the lease is kept or
\* cleared, and no result is stored.
LEMMA HolderKeepsInv ==
  ASSUME QueueInv, NEW lease \in leases, NEW w, NEW t, NEW row \in JobRow,
         ActiveLease(jobs[lease.run], lease, w, t),
         row.attempts = jobs[lease.run].attempts,
         row.token = IF row.state = "leased" THEN lease.token ELSE NoToken,
         row.state = "leased" => row.alias = "none",
         jobs' = [jobs EXCEPT ![lease.run] = row],
         UNCHANGED <<now, tokens, leases, runs>>
  PROVE  QueueInv'
  <1>1. /\ lease.run \in Runs
        /\ jobs[lease.run].state = "leased"
        /\ lease.attempt = jobs[lease.run].attempts
        /\ runs[lease.run].status \notin Terminal
    BY ActiveLeaseIsNewest
  <1>2. QueueTypeOK'
    BY <1>1 DEF QueueInv, QueueTypeOK
  <1>3. \A r \in Runs : jobs'[r] = IF r = lease.run THEN row ELSE jobs[r]
    BY <1>1 DEF QueueInv, QueueTypeOK
  <1>4. TokensAreUnique'
    BY DEF QueueInv, TokensAreUnique
  <1>5. RowsFollowLeases'
    BY <1>1, <1>3 DEF QueueInv, RowsFollowLeases
  <1>6. AttemptsHandedOutOnce'
    BY <1>3 DEF QueueInv, AttemptsHandedOutOnce
  <1>7. StoredResultIsNewest'
    BY <1>1, <1>3 DEF QueueInv, StoredResultIsNewest
  <1> QED
    BY <1>2, <1>4, <1>5, <1>6, <1>7 DEF QueueInv

\* commit_leased_result: the job ends and the result of this lease is stored.
LEMMA CommitKeepsInv ==
  ASSUME QueueInv, NEW lease \in leases, NEW w, NEW t,
         NEW status \in Terminal, NEW alias \in Aliases,
         CommitLeasedResult(w, lease, t, status, alias)
  PROVE  QueueInv'
  <1> DEFINE row == LeftAs(jobs[lease.run], status, alias)
  <1> DEFINE result == [status |-> status, alias |-> alias, by |-> lease.token]
  <1>1. /\ lease.run \in Runs
        /\ jobs[lease.run] \in JobRow
        /\ lease.attempt = jobs[lease.run].attempts
    BY ActiveLeaseIsNewest DEF CommitLeasedResult
  <1>2. /\ row \in JobRow
        /\ row.state = status
        /\ row.alias = alias
        /\ row.token = NoToken
        /\ row.attempts = jobs[lease.run].attempts
    <2>1. status \in {"queued"} \cup Terminal
      OBVIOUS
    <2>2. jobs[lease.run] \in JobRow
      BY <1>1
    <2>3. row \in JobRow
      BY <2>1, <2>2, LeftAsType
    <2> QED
      BY <2>2, <2>3 DEF LeftAs, Released, JobRow
  <1>3. lease.token \in Nat
    BY DEF QueueInv, QueueTypeOK, Lease
  <1>4. result \in RunRow
    BY <1>3 DEF RunRow
  <1> HIDE DEF row, result
  <1>5. /\ jobs' = [jobs EXCEPT ![lease.run] = row]
        /\ runs' = [runs EXCEPT ![lease.run] = result]
        /\ UNCHANGED <<now, tokens, leases>>
    BY DEF CommitLeasedResult, row, result
  <1>6. QueueTypeOK'
    BY <1>1, <1>2, <1>4, <1>5 DEF QueueInv, QueueTypeOK
  <1>7. \A r \in Runs : /\ jobs'[r] = IF r = lease.run THEN row ELSE jobs[r]
                        /\ runs'[r] = IF r = lease.run THEN result ELSE runs[r]
    BY <1>1, <1>5 DEF QueueInv, QueueTypeOK
  <1>8. TokensAreUnique'
    BY <1>5 DEF QueueInv, TokensAreUnique
  <1>9. RowsFollowLeases'
    BY <1>2, <1>5, <1>7 DEF QueueInv, RowsFollowLeases, Terminal
  <1>10. AttemptsHandedOutOnce'
    BY <1>2, <1>5, <1>7 DEF QueueInv, AttemptsHandedOutOnce
  <1>11. StoredResultIsNewest'
    <2> SUFFICES ASSUME NEW r \in Runs, runs'[r].status \in Terminal
                 PROVE  /\ jobs'[r].state = runs'[r].status
                        /\ jobs'[r].alias = runs'[r].alias
                        /\ \E l \in leases' : /\ l.run = r
                                              /\ l.token = runs'[r].by
                                              /\ l.attempt = jobs'[r].attempts
      BY DEF StoredResultIsNewest
    <2>1. CASE r = lease.run
      <3>1. /\ runs'[r].status = status
            /\ runs'[r].alias = alias
            /\ runs'[r].by = lease.token
        BY <1>7, <2>1 DEF result
      <3> QED
        BY <1>1, <1>2, <1>5, <1>7, <2>1, <3>1
    <2>2. CASE r # lease.run
      BY <1>5, <1>7, <2>2 DEF QueueInv, StoredResultIsNewest
    <2> QED
      BY <2>1, <2>2
  <1> QED
    BY <1>6, <1>8, <1>9, <1>10, <1>11 DEF QueueInv

-----------------------------------------------------------------------------
(* claim *)

\* claim that finds a row: its attempt is new, so no lease handed out before
\* has its token or its attempt number.
LEMMA ClaimKeepsInv ==
  ASSUME QueueInv, NEW w \in Workers, NEW t \in Nat, NEW q \in Runs,
         NEW locked, Claim(w, t, q, locked)
  PROVE  QueueInv'
  <1> DEFINE row == LeasedTo(ExpireExhausted(t)[q], w, tokens + 1, t + LeaseSeconds)
  <1> DEFINE lease == NewLease(q)
  <1>1. /\ jobs[q] \in JobRow
        /\ jobs[q].state \in Live
        /\ jobs[q].attempts < MaxAttempts
        /\ jobs[q].attempts \in Nat
        /\ tokens \in Nat
    BY DEF QueueInv, QueueTypeOK, JobRow, Claim, FirstClaimable, Claimable,
           LeaseOver, Live
  <1>2. ExpireExhausted(t)[q] = jobs[q]
    BY <1>1, QueueAssumption DEF ExpireExhausted, Exhausted
  <1>3. /\ row \in JobRow
        /\ row.state = "leased"
        /\ row.alias = "none"
        /\ row.token = tokens + 1
        /\ row.attempts = jobs[q].attempts + 1
    <2>1. PICK k \in Nat : k = tokens + 1
      BY <1>1
    <2>2. PICK e \in Nat : e = t + LeaseSeconds
      BY QueueAssumption
    <2> DEFINE given == LeasedTo(jobs[q], w, k, e)
    <2>3. given \in JobRow
      <3>1. jobs[q] \in JobRow
        BY <1>1
      <3> QED
        BY <3>1, LeasedToType
    <2>4. /\ given.state = "leased"
          /\ given.alias = "none"
          /\ given.token = k
          /\ given.attempts = jobs[q].attempts + 1
      BY <1>1 DEF LeasedTo, JobRow
    <2>5. row = given
      BY <1>2, <2>1, <2>2
    <2> QED
      BY <2>1, <2>3, <2>4, <2>5
  <1>4. /\ lease \in Lease
        /\ lease.run = q
        /\ lease.token = tokens + 1
        /\ lease.attempt = jobs[q].attempts + 1
        /\ lease.final <=> lease.attempt = MaxAttempts
    <2>1. /\ lease.run = q
          /\ lease.token = tokens + 1
          /\ lease.attempt = jobs[q].attempts + 1
          /\ lease.final = (jobs[q].attempts + 1 >= MaxAttempts)
      BY DEF NewLease, FreshToken
    <2>2. (jobs[q].attempts + 1 >= MaxAttempts)
            <=> (jobs[q].attempts + 1 = MaxAttempts)
      BY <1>1, QueueAssumption
    <2>3. lease \in Lease
      BY <1>1, QueueAssumption DEF NewLease, FreshToken, Lease
    <2> QED
      BY <2>1, <2>2, <2>3
  <1> HIDE DEF row, lease
  <1>5. /\ jobs' = [ExpireExhausted(t) EXCEPT ![q] = row]
        /\ leases' = leases \cup {lease}
        /\ tokens' = tokens + 1
        /\ UNCHANGED <<now, runs>>
    BY DEF Claim, row, lease, FreshToken
  <1>6. /\ ExpireExhausted(t) \in [Runs -> JobRow]
        /\ \A r \in Runs :
             \/ ExpireExhausted(t)[r] = jobs[r]
             \/ /\ jobs[r].state \in Live
                /\ ExpireExhausted(t)[r].state = "failed"
                /\ ExpireExhausted(t)[r].token = NoToken
                /\ ExpireExhausted(t)[r].attempts = jobs[r].attempts
    BY ExpireExhaustedType DEF QueueInv
  <1>7. QueueTypeOK'
    BY <1>1, <1>3, <1>4, <1>5, <1>6 DEF QueueInv, QueueTypeOK
  <1>8. jobs'[q] = row
    BY <1>5, <1>6
  <1>9. \A r \in Runs \ {q} :
          \/ jobs'[r] = jobs[r]
          \/ /\ jobs[r].state \in Live
             /\ jobs'[r].state = "failed"
             /\ jobs'[r].token = NoToken
             /\ jobs'[r].attempts = jobs[r].attempts
    BY <1>5, <1>6
  <1>10. \A l \in leases : l \in Lease /\ l.token <= tokens
    BY DEF QueueInv, QueueTypeOK, TokensAreUnique
  <1>11. TokensAreUnique'
    BY <1>1, <1>4, <1>5, <1>10 DEF QueueInv, TokensAreUnique, Lease
  <1>12. RowsFollowLeases'
    BY <1>3, <1>4, <1>5, <1>8, <1>9 DEF QueueInv, RowsFollowLeases
  <1>13. AttemptsHandedOutOnce'
    <2> SUFFICES ASSUME NEW r \in Runs
                 PROVE  /\ \A l \in leases' : l.run = r => l.attempt \in 1..jobs'[r].attempts
                        /\ \A l, m \in leases' :
                             l.run = r /\ m.run = r /\ l.attempt = m.attempt => l = m
                        /\ \A l \in leases' :
                             l.run = r => (l.final <=> l.attempt = MaxAttempts)
                        /\ jobs'[r].attempts <= MaxAttempts
      BY DEF AttemptsHandedOutOnce
    <2>1. /\ \A l \in leases : l.run = r => l.attempt \in 1..jobs[r].attempts
          /\ \A l, m \in leases :
               l.run = r /\ m.run = r /\ l.attempt = m.attempt => l = m
          /\ \A l \in leases : l.run = r => (l.final <=> l.attempt = MaxAttempts)
          /\ jobs[r].attempts <= MaxAttempts
      BY DEF QueueInv, AttemptsHandedOutOnce
    <2>2. CASE r = q
      <3>1. jobs'[r].attempts = jobs[r].attempts + 1
        BY <1>3, <1>8, <2>2
      <3> QED
        BY <1>1, <1>4, <1>5, <2>1, <2>2, <3>1, QueueAssumption
    <2>3. CASE r # q
      <3>1. jobs'[r].attempts = jobs[r].attempts
        BY <1>9, <2>3
      <3> QED
        BY <1>4, <1>5, <2>1, <2>3, <3>1
    <2> QED
      BY <2>2, <2>3
  <1>14. StoredResultIsNewest'
    <2> SUFFICES ASSUME NEW r \in Runs, runs[r].status \in Terminal
                 PROVE  /\ jobs'[r].state = runs[r].status
                        /\ jobs'[r].alias = runs[r].alias
                        /\ \E l \in leases' : /\ l.run = r
                                              /\ l.token = runs[r].by
                                              /\ l.attempt = jobs'[r].attempts
      BY <1>5 DEF StoredResultIsNewest
    <2>1. jobs[r].state \in Terminal
      BY DEF QueueInv, StoredResultIsNewest
    <2>2. r # q /\ jobs'[r] = jobs[r]
      BY <1>1, <1>9, <2>1 DEF Live, Terminal
    <2> QED
      BY <1>5, <2>2 DEF QueueInv, StoredResultIsNewest
  <1> QED
    BY <1>7, <1>11, <1>12, <1>13, <1>14 DEF QueueInv

\* claim that finds nothing only fails the exhausted jobs.
LEMMA ClaimNoneKeepsInv ==
  ASSUME QueueInv, NEW t \in Nat, NEW locked, ClaimNone(t, locked)
  PROVE  QueueInv'
  <1>1. /\ jobs' \in [Runs -> JobRow]
        /\ \A r \in Runs :
             \/ jobs'[r] = jobs[r]
             \/ /\ jobs[r].state \in Live
                /\ jobs'[r].state = "failed"
                /\ jobs'[r].token = NoToken
                /\ jobs'[r].attempts = jobs[r].attempts
        /\ UNCHANGED <<now, tokens, leases, runs>>
    BY ExpireExhaustedType DEF QueueInv, ClaimNone
  <1>2. QueueTypeOK'
    BY <1>1 DEF QueueInv, QueueTypeOK
  <1>3. TokensAreUnique'
    BY <1>1 DEF QueueInv, TokensAreUnique
  <1>4. RowsFollowLeases'
    BY <1>1 DEF QueueInv, RowsFollowLeases
  <1>5. AttemptsHandedOutOnce'
    BY <1>1 DEF QueueInv, AttemptsHandedOutOnce
  <1>6. StoredResultIsNewest'
    BY <1>1 DEF QueueInv, StoredResultIsNewest, Live, Terminal
  <1> QED
    BY <1>2, <1>3, <1>4, <1>5, <1>6 DEF QueueInv

-----------------------------------------------------------------------------
(* The other transactions *)

\* A new job row for a run that has none: enqueue and save_queued_run.
LEMMA NewJobKeepsInv ==
  ASSUME QueueInv, NEW q \in Runs, NEW t \in Nat,
         jobs[q] = NoJob,
         jobs' = [jobs EXCEPT ![q] = QueuedJob(t)],
         runs' = runs \/ runs' = [runs EXCEPT ![q] = RunningRun],
         UNCHANGED <<now, tokens, leases>>
  PROVE  QueueInv'
  <1>1. /\ QueuedJob(t) \in JobRow
        /\ QueuedJob(t).state = "queued"
        /\ QueuedJob(t).token = NoToken
        /\ QueuedJob(t).attempts = 0
    BY DEF QueuedJob, NoJob, JobRow, NoToken, Live, Aliases
  <1>2. /\ RunningRun \in RunRow
        /\ RunningRun.status = "running"
    BY DEF RunningRun, RunRow, NoToken, Aliases
  <1>3. jobs[q].state = "absent" /\ jobs[q].attempts = 0
    BY DEF NoJob
  <1>4. \A r \in Runs : /\ jobs'[r] = IF r = q THEN QueuedJob(t) ELSE jobs[r]
                        /\ runs'[r] = runs[r] \/ runs'[r] = RunningRun
    BY DEF QueueInv, QueueTypeOK
  <1>5. QueueTypeOK'
    BY <1>1, <1>2 DEF QueueInv, QueueTypeOK
  <1>6. TokensAreUnique'
    BY DEF QueueInv, TokensAreUnique
  <1>7. RowsFollowLeases'
    BY <1>1, <1>4 DEF QueueInv, RowsFollowLeases
  <1>8. AttemptsHandedOutOnce'
    BY <1>1, <1>3, <1>4 DEF QueueInv, AttemptsHandedOutOnce
  <1>9. StoredResultIsNewest'
    BY <1>2, <1>3, <1>4 DEF QueueInv, StoredResultIsNewest, Terminal
  <1> QED
    BY <1>5, <1>6, <1>7, <1>8, <1>9 DEF QueueInv

\* A run stored without a job.
LEMMA SaveRunKeepsInv ==
  ASSUME QueueInv, NEW q \in Runs, SaveRun(q)
  PROVE  QueueInv'
  <1>1. RunningRun \in RunRow /\ RunningRun.status = "running"
    BY DEF RunningRun, RunRow, NoToken, Aliases
  <1>2. \A r \in Runs : runs'[r] = runs[r] \/ runs'[r] = RunningRun
    BY DEF QueueInv, QueueTypeOK, SaveRun
  <1>3. QueueTypeOK'
    BY <1>1 DEF QueueInv, QueueTypeOK, SaveRun
  <1>4. StoredResultIsNewest'
    BY <1>1, <1>2 DEF QueueInv, StoredResultIsNewest, Terminal, SaveRun
  <1> QED
    BY <1>3, <1>4 DEF QueueInv, TokensAreUnique, RowsFollowLeases,
                      AttemptsHandedOutOnce, SaveRun

\* fail hands the job back or ends it.
LEMMA FailKeepsInv ==
  ASSUME QueueInv, NEW lease \in leases, NEW w, NEW t \in Nat,
         NEW alias \in Aliases, NEW retryable \in BOOLEAN, NEW delay \in Nat,
         Fail(w, lease, t, alias, retryable, delay)
  PROVE  QueueInv'
  <1>1. PICK s \in {"queued", "failed"} :
          jobs' = [jobs EXCEPT ![lease.run] =
                     [LeftAs(jobs[lease.run], s, alias)
                        EXCEPT !.available = t + delay]]
    <2>1. CASE retryable /\ jobs[lease.run].attempts < MaxAttempts
      BY <2>1 DEF Fail
    <2>2. CASE ~(retryable /\ jobs[lease.run].attempts < MaxAttempts)
      BY <2>2 DEF Fail
    <2> QED
      BY <2>1, <2>2
  <1> DEFINE left == LeftAs(jobs[lease.run], s, alias)
  <1> DEFINE row == [left EXCEPT !.available = t + delay]
  <1>2. jobs[lease.run] \in JobRow
    BY ActiveLeaseIsNewest DEF Fail
  <1>3. /\ left \in JobRow
        /\ left.state = s
        /\ left.token = NoToken
        /\ left.attempts = jobs[lease.run].attempts
    <2>1. s \in {"queued"} \cup Terminal
      BY DEF Terminal
    <2> QED
      BY <1>2, <2>1, LeftAsType
  <1> HIDE DEF left
  <1>4. t + delay \in Nat
    OBVIOUS
  <1>5. /\ row \in JobRow
        /\ row.state # "leased"
        /\ row.token = NoToken
        /\ row.attempts = jobs[lease.run].attempts
    BY <1>3, <1>4 DEF JobRow
  <1>6. /\ ActiveLease(jobs[lease.run], lease, w, t)
        /\ jobs' = [jobs EXCEPT ![lease.run] = row]
        /\ UNCHANGED <<now, tokens, leases, runs>>
    BY <1>1 DEF Fail, left
  <1> HIDE DEF row
  <1> QED
    BY <1>5, <1>6, HolderKeepsInv

(* heartbeat preserves the invariant. *)
LEMMA HeartbeatKeepsInv ==
  ASSUME QueueInv, NEW lease \in leases, NEW w, NEW t \in Nat,
         Heartbeat(w, lease, t)
  PROVE  QueueInv'
  <1> DEFINE row == [jobs[lease.run] EXCEPT !.expires = t + LeaseSeconds]
  <1>1. jobs[lease.run] \in JobRow /\ jobs[lease.run].state = "leased"
    BY ActiveLeaseIsNewest DEF Heartbeat
  <1>2. jobs[lease.run].token = lease.token /\ jobs[lease.run].alias = "none"
    BY <1>1, ActiveLeaseIsNewest DEF Heartbeat, ActiveLease, QueueInv, RowsFollowLeases
  <1>3. t + LeaseSeconds \in Nat
    BY QueueAssumption
  <1>4. /\ row \in JobRow
        /\ row.state = "leased"
        /\ row.token = lease.token
        /\ row.alias = "none"
        /\ row.attempts = jobs[lease.run].attempts
    BY <1>1, <1>2, <1>3 DEF JobRow
  <1>5. /\ ActiveLease(jobs[lease.run], lease, w, t)
        /\ jobs' = [jobs EXCEPT ![lease.run] = row]
        /\ UNCHANGED <<now, tokens, leases, runs>>
    BY DEF Heartbeat
  <1> HIDE DEF row
  <1> QED
    BY <1>4, <1>5, HolderKeepsInv

(* complete preserves the invariant. *)
LEMMA CompleteKeepsInv ==
  ASSUME QueueInv, NEW lease \in leases, NEW w, NEW t \in Nat,
         Complete(w, lease, t)
  PROVE  QueueInv'
  <1> DEFINE row == LeftAs(jobs[lease.run], "completed", "none")
  <1>1. jobs[lease.run] \in JobRow
    BY ActiveLeaseIsNewest DEF Complete
  <1>2. "completed" \in {"queued"} \cup Terminal /\ "none" \in Aliases
    BY DEF Terminal, Aliases
  <1>3. /\ row \in JobRow
        /\ row.state = "completed"
        /\ row.token = NoToken
        /\ row.attempts = jobs[lease.run].attempts
    BY <1>1, <1>2, LeftAsType
  <1>4. /\ ActiveLease(jobs[lease.run], lease, w, t)
        /\ jobs' = [jobs EXCEPT ![lease.run] = row]
        /\ UNCHANGED <<now, tokens, leases, runs>>
    BY DEF Complete
  <1> HIDE DEF row
  <1> QED
    BY <1>3, <1>4, HolderKeepsInv

-----------------------------------------------------------------------------
(* Theorems *)

LEMMA InitEstablishesInv == QueueInit => QueueInv
  <1> SUFFICES ASSUME QueueInit PROVE QueueInv
    OBVIOUS
  <1>1. NoJob \in JobRow /\ NoJob.state = "absent" /\ NoJob.token = NoToken
        /\ NoJob.attempts = 0
    BY DEF NoJob, JobRow, NoToken, Aliases
  <1>2. NoRun \in RunRow /\ NoRun.status = "absent"
    BY DEF NoRun, RunRow, NoToken, Aliases
  <1>3. \A r \in Runs : jobs[r] = NoJob /\ runs[r] = NoRun
    BY DEF QueueInit
  <1>4. QueueTypeOK
    BY <1>1, <1>2 DEF QueueInit, QueueTypeOK
  <1>5. TokensAreUnique
    BY DEF QueueInit, TokensAreUnique
  <1>6. RowsFollowLeases
    BY <1>1, <1>3 DEF RowsFollowLeases
  <1>7. AttemptsHandedOutOnce
    BY <1>1, <1>3, QueueAssumption DEF QueueInit, AttemptsHandedOutOnce
  <1>8. StoredResultIsNewest
    BY <1>2, <1>3 DEF StoredResultIsNewest, Terminal
  <1> QED
    BY <1>4, <1>5, <1>6, <1>7, <1>8 DEF QueueInv

\* Every transaction, with any client and any clock reading, keeps QueueInv.
LEMMA StepKeepsInv == QueueInv /\ [QueueNext]_queueVars => QueueInv'
  <1> SUFFICES ASSUME QueueInv, [QueueNext]_queueVars PROVE QueueInv'
    OBVIOUS
  <1>1. now \in Nat /\ 0..now \subseteq Nat
    BY DEF QueueInv, QueueTypeOK
  <1>2. FailureAliases \cup {"run-not-found", "none"} \subseteq Aliases
    BY DEF Aliases
  <1>3. CASE UNCHANGED queueVars
    BY <1>3 DEF queueVars, QueueInv, QueueTypeOK, TokensAreUnique,
                RowsFollowLeases, AttemptsHandedOutOnce, StoredResultIsNewest
  <1>4. CASE Tick
    BY <1>1, <1>4 DEF Tick, QueueInv, QueueTypeOK, TokensAreUnique,
                RowsFollowLeases, AttemptsHandedOutOnce, StoredResultIsNewest
  <1>5. ASSUME NEW r \in Runs, SaveRun(r) PROVE QueueInv'
    BY <1>5, SaveRunKeepsInv
  <1>6. ASSUME NEW r \in Runs, NEW t \in 0..now, SaveQueuedRun(r, t)
        PROVE  QueueInv'
    BY <1>1, <1>6, NewJobKeepsInv DEF SaveQueuedRun
  <1>7. ASSUME NEW r \in Runs, NEW t \in 0..now, Enqueue(r, t) PROVE QueueInv'
    BY <1>1, <1>7, NewJobKeepsInv DEF Enqueue
  <1>8. ASSUME NEW w \in Workers, NEW t \in 0..now, NEW r \in Runs,
               NEW locked \in SUBSET Runs, Claim(w, t, r, locked)
        PROVE  QueueInv'
    BY <1>1, <1>8, ClaimKeepsInv
  <1>9. ASSUME NEW t \in 0..now, NEW locked \in SUBSET Runs, ClaimNone(t, locked)
        PROVE  QueueInv'
    BY <1>1, <1>9, ClaimNoneKeepsInv
  <1>10. ASSUME NEW w \in Workers, NEW lease \in leases, NEW t \in 0..now,
                Heartbeat(w, lease, t)
         PROVE  QueueInv'
    BY <1>1, <1>10, HeartbeatKeepsInv
  <1>11. ASSUME NEW w \in Workers, NEW lease \in leases, NEW t \in 0..now,
                Complete(w, lease, t)
         PROVE  QueueInv'
    BY <1>1, <1>11, CompleteKeepsInv
  <1>12. ASSUME NEW w \in Workers, NEW lease \in leases, NEW t \in 0..now,
                NEW alias \in FailureAliases \cup {"run-not-found"},
                NEW retryable \in BOOLEAN, NEW delay \in {0, RetryDelay},
                Fail(w, lease, t, alias, retryable, delay)
         PROVE  QueueInv'
    <2>1. t \in Nat /\ alias \in Aliases /\ delay \in Nat
      BY <1>1, <1>2, QueueAssumption
    <2> QED
      BY <1>12, <2>1, FailKeepsInv
  <1>13. ASSUME NEW w \in Workers, NEW lease \in leases, NEW t \in 0..now,
                CommitLeasedResult(w, lease, t, "completed", "none")
         PROVE  QueueInv'
    BY <1>2, <1>13, CommitKeepsInv DEF Terminal
  <1>14. ASSUME NEW w \in Workers, NEW lease \in leases, NEW t \in 0..now,
                NEW alias \in FailureAliases,
                CommitLeasedResult(w, lease, t, "failed", alias)
         PROVE  QueueInv'
    BY <1>2, <1>14, CommitKeepsInv DEF Terminal
  <1> QED
    BY <1>3, <1>4, <1>5, <1>6, <1>7, <1>8, <1>9, <1>10, <1>11, <1>12, <1>13,
       <1>14 DEF QueueNext

\* The inductive invariant holds in every state of the queue.
THEOREM QueueInvariance == QueueSpec => []QueueInv
  BY InitEstablishesInv, StepKeepsInv, PTL DEF QueueSpec

\* Rows and leases keep their shape.
THEOREM QueueTypeCorrect == QueueSpec => []QueueTypeOK
  <1>1. QueueInv => QueueTypeOK
    BY DEF QueueInv
  <1> QED
    BY <1>1, QueueInvariance, PTL

\* claim hands out every attempt of a run once, at most max_attempts of them,
\* and marks only the last one final.
THEOREM AttemptsAreBounded == QueueSpec => []AttemptsHandedOutOnce
  <1>1. QueueInv => AttemptsHandedOutOnce
    BY DEF QueueInv
  <1> QED
    BY <1>1, QueueInvariance, PTL

\* Fencing: a result that commit_leased_result has stored is the newest
\* attempt's, and the job ended with it.
THEOREM Fencing == QueueSpec => []StoredResultIsNewest
  <1>1. QueueInv => StoredResultIsNewest
    BY DEF QueueInv
  <1> QED
    BY <1>1, QueueInvariance, PTL

\* What may change a job row: its creation, a claim that finds it queued or its
\* lease over, or a call of its holder, which keeps the attempt count.
LEMMA RowSteps ==
  ASSUME QueueInv, QueueNext, NEW r \in Runs, jobs'[r] # jobs[r]
  PROVE  \/ jobs[r] = NoJob
         \/ \E t \in 0..now : LeaseOver(jobs[r], t) \/ jobs[r].state = "queued"
         \/ /\ jobs[r].state = "leased"
            /\ jobs'[r].attempts = jobs[r].attempts
            /\ jobs'[r].alias # "attempt-limit-exhausted"
  <1> DEFINE Goal ==
        \/ jobs[r] = NoJob
        \/ \E t \in 0..now : LeaseOver(jobs[r], t) \/ jobs[r].state = "queued"
        \/ /\ jobs[r].state = "leased"
           /\ jobs'[r].attempts = jobs[r].attempts
           /\ jobs'[r].alias # "attempt-limit-exhausted"
  <1> SUFFICES Goal
    OBVIOUS
  <1> HIDE DEF Goal
  <1>1. jobs[r] \in JobRow /\ jobs \in [Runs -> JobRow]
    BY DEF QueueInv, QueueTypeOK
  <1>2. \A lease \in leases : lease.run \in Runs
    BY DEF QueueInv, QueueTypeOK, Lease
  <1>3. \A lease \in leases, w \in Workers, t \in 0..now :
          ActiveLease(jobs[lease.run], lease, w, t) =>
            jobs[lease.run].state = "leased" /\ jobs[lease.run].alias = "none"
    BY <1>2 DEF ActiveLease, QueueInv, RowsFollowLeases
  <1>4. CASE Tick \/ \E q \in Runs : SaveRun(q)
    BY <1>4 DEF Tick, SaveRun
  <1>5. ASSUME NEW q \in Runs, NEW t \in 0..now,
               SaveQueuedRun(q, t) \/ Enqueue(q, t)
        PROVE  Goal
    BY <1>1, <1>5 DEF SaveQueuedRun, Enqueue, Goal
  <1>6. ASSUME NEW w \in Workers, NEW t \in 0..now, NEW q \in Runs,
               NEW locked \in SUBSET Runs, Claim(w, t, q, locked)
        PROVE  Goal
    <2>1. CASE r = q
      BY <1>6, <2>1 DEF Claim, FirstClaimable, Claimable, Goal
    <2>2. CASE r # q
      <3>1. jobs'[r] = ExpireExhausted(t)[r]
        BY <1>6, <2>2 DEF Claim, ExpireExhausted
      <3> QED
        BY <3>1 DEF ExpireExhausted, Exhausted, Goal
    <2> QED
      BY <2>1, <2>2
  <1>7. ASSUME NEW t \in 0..now, NEW locked \in SUBSET Runs, ClaimNone(t, locked)
        PROVE  Goal
    BY <1>7 DEF ClaimNone, ExpireExhausted, Exhausted, Goal
  <1>8. ASSUME NEW w \in Workers, NEW lease \in leases, NEW t \in 0..now,
               Heartbeat(w, lease, t)
        PROVE  Goal
    <2>1. r = lease.run
      BY <1>1, <1>8 DEF Heartbeat
    <2>2. jobs'[r] = [jobs[r] EXCEPT !.expires = t + LeaseSeconds]
      BY <1>1, <1>8, <2>1 DEF Heartbeat
    <2>3. jobs'[r].attempts = jobs[r].attempts /\ jobs'[r].alias = jobs[r].alias
      BY <1>1, <2>2 DEF JobRow
    <2> QED
      BY <1>3, <1>8, <2>1, <2>3 DEF Heartbeat, Goal
  <1>9. ASSUME NEW w \in Workers, NEW lease \in leases, NEW t \in 0..now,
               NEW s \in Terminal, NEW a \in FailureAliases \cup {"none"},
               ActiveLease(jobs[lease.run], lease, w, t),
               jobs' = [jobs EXCEPT ![lease.run] = LeftAs(@, s, a)]
        PROVE  Goal
    <2>1. r = lease.run
      BY <1>1, <1>9
    <2>2. jobs'[r] = LeftAs(jobs[r], s, a)
      BY <1>1, <1>9, <2>1
    <2>3. jobs'[r].attempts = jobs[r].attempts /\ jobs'[r].alias = a
      BY <1>1, <2>2 DEF LeftAs, Released, JobRow
    <2>4. a # "attempt-limit-exhausted"
      BY QueueAssumption
    <2> QED
      BY <1>3, <1>9, <2>1, <2>3, <2>4 DEF Goal
  <1>10. ASSUME NEW w \in Workers, NEW lease \in leases, NEW t \in 0..now,
                NEW a \in FailureAliases \cup {"run-not-found"},
                NEW retryable \in BOOLEAN, NEW delay \in {0, RetryDelay},
                Fail(w, lease, t, a, retryable, delay)
         PROVE  Goal
    <2>1. PICK s : jobs' = [jobs EXCEPT ![lease.run] =
                              [LeftAs(jobs[lease.run], s, a)
                                 EXCEPT !.available = t + delay]]
      BY <1>10 DEF Fail
    <2>2. r = lease.run
      BY <1>1, <2>1
    <2>3. jobs'[r] = [LeftAs(jobs[r], s, a) EXCEPT !.available = t + delay]
      BY <1>1, <2>1, <2>2
    <2>4. jobs'[r].attempts = jobs[r].attempts /\ jobs'[r].alias = a
      BY <1>1, <2>3 DEF LeftAs, Released, JobRow
    <2>5. a # "attempt-limit-exhausted"
      BY QueueAssumption
    <2> QED
      BY <1>3, <1>10, <2>2, <2>4, <2>5 DEF Fail, Goal
  <1>11. ASSUME NEW w \in Workers, NEW lease \in leases, NEW t \in 0..now,
                \/ Complete(w, lease, t)
                \/ CommitLeasedResult(w, lease, t, "completed", "none")
                \/ \E a \in FailureAliases :
                     CommitLeasedResult(w, lease, t, "failed", a)
         PROVE  Goal
    <2>1. "completed" \in Terminal /\ "failed" \in Terminal
      BY DEF Terminal
    <2>2. CASE Complete(w, lease, t)
      BY <1>9, <2>1, <2>2 DEF Complete
    <2>3. CASE CommitLeasedResult(w, lease, t, "completed", "none")
      BY <1>9, <2>1, <2>3 DEF CommitLeasedResult
    <2>4. ASSUME NEW a \in FailureAliases,
                 CommitLeasedResult(w, lease, t, "failed", a)
          PROVE  Goal
      BY <1>9, <2>1, <2>4 DEF CommitLeasedResult
    <2> QED
      BY <1>11, <2>2, <2>3, <2>4
  <1> QED
    BY <1>4, <1>5, <1>6, <1>7, <1>8, <1>10, <1>11 DEF QueueNext

\* A result changes only while its job is leased.
LEMMA ResultSteps ==
  ASSUME QueueInv, QueueNext, NEW r \in Runs, runs[r].status \in Terminal,
         jobs[r].state \in Terminal
  PROVE  runs'[r] = runs[r]
  <1>1. NoRun.status \notin Terminal
    BY DEF NoRun, Terminal
  <1>2. \A lease \in leases : lease.run \in Runs
    BY DEF QueueInv, QueueTypeOK, Lease
  <1>3. CASE \E q \in Runs : SaveRun(q)
    BY <1>1, <1>3 DEF SaveRun, QueueInv, QueueTypeOK
  <1>4. CASE \E q \in Runs, t \in 0..now : SaveQueuedRun(q, t)
    BY <1>1, <1>4 DEF SaveQueuedRun, QueueInv, QueueTypeOK
  <1>5. ASSUME NEW w \in Workers, NEW lease \in leases, NEW t \in 0..now,
               NEW s, NEW a, CommitLeasedResult(w, lease, t, s, a)
        PROVE  runs'[r] = runs[r]
    <2>1. jobs[lease.run].state = "leased"
      BY <1>5 DEF CommitLeasedResult, ActiveLease
    <2>2. r # lease.run
      BY <2>1 DEF Terminal
    <2> QED
      BY <1>5, <2>2 DEF CommitLeasedResult, QueueInv, QueueTypeOK
  <1>6. CASE UNCHANGED runs
    BY <1>6
  <1> QED
    BY <1>3, <1>4, <1>5, <1>6 DEF QueueNext, Tick, Enqueue, Claim, ClaimNone,
                                  Heartbeat, Complete, Fail

\* No claim takes over or writes off a lease that has not expired.
THEOREM LiveLeases == QueueSpec => LiveLeaseIsKept
  <1> DEFINE Kept ==
        \A r \in Runs :
          jobs[r].state = "leased" /\ jobs[r].expires > now =>
            /\ jobs'[r].attempts = jobs[r].attempts
            /\ jobs'[r].alias # "attempt-limit-exhausted"
  <1>1. QueueInv /\ [QueueNext]_queueVars => [Kept]_queueVars
    <2> SUFFICES ASSUME QueueInv, QueueNext, NEW r \in Runs,
                        jobs[r].state = "leased", jobs[r].expires > now
                 PROVE  /\ jobs'[r].attempts = jobs[r].attempts
                        /\ jobs'[r].alias # "attempt-limit-exhausted"
      OBVIOUS
    <2>1. jobs[r].alias = "none"
      BY DEF QueueInv, RowsFollowLeases
    <2>2. CASE jobs'[r] = jobs[r]
      BY <2>1, <2>2
    <2>3. CASE jobs'[r] # jobs[r]
      <3>1. jobs[r] # NoJob
        BY DEF NoJob
      <3>2. now \in Nat /\ jobs[r].expires \in Nat
        BY DEF QueueInv, QueueTypeOK, JobRow
      <3>3. ~ \E t \in 0..now : LeaseOver(jobs[r], t) \/ jobs[r].state = "queued"
        BY <3>2 DEF LeaseOver
      <3> QED
        BY <2>3, <3>1, <3>3, RowSteps
    <2> QED
      BY <2>2, <2>3
  <1> QED
    BY <1>1, QueueInvariance, PTL DEF QueueSpec, LiveLeaseIsKept

\* A job that has ended, and the result stored with it, never change again.
THEOREM EndsAreFinal == QueueSpec => EndedStaysEnded
  <1> DEFINE Final ==
        \A r \in Runs :
          jobs[r].state \in Terminal =>
            /\ jobs'[r] = jobs[r]
            /\ runs[r].status \in Terminal => runs'[r] = runs[r]
  <1>1. QueueInv /\ [QueueNext]_queueVars => [Final]_queueVars
    <2> SUFFICES ASSUME QueueInv, QueueNext, NEW r \in Runs,
                        jobs[r].state \in Terminal
                 PROVE  /\ jobs'[r] = jobs[r]
                        /\ runs[r].status \in Terminal => runs'[r] = runs[r]
      OBVIOUS
    <2>1. jobs[r] # NoJob /\ jobs[r].state \notin Live
      BY DEF NoJob, Terminal, Live
    <2>2. jobs'[r] = jobs[r]
      BY <2>1, RowSteps DEF LeaseOver, Live
    <2> QED
      BY <2>2, ResultSteps
  <1> QED
    BY <1>1, QueueInvariance, PTL DEF QueueSpec, EndedStaysEnded

=============================================================================
