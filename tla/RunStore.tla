------------------------------ MODULE RunStore ------------------------------
(***************************************************************************)
(* One run in PostgresRunRepository: the handlers of the API processes and *)
(* a queue worker read it with several SELECTs, change their copy and save *)
(* the whole of it, one transaction that updates the run's row and deletes *)
(* and inserts its child rows.                                             *)
(*                                                                         *)
(* Statements see what is committed when they begin (READ COMMITTED): a    *)
(* DELETE that meets rows another transaction is deleting waits for it and *)
(* does not see what that one inserts.  The row is updated, and locked,    *)
(* only if a value differs from what the session has just read.  An API    *)
(* process handles one request at a time: its handlers do not await        *)
(* between get and save.  Child rows are of two tables here: the results   *)
(* (recordings, spans, metrics, verifications) and the points.             *)
(***************************************************************************)
EXTENDS Integers, Sequences, FiniteSets, FiniteSetsExt, SequencesExt

CONSTANTS
  Processes,     \* the API processes
  Worker,        \* the thread of a RunJobWorker
  Kinds,         \* of the run: "observed", or "queued" by POST /runs/async
  MaxPoints, MaxAttempts, MaxFaults, MaxViews   \* bounds

ASSUME StoreAssumption ==
  /\ Worker \notin Processes
  /\ Kinds \subseteq {"observed", "queued"}
  /\ {MaxPoints, MaxAttempts, MaxFaults, MaxViews} \subseteq Nat

VARIABLES
  kind,      \* the kind of the run
  row,       \* status in the run's row, "absent" before it is created
  lock,      \* who holds the lock of the row
  rows,      \* committed child rows: [table, ordinal, value, id]
  job,       \* state of the run's job, "none" without one
  session,   \* session[a]: what a thread is doing
  seen,      \* seen[p]: the run as process p last returned it
  acked,     \* history: the points that were answered with 200
  points, attempts, faults, views, ids   \* what the bounds count, and row ids

vars == <<kind, row, lock, rows, job, session, seen, acked, points, attempts,
          faults, views, ids>>

Actors == Processes \union {Worker}
Nobody == "nobody"
Ended == {"completed", "failed"}
Tables == <<"results", "points">>

\* Where a session is before and in the DELETE of each table.
Delete == <<"delete-results", "delete-points">>
Deleting == <<"deleting-results", "deleting-points">>

Blank == [status |-> "absent", results |-> <<>>, points |-> <<>>]
Idle == [pc |-> "idle", want |-> "none", copy |-> Blank, point |-> 0,
         changed |-> FALSE, snapshot |-> {}, marked |-> {}]

Init ==
  /\ kind \in Kinds
  /\ row = "absent" /\ lock = Nobody /\ rows = {} /\ job = "none"
  /\ session = [a \in Actors |-> Idle]
  /\ seen = [p \in Processes |-> Blank]
  /\ acked = <<>>
  /\ points = 0 /\ attempts = 0 /\ faults = 0 /\ views = 0 /\ ids = 0

(* save_queued_run stores the run and its job in one transaction. *)
CreateRun ==
  /\ row = "absent"
  /\ row' = "running"
  /\ job' = IF kind = "queued" THEN "queued" ELSE "none"
  /\ UNCHANGED <<kind, lock, rows, session, seen, acked, points, attempts,
                 faults, views, ids>>

At(a, pc) == session[a].pc = pc

-----------------------------------------------------------------------------
(* get: the row first, then the child tables, each by its own SELECT. *)

(* The values of a table, in the order of their ordinals and then their ids. *)
Stored(table) ==
  LET all == {r \in rows : r.table = table}
      place(r) == Cardinality({q \in all : \/ q.ordinal < r.ordinal
                                           \/ /\ q.ordinal = r.ordinal
                                              /\ q.id <= r.id})
  IN  [n \in 1..Cardinality(all) |->
         (CHOOSE r \in all : place(r) = n).value]

(* Faulty variant: the child rows are read before the row. *)
ReadRowLast(a) ==
  \/ /\ At(a, "row")
     /\ session' = [session EXCEPT ![a].pc = "points",
                                   ![a].copy.results = Stored("results")]
  \/ /\ At(a, "points")
     /\ session' = [session EXCEPT ![a].pc = "got",
                                   ![a].copy.points = Stored("points"),
                                   ![a].copy.status = row]

Read(a) ==
  \/ /\ At(a, "row")
     /\ session' = [session EXCEPT ![a].pc = "results", ![a].copy.status = row]
  \/ /\ At(a, "results")
     /\ session' = [session EXCEPT ![a].pc = "points",
                                   ![a].copy.results = Stored("results")]
  \/ /\ At(a, "points")
     /\ session' = [session EXCEPT ![a].pc = "got",
                                   ![a].copy.points = Stored("points")]

Get(a) ==
  /\ Read(a)
  /\ UNCHANGED <<kind, row, lock, rows, job, seen, acked, points, attempts,
                 faults, views, ids>>

-----------------------------------------------------------------------------
(* _save_in_session. *)

(* The session reads the row again and writes what differs from its copy; to
   write it must have the row's lock. *)
UpdateRow(a) ==
  LET changed == session[a].copy.status # row
  IN  /\ At(a, "save")
      /\ changed => lock = Nobody
      /\ lock' = IF changed THEN a ELSE lock
      /\ session' = [session EXCEPT ![a].pc = "delete-results",
                                    ![a].changed = changed]
      /\ UNCHANGED <<kind, row, rows, job, seen, acked, points, attempts,
                     faults, views, ids>>

IdsOf(set) == {r.id : r \in set}

(* The DELETE of a table sees the rows of this moment ... *)
DeleteBegins(a, n) ==
  /\ At(a, Delete[n])
  /\ session' = [session EXCEPT
                   ![a].pc = Deleting[n],
                   ![a].snapshot = IdsOf({r \in rows : r.table = Tables[n]})]
  /\ UNCHANGED <<kind, row, lock, rows, job, seen, acked, points, attempts,
                 faults, views, ids>>

(* ... and waits for those that another transaction is deleting. *)
DeleteEnds(a, n) ==
  /\ At(a, Deleting[n])
  /\ \A b \in Actors \ {a} :
       session[b].marked \intersect session[a].snapshot = {}
  /\ session' = [session EXCEPT
                   ![a].pc = IF n < Len(Tables) THEN Delete[n + 1] ELSE "insert",
                   ![a].marked = @ \union (session[a].snapshot
                                             \intersect IdsOf(rows)),
                   ![a].snapshot = {}]
  /\ UNCHANGED <<kind, row, lock, rows, job, seen, acked, points, attempts,
                 faults, views, ids>>

NewRows(a) ==
  LET copy == session[a].copy
      results == Len(copy.results)
  IN  {[table |-> "results", ordinal |-> n, value |-> copy.results[n],
        id |-> ids + n] : n \in DOMAIN copy.results}
      \union
      {[table |-> "points", ordinal |-> n, value |-> copy.points[n],
        id |-> ids + results + n] : n \in DOMAIN copy.points}

(* Faulty variant: the new rows are added to those that are there. *)
KeepRows(a) == rows \union NewRows(a)

ReplaceRows(a) == {r \in rows : r.id \notin session[a].marked} \union NewRows(a)

InsertAndCommit(a) ==
  /\ At(a, "insert")
  /\ rows' = ReplaceRows(a)
  /\ ids' = ids + Cardinality(NewRows(a))
  /\ row' = IF session[a].changed THEN session[a].copy.status ELSE row
  /\ lock' = IF lock = a THEN Nobody ELSE lock

-----------------------------------------------------------------------------
(* Handlers of an API process. *)

Begin(p, want) ==
  /\ At(p, "idle") /\ row # "absent"
  /\ session' = [session EXCEPT ![p] = [Idle EXCEPT !.pc = "row", !.want = want,
                                                    !.point = points + 1]]
  /\ UNCHANGED <<kind, row, lock, rows, job, seen, acked, attempts, faults, ids>>

(* GET /runs/{run_id}, the live view and the timeline. *)
BeginView(p) == views < MaxViews /\ views' = views + 1 /\ Begin(p, "view")
                  /\ UNCHANGED points

(* POST /v1/sip-events and /v1/rtp-stats, for a run in any state. *)
BeginPoint(p) == points < MaxPoints /\ points' = points + 1 /\ Begin(p, "point")
                   /\ UNCHANGED views

ReturnView(p) ==
  /\ At(p, "got") /\ session[p].want = "view"
  /\ seen' = [seen EXCEPT ![p] = session[p].copy]
  /\ session' = [session EXCEPT ![p] = Idle]
  /\ UNCHANGED <<kind, row, lock, rows, job, acked, points, attempts, faults,
                 views, ids>>

AppendPoint(p) ==
  /\ At(p, "got") /\ session[p].want = "point"
  /\ session' = [session EXCEPT ![p].pc = "save",
                                ![p].copy.points = Append(@, session[p].point)]
  /\ UNCHANGED <<kind, row, lock, rows, job, seen, acked, points, attempts,
                 faults, views, ids>>

SavePoint(p) ==
  /\ InsertAndCommit(p)
  /\ acked' = Append(acked, session[p].point)
  /\ session' = [session EXCEPT ![p] = Idle]
  /\ UNCHANGED <<kind, job, seen, points, attempts, faults, views>>

(* The database fails or the process dies: what is not committed is gone. *)
Abort(a) ==
  /\ ~At(a, "idle") /\ faults < MaxFaults
  /\ faults' = faults + 1
  /\ session' = [session EXCEPT ![a] = Idle]
  /\ lock' = IF lock = a THEN Nobody ELSE lock
  /\ job' = IF a = Worker /\ job = "leased" THEN "queued" ELSE job
  /\ UNCHANGED <<kind, row, rows, seen, acked, points, attempts, views, ids>>

-----------------------------------------------------------------------------
(* The worker (in detail in RunWorker): the lease of a dead one is over. *)

Claim ==
  /\ At(Worker, "idle") /\ job = "queued" /\ attempts < MaxAttempts
  /\ job' = "leased"
  /\ attempts' = attempts + 1
  /\ session' = [session EXCEPT ![Worker] = [Idle EXCEPT !.pc = "row"]]
  /\ UNCHANGED <<kind, row, lock, rows, seen, acked, points, faults, views, ids>>

(* The harness has run, or has raised in the last attempt: then the results of
   the copy are as they were, unless it was their verification that raised. *)
Execute(status) ==
  /\ At(Worker, "got")
  /\ status = "failed" => attempts = MaxAttempts
  /\ \E results \in {session[Worker].copy.results, <<attempts>>} :
       /\ status = "completed" => results = <<attempts>>
       /\ session' = [session EXCEPT ![Worker].pc = "save",
                                     ![Worker].copy.status = status,
                                     ![Worker].copy.results = results]
  /\ UNCHANGED <<kind, row, lock, rows, job, seen, acked, points, attempts,
                 faults, views, ids>>

CommitLeasedResult ==
  /\ job = "leased"
  /\ InsertAndCommit(Worker)
  /\ job' = "ended"
  /\ session' = [session EXCEPT ![Worker] = Idle]
  /\ UNCHANGED <<kind, seen, acked, points, attempts, faults, views>>

Next ==
  \/ CreateRun
  \/ \E a \in Actors :
       \/ Get(a) \/ UpdateRow(a) \/ Abort(a)
       \/ \E n \in DOMAIN Tables : DeleteBegins(a, n) \/ DeleteEnds(a, n)
  \/ \E p \in Processes :
       BeginView(p) \/ BeginPoint(p) \/ ReturnView(p) \/ AppendPoint(p)
         \/ SavePoint(p)
  \/ Claim \/ CommitLeasedResult
  \/ \E status \in Ended : Execute(status)

Spec == Init /\ [][Next]_vars

-----------------------------------------------------------------------------
(* Properties. *)

(* A run that is shown as completed is shown with its results, although get
   reads the row and the child tables by SELECTs between which a worker may
   commit, fail or be replaced by the next attempt.  (Of a queued run to which
   no point is posted: a point saved from an older copy may take the results
   away, as the run of EndedJobHasEndedRun shows.) *)
CompletedViewHasResults ==
  \A p \in Processes : seen[p].status = "completed" => seen[p].results # <<>>

(* The points of an observed run that one process serves are stored once each,
   in the order they were answered, although each save deletes and inserts them
   all and may fail at any of its steps.  (A point is answered by the step that
   commits it.) *)
AnsweredPointsAreStored == kind = "observed" => Stored("points") = acked

(* src/README.md:462-466 says that a run's result and the end of its job are
   committed together and cannot be overwritten afterwards: once the job has
   ended the run has. *)
EndedJobHasEndedRun == job = "ended" => row \in Ended
=============================================================================
