----------------------------- MODULE MemoryRuns -----------------------------
(***************************************************************************)
(* Runs in InMemoryRunRepository, where a StoredRun is shared and never    *)
(* copied: the thread of a background run assigns its fields one by one    *)
(* while the event loop, which handles one request at a time and does not  *)
(* await in a handler, reads them one by one for the live view.            *)
(***************************************************************************)
EXTENDS Integers, Sequences

CONSTANT Runs

\* No run is named like the absence of one.
ASSUME MemoryAssumption == "none" \notin Runs

VARIABLES
  run,      \* run[r]: the fields of the StoredRun
  thread,   \* thread[r]: the assignments the thread of r has still to make
  view,     \* the live view being made: a run and the field to be read
  read,     \* read[r]: what this view has read of r so far
  shown     \* shown[r]: r as the last view that was sent showed it

memoryVars == <<run, thread, view, read, shown>>

Absent == [status |-> "absent", alias |-> FALSE, ended |-> FALSE,
           metrics |-> FALSE, verifications |-> FALSE]
Running == [Absent EXCEPT !.status = "running"]
EndStates == {"completed", "failed"}

(* The event loop is making no view. *)
Free == view.run \notin Runs
Nothing == [run |-> "none", field |-> 0]

(* What _populate_stored_run_result assigns, in its order. *)
Assign(field, value) == [field |-> field, value |-> value]

(* Faulty variant: a failing harness is left to the caller. *)
OutcomesUncaught ==
  LET done == <<Assign("status", "completed"), Assign("ended", TRUE),
                Assign("metrics", TRUE), Assign("verifications", TRUE)>>
  IN  {done, SubSeq(done, 1, 3), <<>>}

(* Faulty variant: the time of the end is taken before the status is set. *)
OutcomesEndFirst ==
  {<<Assign("ended", TRUE), Assign("status", "completed"),
     Assign("metrics", TRUE), Assign("verifications", TRUE)>>}

(* The harness returns and the recordings are verified, or verification
   raises; or the harness raises. *)
Outcomes ==
  LET done == <<Assign("status", "completed"), Assign("ended", TRUE),
                Assign("metrics", TRUE), Assign("verifications", TRUE)>>
  IN  {done, SubSeq(done, 1, 3),
       <<Assign("status", "failed"), Assign("alias", TRUE),
         Assign("ended", TRUE)>>}

MemoryInit ==
  /\ run = [r \in Runs |-> Absent]
  /\ thread = [r \in Runs |-> <<>>]
  /\ view = Nothing
  /\ read = run /\ shown = run

(* POST /runs/async: the thread's harness decides on an outcome. *)
CreateRunAsync(r) ==
  /\ Free /\ run[r].status = "absent"
  /\ run' = [run EXCEPT ![r] = Running]
  /\ \E outcome \in Outcomes : thread' = [thread EXCEPT ![r] = outcome]
  /\ UNCHANGED <<view, read, shown>>

(* POST /runs: the event loop itself runs the harness. *)
CreateRunSync(r) ==
  /\ Free /\ run[r].status = "absent"
  /\ \E outcome \in Outcomes :
       run' = [run EXCEPT
                 ![r] = [f \in DOMAIN Running |->
                           LET set == {n \in DOMAIN outcome :
                                         outcome[n].field = f}
                           IN  IF set = {} THEN Running[f]
                               ELSE outcome[CHOOSE n \in set : TRUE].value]]
  /\ UNCHANGED <<thread, view, read, shown>>

(* The thread of r makes its next assignment. *)
PopulateStoredRunResult(r) ==
  /\ thread[r] # <<>>
  /\ run' = [run EXCEPT ![r][Head(thread[r]).field] = Head(thread[r]).value]
  /\ thread' = [thread EXCEPT ![r] = Tail(@)]
  /\ UNCHANGED <<view, read, shown>>

-----------------------------------------------------------------------------
(* The live view: to_live_status of each run, in the order of its fields. *)

Fields == <<"status", "alias", "ended", "metrics", "verifications">>
Pending(rest) == {r \in rest : run[r].status # "absent"}

BeginLivePreview ==
  /\ Free
  /\ \E r \in Pending(Runs) :
       /\ view' = [run |-> r, field |-> 1]
       /\ read' = [q \in Runs |-> Absent]
  /\ UNCHANGED <<run, thread, shown>>

ToLiveStatus ==
  /\ ~Free
  /\ read' = [read EXCEPT ![view.run][Fields[view.field]] =
                run[view.run][Fields[view.field]]]
  /\ LET rest == Pending({r \in Runs : r # view.run
                                         /\ read[r].status = "absent"})
     IN  IF view.field < Len(Fields)
           THEN view' = [view EXCEPT !.field = @ + 1] /\ UNCHANGED shown
           ELSE \/ /\ rest # {}
                   /\ \E r \in rest : view' = [run |-> r, field |-> 1]
                   /\ UNCHANGED shown
                \/ /\ rest = {}
                   /\ view' = Nothing
                   /\ shown' = read'
  /\ UNCHANGED <<run, thread>>

MemoryNext ==
  \/ \E r \in Runs :
       CreateRunAsync(r) \/ CreateRunSync(r) \/ PopulateStoredRunResult(r)
  \/ BeginLivePreview \/ ToLiveStatus

MemorySpec == MemoryInit /\ [][MemoryNext]_memoryVars

(* Threads run on, and a connected /live sends a view again and again. *)
MemoryFairness ==
  /\ \A r \in Runs : WF_memoryVars(PopulateStoredRunResult(r))
  /\ WF_memoryVars(BeginLivePreview) /\ WF_memoryVars(ToLiveStatus)

-----------------------------------------------------------------------------
(* Properties. *)

(* A view may be torn, but never one after the end was shown: the order of
   the assignments and that of the reads make every later view show how the
   run ended, and that a failed one has its alias. *)
EndIsShownWhole ==
  [][\A r \in Runs : shown[r].ended =>
       /\ shown'[r].ended /\ shown'[r].status \in EndStates
       /\ shown'[r].status = "failed" => shown'[r].alias]_shown

(* Whatever the harness or verification raises, /live shows in the end how a
   run that was accepted has ended. *)
LiveShowsTheEnd ==
  \A r \in Runs : run[r].status # "absent" ~>
    [](shown[r].ended /\ \/ shown[r].status = "completed" /\ shown[r].metrics
                         \/ shown[r].status = "failed" /\ shown[r].alias)
=============================================================================
