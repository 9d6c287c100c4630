---------------------------- MODULE MCRunStore ----------------------------
(* Small instances of RunStore, an observed run that one process serves and a
   queued one that two processes show, and of MemoryRuns. *)
EXTENDS RunStore, MemoryRuns

VARIABLE subject   \* what this behaviour is of; the rest of the state rests

Queued ==
  INSTANCE RunStore WITH Processes <- {"api", "api2"}, Kinds <- {"queued"},
    MaxPoints <- 0, MaxAttempts <- 3, MaxViews <- 4

MCInit ==
  /\ MemoryInit
  /\ \/ Init /\ subject \in {"stored", "memory"}
     \/ Queued!Init /\ subject = "queued"

MCNext ==
  \/ subject = "stored" /\ Next /\ UNCHANGED <<memoryVars, subject>>
  \/ subject = "queued" /\ Queued!Next /\ UNCHANGED <<memoryVars, subject>>
  \/ subject = "memory" /\ MemoryNext /\ UNCHANGED <<vars, subject>>

MCSpec ==
  /\ MCInit /\ [][MCNext]_<<vars, memoryVars, subject>>
  /\ subject = "memory" => MemoryFairness

\* PostgresRunRepository: the points of an observed run, which one process saves, are
\* stored as they were answered, whatever fails in a save; and get, of a queued run that two processes
\* show, never shows it as completed without its results, although a worker may
\* commit between its SELECTs.
StoredRunIsWhole ==
  /\ AnsweredPointsAreStored
  /\ subject = "queued" => Queued!CompletedViewHasResults

\* LiveShowsTheEnd, of runs in memory: whatever the harness or verification raises
\* in _populate_stored_run_result, /live shows in the end how the run has ended.
MemoryShowsTheEnd == subject = "memory" => LiveShowsTheEnd

=============================================================================
