------------------------ MODULE RunWorkerSupervisor ------------------------
(***************************************************************************)
(* RunWorkerSupervisor: the thread that polls the queue by calling run_one *)
(* again and again, and the start and stop calls of the application, which *)
(* may come from several threads at once.  What happens inside run_one is  *)
(* RunWorker's; here it is a step that ends some day.  The telemetry       *)
(* counters are left out.                                                  *)
(***************************************************************************)
EXTENDS Naturals

CONSTANTS
  Callers,      \* threads of the application that call start and stop
  MaxThreads    \* bound: worker threads ever created

ASSUME SupervisorAssumption == MaxThreads \in Nat

VARIABLES
  stop,      \* the _stop event
  thread,    \* _thread: the number of a worker thread, or None
  loop,      \* loop[n]: where _run stands in worker thread n
  caller     \* caller[c]: where a call of stop stands, and the thread it joins

vars == <<stop, thread, loop, caller>>

None == 0
Threads == 1..MaxThreads

LoopStates == {"unborn", "check", "run_one", "wait", "dead"}

\* Thread.is_alive.
IsAlive(n) == n # None /\ loop[n] \notin {"unborn", "dead"}

Created == {n \in Threads : loop[n] # "unborn"}

-----------------------------------------------------------------------------
(* start and stop *)

\* The test start makes under the lock.
CanStart == ~IsAlive(thread)

\* Thread.start: where a new thread begins.
FirstStep(n) == "check"

\* Faulty variant: the event is cleared before the test.
StartClearingFirst(c) ==
  /\ caller[c].pc = "idle"
  /\ stop' = FALSE
  /\ \/ ~CanStart /\ UNCHANGED <<thread, loop>>
     \/ CanStart /\ \E n \in Threads \ Created :
          /\ \A m \in Threads \ Created : n <= m
          /\ thread' = n
          /\ loop' = [loop EXCEPT ![n] = FirstStep(n)]
  /\ UNCHANGED caller

\* start under the lock; when a thread is alive it only returns False.
Start(c) ==
  /\ caller[c].pc = "idle"
  /\ CanStart
  /\ \E n \in Threads \ Created :
       /\ \A m \in Threads \ Created : n <= m
       /\ stop' = FALSE
       /\ thread' = n
       /\ loop' = [loop EXCEPT ![n] = FirstStep(n)]
  /\ UNCHANGED caller

\* stop sets the event before it takes the lock.
StopSet(c) ==
  /\ caller[c].pc = "idle"
  /\ stop' = TRUE
  /\ caller' = [caller EXCEPT ![c].pc = "read"]
  /\ UNCHANGED <<thread, loop>>

\* It reads _thread under the lock; without a thread it returns.
StopRead(c) ==
  /\ caller[c].pc = "read"
  /\ caller' = [caller EXCEPT ![c] =
                  [pc |-> IF thread = None THEN "idle" ELSE "join", joined |-> thread]]
  /\ UNCHANGED <<stop, thread, loop>>

\* The join ends because the thread has, or times out.
StopJoined(c) ==
  /\ caller[c].pc = "join"
  /\ caller' = [caller EXCEPT ![c].pc =
                  IF IsAlive(caller[c].joined) THEN "idle" ELSE "clear"]
  /\ UNCHANGED <<stop, thread, loop>>

\* Faulty variant: forgets whatever thread there is now.
ClearedAny(c) == None

\* _thread after stop: forgotten only if it is still the one that was joined.
Cleared(c) == IF thread = caller[c].joined THEN None ELSE thread

StopClear(c) ==
  /\ caller[c].pc = "clear"
  /\ thread' = Cleared(c)
  /\ caller' = [caller EXCEPT ![c].pc = "idle"]
  /\ UNCHANGED <<stop, loop>>

-----------------------------------------------------------------------------
(* _run in worker thread n *)

LoopGoesTo(n, pc) ==
  /\ loop' = [loop EXCEPT ![n] = pc]
  /\ UNCHANGED <<stop, thread, caller>>

Check(n) ==
  /\ loop[n] = "check"
  /\ LoopGoesTo(n, IF stop THEN "dead" ELSE "run_one")

\* run_one returns or raises: at once to the next job after one that was
\* processed, otherwise ("idle", "lease_lost", an exception) after a wait.
RunOne(n) ==
  /\ loop[n] = "run_one"
  /\ \E pc \in {"check", "wait"} : LoopGoesTo(n, pc)

\* Faulty variant: sleeps without listening to the event.
AfterWaitAsleep(n) == "wait"

\* The wait ends early when the event is set; then the loop ends.
AfterWait(n) == IF stop THEN "dead" ELSE "check"

Wait(n) ==
  /\ loop[n] = "wait"
  /\ LoopGoesTo(n, AfterWait(n))

-----------------------------------------------------------------------------
Init ==
  /\ stop = FALSE
  /\ thread = None
  /\ loop = [n \in Threads |-> "unborn"]
  /\ caller = [c \in Callers |-> [pc |-> "idle", joined |-> None]]

LoopStep(n) == Check(n) \/ RunOne(n) \/ Wait(n)

CallerStep(c) ==
  Start(c) \/ StopSet(c) \/ StopRead(c) \/ StopJoined(c) \/ StopClear(c)

Next ==
  \/ \E c \in Callers : CallerStep(c)
  \/ \E n \in Threads : LoopStep(n)

\* Worker threads run, and run_one ends some day.
Spec == Init /\ [][Next]_vars /\ \A n \in Threads : WF_vars(LoopStep(n))

-----------------------------------------------------------------------------
(* Properties *)

\* The event, the reference, the threads and the calls have their shape, and
\* _thread refers to a thread that has been started.
SupervisorTypeOK ==
  /\ stop \in BOOLEAN
  /\ thread \in Created \cup {None}
  /\ loop \in [Threads -> LoopStates]
  /\ caller \in [Callers -> [pc : {"idle", "read", "join", "clear"},
                             joined : Threads \cup {None}]]

\* However start and stop calls interleave, time out and overtake each other,
\* there is never a worker loop besides the one _thread refers to: two loops
\* never poll in one process, and none runs that stop cannot join.
OneLoop == \A n \in Threads : IsAlive(n) => thread = n

\* A stop is never taken back from a loop that has not seen it: start clears
\* the event only when the old thread is dead.
StopReachesLoop ==
  [][\A n \in Threads : stop /\ IsAlive(n) => stop']_vars

\* A loop that has been told to stop ends.
StopWorks == \A n \in Threads : stop /\ IsAlive(n) ~> ~IsAlive(n)

=============================================================================
