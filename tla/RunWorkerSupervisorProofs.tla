--------------------- MODULE RunWorkerSupervisorProofs ---------------------
(***************************************************************************)
(* Theorems about RunWorkerSupervisor, for any number of application       *)
(* threads and of worker threads.                                          *)
(***************************************************************************)
EXTENDS RunWorkerSupervisor, TLAPS

\* What a call of stop knows of the thread it has read: it has been started,
\* and it is dead once the join is over.
JoinsAreKnown ==
  \A c \in Callers :
    /\ caller[c].pc \in {"join", "clear"} => caller[c].joined \in Created
    /\ caller[c].pc = "clear" => loop[caller[c].joined] = "dead"

\* The inductive invariant.
SupervisorInv == SupervisorTypeOK /\ OneLoop /\ JoinsAreKnown

\* The initial state satisfies the invariant.
LEMMA InitInv == Init => SupervisorInv
  <1> SUFFICES ASSUME Init
               PROVE  SupervisorInv
    OBVIOUS
  <1>1. stop \in BOOLEAN
    BY DEF Init
  <1>2. /\ thread \in Created \cup {None}
        /\ loop \in [Threads -> LoopStates]
        /\ caller \in [Callers -> [pc : {"idle", "read", "join", "clear"},
                                   joined : Threads \cup {None}]]
    BY DEF Init, LoopStates
  <1>3. OneLoop
    BY DEF Init, OneLoop, IsAlive
  <1>4. JoinsAreKnown
    BY DEF Init, JoinsAreKnown
  <1> QED
    BY <1>1, <1>2, <1>3, <1>4 DEF SupervisorInv, SupervisorTypeOK

\* A successful start: the new loop is the only one.
LEMMA StartInv ==
  ASSUME SupervisorInv, NEW c \in Callers, Start(c)
  PROVE  SupervisorInv'
  <1> USE SupervisorAssumption DEF SupervisorInv
  <1>1. PICK n \in Threads \ Created :
          /\ stop' = FALSE
          /\ thread' = n
          /\ loop' = [loop EXCEPT ![n] = "check"]
    BY DEF Start, FirstStep
  <1>2. caller' = caller
    BY DEF Start
  <1>3. \A m \in Threads : loop[m] \in {"unborn", "dead"}
    BY DEF Start, CanStart, OneLoop, IsAlive, SupervisorTypeOK, LoopStates,
           Threads, None
  <1>4. loop \in [Threads -> LoopStates]
    BY DEF SupervisorTypeOK
  <1>5. SupervisorTypeOK'
    BY <1>1, <1>2, <1>4 DEF SupervisorTypeOK, Created, LoopStates
  <1>6. OneLoop'
    BY <1>1, <1>3, <1>4 DEF OneLoop, IsAlive
  <1>7. JoinsAreKnown'
    BY <1>1, <1>2, <1>4 DEF JoinsAreKnown, Created
  <1> QED
    BY <1>5, <1>6, <1>7

\* The steps of stop: only its last one touches _thread, and only when the
\* thread it has joined is dead.
LEMMA StopInv ==
  ASSUME SupervisorInv, NEW c \in Callers,
         StopSet(c) \/ StopRead(c) \/ StopJoined(c) \/ StopClear(c)
  PROVE  SupervisorInv'
  <1> USE DEF SupervisorInv
  <1>1. loop' = loop /\ loop \in [Threads -> LoopStates]
    BY DEF StopSet, StopRead, StopJoined, StopClear, SupervisorTypeOK
  <1>2. caller[c] \in [pc : {"idle", "read", "join", "clear"},
                       joined : Threads \cup {None}]
    BY DEF SupervisorTypeOK
  <1>3. \A d \in Callers \ {c} : caller'[d] = caller[d]
    BY DEF StopSet, StopRead, StopJoined, StopClear, SupervisorTypeOK
  <1>4. CASE StopSet(c)
    BY <1>1, <1>2, <1>4 DEF StopSet, SupervisorTypeOK, OneLoop, JoinsAreKnown,
                            IsAlive, Created
  <1>5. CASE StopRead(c)
    BY <1>1, <1>2, <1>5 DEF StopRead, SupervisorTypeOK, OneLoop, JoinsAreKnown,
                            IsAlive, Created
  <1>6. CASE StopJoined(c)
    BY <1>1, <1>2, <1>6 DEF StopJoined, SupervisorTypeOK, OneLoop,
                            JoinsAreKnown, IsAlive, Created, None, Threads
  <1>7. CASE StopClear(c)
    <2>1. SupervisorTypeOK'
      BY <1>1, <1>2, <1>7 DEF StopClear, Cleared, SupervisorTypeOK, Created
    <2>2. OneLoop'
      BY <1>1, <1>7 DEF StopClear, Cleared, OneLoop, JoinsAreKnown, IsAlive
    <2>3. JoinsAreKnown'
      BY <1>1, <1>2, <1>7 DEF StopClear, JoinsAreKnown, SupervisorTypeOK, Created
    <2> QED
      BY <2>1, <2>2, <2>3
  <1> QED
    BY <1>4, <1>5, <1>6, <1>7

\* A step of a loop starts no loop and revives none.
LEMMA LoopInv ==
  ASSUME SupervisorInv, NEW n \in Threads, LoopStep(n)
  PROVE  SupervisorInv'
  <1> USE DEF SupervisorInv
  <1>1. PICK pc \in {"check", "run_one", "wait", "dead"} :
          loop' = [loop EXCEPT ![n] = pc]
    BY DEF LoopStep, Check, RunOne, Wait, AfterWait, LoopGoesTo
  <1>2. UNCHANGED <<stop, thread, caller>>
    BY DEF LoopStep, Check, RunOne, Wait, LoopGoesTo
  <1>3. loop[n] \in {"check", "run_one", "wait"}
    BY DEF LoopStep, Check, RunOne, Wait
  <1>4. loop \in [Threads -> LoopStates]
    BY DEF SupervisorTypeOK
  <1>5. SupervisorTypeOK'
    BY <1>1, <1>2, <1>3, <1>4 DEF SupervisorTypeOK, Created, LoopStates
  <1>6. OneLoop'
    BY <1>1, <1>2, <1>3, <1>4 DEF OneLoop, IsAlive
  <1>7. JoinsAreKnown'
    BY <1>1, <1>2, <1>3, <1>4 DEF JoinsAreKnown, Created
  <1> QED
    BY <1>5, <1>6, <1>7

\* The invariant holds in every reachable state.
THEOREM SupervisorInvariance == Spec => []SupervisorInv
  <1>1. SupervisorInv /\ [Next]_vars => SupervisorInv'
    <2> SUFFICES ASSUME SupervisorInv, [Next]_vars
                 PROVE  SupervisorInv'
      OBVIOUS
    <2>1. CASE UNCHANGED vars
      BY <2>1 DEF vars, SupervisorInv, SupervisorTypeOK, OneLoop, JoinsAreKnown,
                  IsAlive, Created
    <2>2. CASE Next
      BY <2>2, StartInv, StopInv, LoopInv DEF Next, CallerStep
    <2> QED
      BY <2>1, <2>2
  <1> QED
    BY <1>1, InitInv, PTL DEF Spec

\* The event, the reference, the threads and the calls of stop keep their
\* shape, and _thread always refers to a thread that has been started.
THEOREM SupervisorTypeCorrect == Spec => []SupervisorTypeOK
  BY SupervisorInvariance, PTL DEF SupervisorInv

\* There is never a worker loop besides the one _thread refers to, however
\* many threads call start and stop.
THEOREM OneLoopAlways == Spec => []OneLoop
  BY SupervisorInvariance, PTL DEF SupervisorInv

\* start never takes a stop back from a loop that lives.
THEOREM StopsReachLoops == Spec => StopReachesLoop
  <1> DEFINE Reaches == \A n \in Threads : stop /\ IsAlive(n) => stop'
  <1>1. SupervisorInv /\ [Next]_vars => [Reaches]_vars
    <2> SUFFICES ASSUME SupervisorInv, Next, NEW n \in Threads, stop, IsAlive(n)
                 PROVE  stop'
      OBVIOUS
    <2>1. CASE \E c \in Callers : Start(c)
      BY <2>1 DEF Start, CanStart, SupervisorInv, OneLoop
    <2>2. CASE \E c \in Callers : StopSet(c)
      BY <2>2 DEF StopSet
    <2>3. CASE UNCHANGED stop
      BY <2>3
    <2> QED
      BY <2>1, <2>2, <2>3 DEF Next, CallerStep, LoopStep, StopRead, StopJoined,
                              StopClear, Check, RunOne, Wait, LoopGoesTo
  <1> QED
    BY <1>1, SupervisorInvariance, PTL DEF Spec, StopReachesLoop

=============================================================================
