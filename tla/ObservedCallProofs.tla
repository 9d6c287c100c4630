------------------------- MODULE ObservedCallProofs -------------------------
(***************************************************************************)
(* Proofs about ObservedCall: a run that close has ended holds every       *)
(* observation of the call, and what arrives arrives in the order in which *)
(* it was observed.                                                        *)
(***************************************************************************)
EXTENDS ObservedCall, ObserverProofs

-----------------------------------------------------------------------------
(* The session *)

(* What close relies on: its flush runs only where close awaits it, and from
   then on no background flush holds anything, nothing is observed, and only
   close ends the run. *)
SessionInv ==
  /\ CallTypeOK
  /\ call.pc # "flush" => flush["close"].pc = "idle"
  /\ call.pc \in {"flush", "end", "over"} =>
       task \in {"none", "ok"} /\ pending = NoItems
  /\ status # "running" => call.pc = "over"

(* The first states satisfy the session's invariant. *)
LEMMA InitEstablishesSessionInv ==
  ASSUME Init
  PROVE  ObserverInv /\ SessionInv
  <1>1. ObserverInv
    BY InitEstablishesInv DEF Init
  <1>2. SessionInv
    BY CallAssumption
    DEF Init, ObserverInit, SessionInv, CallTypeOK, Call, TaskStates, IdleFlush
  <1> QED
    BY <1>1, <1>2

(* The two flushes of a session. *)
LEMMA TwoFlushes ==
  ASSUME ObserverInv
  PROVE  /\ "task" \in Flushers /\ "close" \in Flushers
         /\ \A f \in Flushers : f = "task" \/ f = "close"
         /\ flush \in [Flushers -> Flush]
         /\ \A f \in Flushers : /\ flush[f] \in Flush
                                /\ flush[f].pc = "idle" => flush[f].unsent = NoItems
  BY CallAssumption DEF ObserverInv, ClientInv

(* A step of the background flush cannot meet close: it is over before. *)
LEMMA FlushStepKeepsSessionInv ==
  ASSUME ObserverInv, SessionInv, NEW f \in Flushers, FlushStep(f) \/ Unanswered(f)
  PROVE  SessionInv'
  <1>1. /\ "task" \in Flushers /\ "close" \in Flushers
        /\ f = "task" \/ f = "close"
        /\ flush \in [Flushers -> Flush] /\ flush[f] \in Flush
    BY TwoFlushes
  <1>2. flush[f].pc # "idle"
    BY DEF FlushStep, Handled, Deliver, DeliverUnsaved, Sent, Acknowledge, NotSent,
           SendRefused, Unanswered, AnswerLost, RequestLost
  <1>3. /\ f = "task" => task = "running" /\ call.pc \notin {"flush", "end", "over"}
        /\ f = "close" => call.pc = "flush"
        /\ status = "running"
        /\ call \in Call /\ task \in TaskStates
    BY <1>1, <1>2 DEF SessionInv, CallTypeOK
  <1>4. CASE Handled(f)
    <2>1. PICK pc \in {"accepted", "refused"} : flush' = [flush EXCEPT ![f].pc = pc]
      BY <1>4 DEF Handled, Deliver, DeliverUnsaved
    <2>2. flush'[f].pc # "idle" /\ \A g \in Flushers \ {f} : flush'[g] = flush[g]
      BY <1>1, <2>1 DEF Flush
    <2>3. status' = status /\ pending' = pending /\ UNCHANGED <<call, task>>
      BY <1>4 DEF Handled, Deliver, DeliverUnsaved, Ingest, IngestUnsaved, serverVars,
                  callVars
    <2> QED
      BY <1>1, <1>2, <1>3, <2>2, <2>3 DEF SessionInv, CallTypeOK
  <1>5. CASE Sent(f)
    <2>1. /\ pending' = pending /\ status' = status
          /\ flush' = [flush EXCEPT ![f] =
                         IF LastPart(f) THEN IdleFlush
                         ELSE [pc |-> "sending", unsent |-> OtherParts(@.unsent)]]
      BY <1>5 DEF Sent, Acknowledge, serverVars
    <2>2. /\ flush'[f].pc = IF LastPart(f) THEN "idle" ELSE "sending"
          /\ \A g \in Flushers \ {f} : flush'[g] = flush[g]
      BY <1>1, <2>1 DEF IdleFlush
    <2>3. CASE LastPart(f)
      <3>1. FlushReturns(f)
        BY <1>5, <2>3 DEF Sent
      <3>2. CASE f = "task"
        <4>1. task' = "ok" /\ call' = call
          BY <3>1, <3>2 DEF FlushReturns
        <4> QED
          BY <1>1, <1>3, <2>1, <2>2, <2>3, <3>2, <4>1 DEF SessionInv, CallTypeOK, TaskStates
      <3>3. CASE f = "close"
        <4>1. task' = task /\ call' = [call EXCEPT !.pc = "end"]
          BY <3>1, <3>3 DEF FlushReturns, CallGoesTo
        <4>2. call' \in Call /\ call'.pc = "end"
          BY <1>3, <4>1 DEF Call
        <4> QED
          BY <1>1, <1>3, <2>1, <2>2, <2>3, <3>3, <4>1, <4>2 DEF SessionInv, CallTypeOK
      <3> QED
        BY <1>1, <3>2, <3>3
    <2>4. CASE ~LastPart(f)
      <3>1. UNCHANGED <<call, task>>
        BY <1>5, <2>4 DEF Sent, callVars
      <3> QED
        BY <1>1, <1>2, <1>3, <2>1, <2>2, <2>4, <3>1 DEF SessionInv, CallTypeOK
    <2> QED
      BY <2>3, <2>4
  <1>6. CASE NotSent(f) \/ Unanswered(f)
    <2>1. /\ flush' = [flush EXCEPT ![f] = IdleFlush]
          /\ status' = status /\ FlushRaises(f)
      BY <1>6 DEF NotSent, SendRefused, Unanswered, AnswerLost, RequestLost, Restore,
                  serverVars
    <2>2. flush'[f].pc = "idle" /\ \A g \in Flushers \ {f} : flush'[g] = flush[g]
      BY <1>1, <2>1 DEF IdleFlush
    <2>3. CASE f = "task"
      <3>1. task' = "failed" /\ call' = call
        BY <2>1, <2>3 DEF FlushRaises
      <3> QED
        BY <1>1, <1>3, <2>1, <2>2, <2>3, <3>1 DEF SessionInv, CallTypeOK, TaskStates
    <2>4. CASE f = "close"
      <3>1. task' = task /\ call' = [call EXCEPT !.pc = "aborted"]
        BY <2>1, <2>4 DEF FlushRaises, CallGoesTo
      <3>2. call' \in Call /\ call'.pc = "aborted"
        BY <1>3, <3>1 DEF Call
      <3> QED
        BY <1>1, <1>3, <2>1, <2>2, <2>4, <3>1, <3>2 DEF SessionInv, CallTypeOK
    <2> QED
      BY <1>1, <2>3, <2>4
  <1> QED
    BY <1>4, <1>5, <1>6 DEF FlushStep

(* close goes on only when it may: every step of its own preserves the
   session's invariant. *)
LEMMA CloseStepKeepsSessionInv ==
  ASSUME ObserverInv, SessionInv, BeginClose \/ CloseStep \/ CloseEndFails
  PROVE  SessionInv'
  <1>1. /\ "task" \in Flushers /\ "close" \in Flushers
        /\ flush \in [Flushers -> Flush]
        /\ call \in Call /\ task \in TaskStates
    BY TwoFlushes DEF SessionInv, CallTypeOK
  <1>2. CASE BeginClose
    <2>1. PICK alias \in {"none", "provider-stream-ended"} :
            call' = [pc |-> "closing", alias |-> alias]
      BY <1>2 DEF BeginClose
    <2>2. call' \in Call /\ call'.pc = "closing"
      BY <2>1 DEF Call
    <2> QED
      BY <1>2, <2>2 DEF BeginClose, SessionInv, CallTypeOK, serverVars
  <1>3. CASE ProviderClosed
    <2>1. \/ call' = [call EXCEPT !.pc = "await"]
          \/ call' = [pc |-> "await", alias |-> "provider-close-error"]
      BY <1>3 DEF ProviderClosed, CallGoesTo
    <2>2. call' \in Call /\ call'.pc = "await"
      BY <1>1, <2>1 DEF Call
    <2> QED
      BY <1>3, <2>2 DEF ProviderClosed, SessionInv, CallTypeOK, serverVars
  <1>4. CASE CloseFlush
    <2>1. /\ task' = task /\ status' = status
          /\ task \in {"none", "ok"} /\ pending' = NoItems /\ call.pc = "await"
      BY <1>4
      DEF CloseFlush, TaskAwaited, BeginFlush, LeftPending, clientVars, serverVars
    <2>2. CASE BeginFlush("close") /\ CallGoesTo("flush")
      <3>1. /\ call' = [call EXCEPT !.pc = "flush"]
            /\ flush' = [flush EXCEPT !["close"] = [pc |-> "sending", unsent |-> pending]]
        BY <2>2 DEF CallGoesTo, BeginFlush
      <3>2. call' \in Call /\ call'.pc = "flush" /\ flush'["task"] = flush["task"]
        BY <1>1, <3>1 DEF Call
      <3> QED
        BY <1>1, <2>1, <3>1, <3>2 DEF SessionInv, CallTypeOK
    <2>3. CASE CallGoesTo("end") /\ UNCHANGED clientVars
      <3>1. call' = [call EXCEPT !.pc = "end"] /\ flush' = flush
        BY <2>3 DEF CallGoesTo, clientVars
      <3>2. call' \in Call /\ call'.pc = "end"
        BY <1>1, <3>1 DEF Call
      <3> QED
        BY <2>1, <3>1, <3>2 DEF SessionInv, CallTypeOK
    <2> QED
      BY <1>4, <2>2, <2>3 DEF CloseFlush
  <1>5. CASE CloseAborts
    <2>1. call' = [call EXCEPT !.pc = "aborted"] /\ call.pc = "await"
      BY <1>5 DEF CloseAborts, CallGoesTo
    <2>2. call' \in Call /\ call'.pc = "aborted"
      BY <1>1, <2>1 DEF Call
    <2> QED
      BY <1>5, <2>1, <2>2
      DEF CloseAborts, SessionInv, CallTypeOK, observerVars, clientVars, serverVars
  <1>6. CASE CloseEndsRun \/ CloseEndFails
    <2>1. /\ call' = [call EXCEPT !.pc = "over"] /\ call.pc = "end"
          /\ UNCHANGED <<taken, pending, flush, task>>
      BY <1>6 DEF CloseEndsRun, CloseEndFails, CallGoesTo, clientVars
    <2>2. call' \in Call /\ call'.pc = "over"
      BY <1>1, <2>1 DEF Call
    <2> QED
      BY <2>1, <2>2 DEF SessionInv, CallTypeOK
  <1> QED
    BY <1>2, <1>3, <1>4, <1>5, <1>6 DEF CloseStep

(* Every step preserves the session's invariant. *)
LEMMA StepKeepsSessionInv ==
  ASSUME ObserverInv, SessionInv, [Next]_vars
  PROVE  SessionInv'
  <1>1. ASSUME NEW kinds \in ObservedTogether, ObserveInCall(kinds) PROVE SessionInv'
    BY <1>1 DEF ObserveInCall, InCall, callVars, serverVars, SessionInv, CallTypeOK
  <1>2. CASE ScheduleFlush
    <2>1. CASE BeginFlush("task") /\ task' = "running"
      <3>1. /\ flush' = [flush EXCEPT !["task"] = [pc |-> "sending", unsent |-> pending]]
            /\ call' = call /\ status' = status /\ call.pc \in {"open", "closing"}
        BY <1>2, <2>1 DEF ScheduleFlush, InCall, BeginFlush, serverVars
      <3>2. flush'["task"].pc = "sending" /\ flush'["close"] = flush["close"]
        BY <3>1, TwoFlushes
      <3> QED
        BY <2>1, <3>1, <3>2 DEF SessionInv, CallTypeOK, TaskStates
    <2>2. CASE pending = NoItems /\ task' = "ok" /\ UNCHANGED clientVars
      BY <1>2, <2>2
      DEF ScheduleFlush, InCall, clientVars, serverVars, SessionInv, CallTypeOK,
          TaskStates
    <2> QED
      BY <1>2, <2>1, <2>2 DEF ScheduleFlush
  <1>3. CASE ServerStep
    <2>1. status' = status /\ UNCHANGED <<pending, flush, call, task>>
      BY <1>3 DEF ServerStep, DeliverLate, Restart, Ingest, serverVars, clientVars, callVars
    <2> QED
      BY <2>1 DEF SessionInv, CallTypeOK
  <1>4. CASE UNCHANGED vars
    BY <1>4 DEF vars, observerVars, clientVars, serverVars, callVars, SessionInv, CallTypeOK
  <1> QED
    BY <1>1, <1>2, <1>3, <1>4, FlushStepKeepsSessionInv, CloseStepKeepsSessionInv DEF Next

(* What a step of the session is to the observer and the control plane. *)
ObserverStep ==
  \/ \E kinds \in SUBSET Kinds :
       Observe(kinds) /\ UNCHANGED <<flush, late, serverVars, faults>>
  \/ \E f \in Flushers :
       \/ /\ BeginFlush(f) /\ \A g \in Flushers : flush[g].pc = "idle"
          /\ UNCHANGED <<late, serverVars, faults>>
       \/ Deliver(f) \/ DeliverUnsaved(f)
       \/ Acknowledge(f) /\ UNCHANGED <<late, serverVars, faults>>
       \/ SendRefused(f) /\ UNCHANGED <<late, serverVars, faults>>
       \/ AnswerLost(f) \/ RequestLost(f)
  \/ \E m \in late : DeliverLate(m)
  \/ \E end \in {"completed", "failed"} :
       /\ EndRun(end)
       /\ UNCHANGED <<clientVars, late>>
       /\ faults' = faults \/ Fault
  \/ (EndRunUnsaved \/ Restart) /\ UNCHANGED <<clientVars, late>>
  \/ UNCHANGED <<clientVars, late, serverVars>> /\ (faults' = faults \/ Fault)

(* Every step of the session is one of these. *)
LEMMA StepIsObserverStep ==
  ASSUME ObserverInv, SessionInv, [Next]_vars
  PROVE  ObserverStep
  <1>1. {"metric"} \in SUBSET Kinds /\ {"event"} \in SUBSET Kinds
    BY DEF Kinds
  <1>2. ASSUME NEW kinds \in ObservedTogether, ObserveInCall(kinds)
        PROVE  ObserverStep
    <2>1. kinds \in SUBSET Kinds
      BY DEF ObservedTogether, Kinds
    <2> QED
      BY <1>2, <2>1 DEF ObserveInCall, ObserverStep
  <1>3. ASSUME call.pc # "flush", task # "running"
        PROVE  \A g \in Flushers : flush[g].pc = "idle"
    BY <1>3, TwoFlushes DEF SessionInv, CallTypeOK
  <1>4. CASE ScheduleFlush
    <2>1. CASE BeginFlush("task")
      BY <1>3, <1>4, <2>1, TwoFlushes DEF ScheduleFlush, InCall, ObserverStep
    <2>2. CASE UNCHANGED clientVars
      BY <1>4, <2>2 DEF ScheduleFlush, ObserverStep
    <2> QED
      BY <1>4, <2>1, <2>2 DEF ScheduleFlush
  <1>5. ASSUME NEW f \in Flushers, FlushStep(f) \/ Unanswered(f)
        PROVE  ObserverStep
    BY <1>5 DEF FlushStep, Handled, Sent, NotSent, Unanswered, ObserverStep
  <1>6. CASE BeginClose
    BY <1>1, <1>6 DEF BeginClose, ObserverStep
  <1>7. CASE ProviderClosed
    <2>1. CASE UNCHANGED <<taken, pending>>
      BY <1>7, <2>1 DEF ProviderClosed, clientVars, ObserverStep
    <2>2. CASE Observe({"event"})
      BY <1>1, <1>7, <2>2 DEF ProviderClosed, ObserverStep
    <2> QED
      BY <1>7, <2>1, <2>2 DEF ProviderClosed
  <1>8. CASE CloseFlush
    <2>1. call.pc # "flush" /\ task # "running"
      BY <1>8 DEF CloseFlush, TaskAwaited
    <2>2. CASE BeginFlush("close")
      BY <1>3, <1>8, <2>1, <2>2, TwoFlushes DEF CloseFlush, ObserverStep
    <2>3. CASE UNCHANGED clientVars
      BY <1>8, <2>3 DEF CloseFlush, ObserverStep
    <2> QED
      BY <1>8, <2>2, <2>3 DEF CloseFlush
  <1>9. CASE CloseAborts
    BY <1>9 DEF CloseAborts, observerVars, ObserverStep
  <1>10. EndOf(call.alias) \in {"completed", "failed"}
    BY DEF EndOf
  <1>11. CASE CloseEndsRun
    BY <1>10, <1>11 DEF CloseEndsRun, ObserverStep
  <1>12. CASE CloseEndFails
    <2>1. CASE Fault /\ EndRun(EndOf(call.alias))
      BY <1>10, <1>12, <2>1 DEF CloseEndFails, ObserverStep
    <2>2. CASE Fault /\ UNCHANGED serverVars
      BY <1>12, <2>2 DEF CloseEndFails, ObserverStep
    <2>3. CASE EndRunUnsaved
      BY <1>12, <2>3 DEF CloseEndFails, ObserverStep
    <2> QED
      BY <1>12, <2>1, <2>2, <2>3 DEF CloseEndFails
  <1>13. CASE ServerStep
    BY <1>13 DEF ServerStep, Restart, ObserverStep
  <1>14. CASE UNCHANGED vars
    BY <1>14 DEF vars, observerVars, ObserverStep
  <1> QED
    BY <1>2, <1>4, <1>5, <1>6, <1>7, <1>8, <1>9, <1>11, <1>12, <1>13, <1>14
    DEF Next, CloseStep

(* The session preserves the invariant of its observer. *)
LEMMA StepKeepsObserverInv ==
  ASSUME ObserverInv, ObserverStep
  PROVE  ObserverInv'
  BY ObserveKeepsInv, BeginFlushKeepsInv, DeliverKeepsInv, AcknowledgeKeepsInv,
     FailedSendKeepsInv, DeliverLateKeepsInv, EndRunKeepsInv, DropKeepsInv, RestKeepsInv
  DEF ObserverStep

(* Every observation is on its way or stored; when the run has ended nothing is
   on its way. *)
LEMMA EndedHasEverything ==
  ASSUME ObserverInv, SessionInv
  PROVE  EndedRunHasEverything
  <1> SUFFICES ASSUME status # "running", NEW k \in Kinds, k # "audio" \/ drops = 0,
                      NEW n \in 1..taken[k]
               PROVE  n \in Range(Stored(k))
    BY DEF EndedRunHasEverything
  <1>1. pending = NoItems /\ task \in {"none", "ok"} /\ flush["close"].pc = "idle"
    BY DEF SessionInv
  <1>2. flush["task"].pc = "idle"
    BY <1>1 DEF SessionInv, CallTypeOK
  <1>3. \A f \in Flushers : flush[f].unsent = NoItems
    BY <1>1, <1>2, TwoFlushes
  <1>4. Safe(k, {n})
    BY <1>1, <1>3, NoItemsIsEmpty DEF ObserverInv, ForgottenIsSafe
  <1> QED
    BY <1>4 DEF Safe

-----------------------------------------------------------------------------
(* Order *)

(* Every number of a sequence comes after its predecessor. *)
InOrder(s) ==
  \A i \in DOMAIN s :
    s[i] \in {Unnumbered, 1} \/ \E j \in 1..(i - 1) : s[j] = s[i] - 1

(* The predecessors of a sequence's numbers are in it or in what it follows. *)
Follows(s, t) ==
  \A i \in DOMAIN t :
    \/ t[i] \in {Unnumbered, 1}
    \/ t[i] - 1 \in Range(s)
    \/ \E j \in 1..(i - 1) : t[j] = t[i] - 1

(* What follows a sequence in order may be appended to it. *)
LEMMA ConcatInOrder ==
  ASSUME NEW s \in Seq(Nat), NEW t \in Seq(Nat), InOrder(s), Follows(s, t)
  PROVE  InOrder(s \o t)
  <1>1. PICK u \in Seq(Nat) : u = s \o t
    BY RangeConcat
  <1>2. /\ DOMAIN u = 1..(Len(s) + Len(t)) /\ Len(s) \in Nat /\ Len(t) \in Nat
        /\ \A i \in 1..Len(s) : u[i] = s[i]
        /\ \A i \in 1..Len(t) : u[Len(s) + i] = t[i]
        /\ DOMAIN s = 1..Len(s) /\ DOMAIN t = 1..Len(t)
    BY <1>1
  <1> SUFFICES ASSUME NEW i \in DOMAIN u, u[i] \notin {Unnumbered, 1}
               PROVE  \E j \in 1..(i - 1) : u[j] = u[i] - 1
    BY <1>1 DEF InOrder
  <1>3. CASE i \in 1..Len(s)
    <2>1. PICK j \in 1..(i - 1) : s[j] = s[i] - 1
      BY <1>2, <1>3 DEF InOrder
    <2>2. u[i] = s[i] /\ u[j] = s[j]
      BY <1>2, <1>3
    <2> QED
      BY <2>1, <2>2
  <1>4. CASE i \notin 1..Len(s)
    <2>1. PICK n \in 1..Len(t) : i = Len(s) + n
      <3>1. i - Len(s) \in 1..Len(t) /\ i = Len(s) + (i - Len(s))
        BY <1>2, <1>4
      <3> QED
        BY <3>1
    <2>2. u[i] = t[n]
      BY <1>2, <2>1
    <2>3. CASE t[n] - 1 \in Range(s)
      <3>1. PICK j \in 1..Len(s) : s[j] = t[n] - 1
        BY <1>2, <2>3 DEF Range
      <3>2. u[j] = s[j] /\ j \in 1..(i - 1)
        BY <1>2, <2>1
      <3> QED
        BY <2>2, <3>1, <3>2
    <2>4. CASE \E j \in 1..(n - 1) : t[j] = t[n] - 1
      <3>1. PICK j \in 1..(n - 1) : t[j] = t[n] - 1
        BY <2>4
      <3>2. u[Len(s) + j] = t[j] /\ Len(s) + j \in 1..(i - 1)
        BY <1>2, <2>1
      <3> QED
        BY <2>2, <3>1, <3>2
    <2> QED
      BY <1>2, <2>2, <2>3, <2>4 DEF Follows
  <1> QED
    BY <1>3, <1>4

(* A sequence goes on to follow one that grows, ... *)
LEMMA FollowsMore ==
  ASSUME NEW s, NEW r, NEW t, Follows(s, t), Range(s) \subseteq Range(r)
  PROVE  Follows(r, t)
  BY DEF Follows

(* ... and so does its beginning. *)
LEMMA BeginningFollows ==
  ASSUME NEW s, NEW t \in Seq(Nat), NEW L \in Nat \ {0}, Follows(s, t)
  PROVE  Follows(s, SubSeq(t, 1, Least(L, Len(t))))
  <1>1. Len(t) \in Nat /\ DOMAIN t = 1..Len(t) /\ Least(L, Len(t)) \in {L, Len(t)}
    BY DEF Least
  <1>2. PICK n \in Nat : n = Least(L, Len(t))
    BY <1>1
  <1>3. n <= Len(t)
    <2>1. CASE L <= Len(t)
      BY <1>1, <1>2, <2>1 DEF Least
    <2>2. CASE ~ (L <= Len(t))
      BY <1>1, <1>2, <2>2 DEF Least
    <2> QED
      BY <2>1, <2>2
  <1>4. PICK u : u = SubSeq(t, 1, n)
    OBVIOUS
  <1>5. DOMAIN u = 1..n /\ \A i \in 1..n : u[i] = t[i]
    BY <1>1, <1>2, <1>3, <1>4
  <1>6. Follows(s, u)
    <2> SUFFICES ASSUME NEW i \in 1..n,
                        t[i] \notin {Unnumbered, 1}, t[i] - 1 \notin Range(s)
                 PROVE  \E j \in 1..(i - 1) : u[j] = u[i] - 1
      BY <1>5 DEF Follows
    <2>1. i \in DOMAIN t
      BY <1>1, <1>2, <1>3
    <2>2. PICK j \in 1..(i - 1) : t[j] = t[i] - 1
      BY <2>1 DEF Follows
    <2>3. u[j] = t[j] /\ u[i] = t[i]
      BY <1>2, <1>5
    <2> QED
      BY <2>2, <2>3
  <1> QED
    BY <1>2, <1>4, <1>6

(* Without keeps the order: what came before a member and is kept still does. *)
LEMMA WithoutInOrder ==
  ASSUME NEW s \in Seq(Nat), NEW X
  PROVE  \A i \in DOMAIN Without(s, X) : \E j \in DOMAIN s :
           /\ Without(s, X)[i] = s[j]
           /\ \A h \in 1..(j - 1) : s[h] \notin X =>
                \E g \in 1..(i - 1) : Without(s, X)[g] = s[h]
  <1>1. PICK kept :
           /\ kept[0] = <<>>
           /\ \A i \in 1..Len(s) :
                kept[i] = IF s[i] \in X THEN kept[i - 1]
                                        ELSE Append(kept[i - 1], s[i])
           /\ Without(s, X) = kept[Len(s)]
    BY WithoutUnfolds
  <1> DEFINE Before(w, i, j) ==
               \A h \in 1..(j - 1) : s[h] \notin X => \E g \in 1..(i - 1) : w[g] = s[h]
             Ordered(w, n) ==
               \A i \in DOMAIN w : \E j \in 1..n : w[i] = s[j] /\ Before(w, i, j)
             First(n) == {s[i] : i \in 1..n}
             Right(n) == /\ kept[n] \in Seq(Nat)
                         /\ Range(kept[n]) = First(n) \ X
                         /\ Ordered(kept[n], n)
             Good == {n \in Nat : Right(n)}
  <1>2. 0 \in Good
    <2>1. Right(0)
      BY <1>1 DEF Range
    <2> HIDE DEF Right
    <2> QED
      BY <2>1
  <1>3. ASSUME NEW n \in 1..Len(s), n - 1 \in Good PROVE n \in Good
    <2>1. n \in Nat /\ s[n] \in Nat /\ First(n) = First(n - 1) \cup {s[n]}
      OBVIOUS
    <2>2. Right(n - 1)
      BY <1>3
    <2>3. PICK w \in Seq(Nat) : w = kept[n - 1]
      BY <2>2
    <2>4. Range(w) = First(n - 1) \ X /\ Ordered(w, n - 1)
      BY <2>2, <2>3
    <2>5. CASE s[n] \in X
      <3>1. kept[n] = w
        BY <1>1, <2>3, <2>5
      <3>2. Ordered(w, n)
        BY <2>1, <2>4
      <3>3. Range(w) = First(n) \ X
        BY <2>1, <2>4, <2>5
      <3>4. Right(n)
        BY <3>1, <3>2, <3>3
      <3> HIDE DEF Right
      <3> QED
        BY <2>1, <3>4
    <2>6. CASE s[n] \notin X
      <3>1. PICK v \in Seq(Nat) : v = Append(w, s[n])
        BY <2>1, RangeAppend
      <3>2. kept[n] = v
        BY <1>1, <2>3, <2>6, <3>1
      <3>3. /\ DOMAIN v = 1..(Len(w) + 1) /\ DOMAIN w = 1..Len(w) /\ Len(w) \in Nat
            /\ \A i \in 1..Len(w) : v[i] = w[i]
            /\ v[Len(w) + 1] = s[n]
            /\ Range(v) = Range(w) \cup {s[n]}
        BY <2>1, <3>1, RangeAppend
      <3>4. Range(v) = First(n) \ X
        BY <2>1, <2>4, <2>6, <3>3
      <3>5. ASSUME NEW i \in DOMAIN v
            PROVE  \E j \in 1..n : v[i] = s[j] /\ Before(v, i, j)
        <4>1. CASE i \in 1..Len(w)
          <5>1. PICK j \in 1..(n - 1) : w[i] = s[j] /\ Before(w, i, j)
            BY <2>4, <3>3, <4>1
          <5>2. v[i] = s[j] /\ j \in 1..n
            BY <2>1, <3>3, <4>1, <5>1, SMTT(30)
          <5>3. \A g \in 1..(i - 1) : v[g] = w[g]
            BY <3>3, <4>1
          <5>4. Before(v, i, j)
            BY <5>1, <5>3
          <5> QED
            BY <5>2, <5>4
        <4>2. CASE i = Len(w) + 1
          <5>1. v[i] = s[n] /\ n \in 1..n
            BY <2>1, <3>3, <4>2
          <5>2. ASSUME NEW h \in 1..(n - 1), s[h] \notin X
                PROVE  \E g \in 1..(i - 1) : v[g] = s[h]
            <6>1. s[h] \in Range(w)
              BY <2>4, <5>2
            <6>2. PICK g \in 1..Len(w) : w[g] = s[h]
              BY <3>3, <6>1 DEF Range
            <6> QED
              BY <3>3, <4>2, <6>2, SMTT(30)
          <5> QED
            BY <5>1, <5>2
        <4>3. i \in 1..Len(w) \/ i = Len(w) + 1
          BY <3>3
        <4> HIDE DEF Before
        <4> QED
          BY <4>1, <4>2, <4>3
      <3>6. Ordered(v, n)
        BY <3>5
      <3>7. Right(n)
        BY <3>2, <3>4, <3>6
      <3> HIDE DEF Right
      <3> QED
        BY <2>1, <3>7
    <2> QED
      BY <2>5, <2>6
  <1>4. Right(Len(s))
    <2>1. Len(s) \in Nat
      OBVIOUS
    <2>2. \A n \in 0..Len(s) : n \in Good
      <3> HIDE DEF Good
      <3> QED
        BY <1>2, <1>3, <2>1, InductionUpTo
    <2> HIDE DEF Right
    <2> QED
      BY <2>1, <2>2
  <1>5. DOMAIN s = 1..Len(s) /\ Ordered(Without(s, X), Len(s))
    BY <1>1, <1>4
  <1> QED
    BY <1>5

(* The members that are new follow what is stored if all of them do. *)
LEMMA NewOnesFollow ==
  ASSUME NEW s \in Seq(Nat), NEW t \in Seq(Nat), Follows(s, t)
  PROVE  Follows(s, Without(t, Range(s)))
  <1>1. PICK w : w = Without(t, Range(s))
    OBVIOUS
  <1> SUFFICES ASSUME NEW i \in DOMAIN w, w[i] \notin {Unnumbered, 1},
                      w[i] - 1 \notin Range(s)
               PROVE  \E g \in 1..(i - 1) : w[g] = w[i] - 1
    BY <1>1 DEF Follows
  <1>2. PICK j \in DOMAIN t :
          /\ w[i] = t[j]
          /\ \A h \in 1..(j - 1) : t[h] \notin Range(s) =>
               \E g \in 1..(i - 1) : w[g] = t[h]
    BY <1>1, WithoutInOrder, SMTT(30)
  <1>3. PICK h \in 1..(j - 1) : t[h] = t[j] - 1
    BY <1>2 DEF Follows
  <1> QED
    BY <1>2, <1>3

(* The numbers of a sequence go up by one, from c. *)
Numbered(s, c) == \A i \in DOMAIN s : s[i] = c + i

(* What is queued is in order: what a flush holds comes right before what is
   pending, which comes last. *)
QueueInOrder ==
  \A k \in Kinds :
    /\ Numbered(pending[k], taken[k] - Len(pending[k]))
    /\ \A f \in Flushers :
         Numbered(flush[f].unsent[k],
                  taken[k] - Len(pending[k]) - Len(flush[f].unsent[k]))

(* Nothing of this kind has been dropped. *)
Intact(k) == k # "audio" \/ drops = 0

(* What is stored is in order, and a request that arrives late finds its
   predecessors stored. *)
ArrivalsInOrder ==
  \A k \in Kinds : Intact(k) =>
    /\ InOrder(Stored(k))
    /\ \A m \in late : Follows(Stored(k), m.batch[k])

(* One flush at a time: when one of the two is under way the other is not. *)
LEMMA OneFlush ==
  ASSUME ObserverInv, SessionInv, NEW f \in Flushers, flush[f].pc # "idle"
  PROVE  \A g \in Flushers \ {f} : flush[g].pc = "idle" /\ flush[g].unsent = NoItems
  <1>1. f = "task" \/ f = "close"
    BY TwoFlushes
  <1>2. CASE f = "close"
    <2>1. task \in {"none", "ok"}
      BY <1>2 DEF SessionInv
    <2> QED
      BY <1>2, <2>1, TwoFlushes DEF SessionInv, CallTypeOK
  <1>3. CASE f = "task"
    <2>1. task = "running"
      BY <1>3 DEF SessionInv, CallTypeOK
    <2>2. call.pc # "flush"
      BY <2>1 DEF SessionInv
    <2> QED
      BY <1>3, <2>2, TwoFlushes DEF SessionInv
  <1> QED
    BY <1>1, <1>2, <1>3

(* The numbers before those that a flush holds are safe. *)
LEMMA UnsentFollows ==
  ASSUME ObserverInv, SessionInv, QueueInOrder, NEW f \in Flushers,
         flush[f].pc # "idle", NEW k \in Kinds, Intact(k)
  PROVE  Follows(Stored(k), flush[f].unsent[k])
  <1>1. /\ flush[f].unsent[k] \in Seq(Nat) /\ pending[k] \in Seq(Nat)
        /\ taken[k] \in Nat
        /\ Range(flush[f].unsent[k]) \subseteq 1..taken[k]
    BY FlushFacts DEF ObserverInv, ClientInv
  <1>2. PICK u \in Seq(Nat) : u = flush[f].unsent[k]
    BY <1>1
  <1>3. PICK p \in Seq(Nat) : p = pending[k]
    BY <1>1
  <1>4. PICK c \in Int : c = taken[k] - Len(p) - Len(u)
    BY <1>1
  <1>5. /\ Numbered(u, c) /\ Numbered(p, taken[k] - Len(p))
        /\ DOMAIN u = 1..Len(u) /\ DOMAIN p = 1..Len(p)
        /\ Len(u) \in Nat /\ Len(p) \in Nat
    BY <1>2, <1>3, <1>4 DEF QueueInOrder
  <1>6. ASSUME NEW n \in 1..c PROVE n \in Range(Stored(k))
    <2>1. n \in 1..taken[k]
      BY <1>1, <1>4, <1>5
    <2>2. n \notin Range(u)
      BY <1>4, <1>5 DEF Numbered, Range
    <2>3. n \notin Range(p)
      BY <1>1, <1>4, <1>5 DEF Numbered, Range
    <2>4. \A g \in Flushers \ {f} : n \notin Range(flush[g].unsent[k])
      BY OneFlush, NoItemsIsEmpty
    <2>5. Safe(k, {n})
      BY <1>2, <1>3, <2>1, <2>2, <2>3, <2>4 DEF ObserverInv, ForgottenIsSafe
    <2> QED
      BY <2>5 DEF Safe, Intact, ObserverInv
  <1> SUFFICES ASSUME NEW i \in DOMAIN u, u[i] \notin {Unnumbered, 1},
                      ~ \E j \in 1..(i - 1) : u[j] = u[i] - 1
               PROVE  u[i] - 1 \in Range(Stored(k))
    BY <1>2 DEF Follows
  <1>7. i \in 1..Len(u) /\ u[i] = c + i /\ u[i] \in 1..taken[k]
    BY <1>1, <1>2, <1>5 DEF Numbered, Range
  <1>8. i = 1
    <2> SUFFICES ASSUME i # 1 PROVE FALSE
      OBVIOUS
    <2>1. i - 1 \in DOMAIN u /\ i - 1 \in 1..(i - 1)
      BY <1>5, <1>7, SMTT(30)
    <2>2. u[i - 1] = c + (i - 1)
      BY <1>5, <2>1 DEF Numbered
    <2>3. u[i - 1] = u[i] - 1
      BY <1>4, <1>7, <2>2
    <2> QED
      BY <2>1, <2>3
  <1>9. u[i] - 1 \in 1..c
    BY <1>1, <1>4, <1>7, <1>8 DEF Unnumbered
  <1> QED
    BY <1>6, <1>9

(* ... so the batch that it sends follows what is stored. *)
LEMMA SendingFollows ==
  ASSUME ObserverInv, SessionInv, QueueInOrder, NEW f \in Flushers,
         flush[f].pc # "idle", NEW k \in Kinds, Intact(k)
  PROVE  Follows(Stored(k), Sending(f)[k])
  <1>1. flush[f].unsent[k] \in Seq(Nat) /\ Limit[k] \in Nat \ {0}
    BY ObserverAssumption, FlushFacts DEF ObserverInv
  <1>2. Follows(Stored(k), flush[f].unsent[k])
    BY UnsentFollows
  <1>3. Sending(f)[k] = SubSeq(flush[f].unsent[k], 1,
                               Least(Limit[k], Len(flush[f].unsent[k])))
    BY DEF Sending, FirstPart
  <1> QED
    BY <1>1, <1>2, <1>3, BeginningFollows

(* A batch that follows what is stored is stored in order. *)
LEMMA IngestInOrder ==
  ASSUME ServerInv, drops \in Nat, NEW b \in Batch, Ingest(b) \/ IngestUnsaved(b),
         \A k \in Kinds : Intact(k) => InOrder(Stored(k)) /\ Follows(Stored(k), b[k])
  PROVE  \A k \in Kinds : Intact(k) => InOrder(Stored(k)')
  <1> SUFFICES ASSUME NEW k \in Kinds, Intact(k) PROVE InOrder(Stored(k)')
    OBVIOUS
  <1>1. b[k] \in Seq(Nat) /\ InOrder(Stored(k)) /\ Follows(Stored(k), b[k])
    BY DEF Batch
  <1>2. PICK s \in Seq(Nat) : s = Stored(k)
    BY DEF ServerInv, Stored, Kinds
  <1>3. /\ InOrder(s \o b[k])
        /\ InOrder(s \o Without(b[k], Range(s)))
    BY <1>1, <1>2, ConcatInOrder, NewOnesFollow, WithoutKeeps
  <1>4. CASE ~Accepts(b)
    <2>1. UNCHANGED serverVars
      BY <1>4 DEF Ingest, IngestUnsaved
    <2> QED
      BY <1>1, <2>1 DEF serverVars, Stored
  <1>5. CASE Accepts(b) /\ k = "audio"
    <2>1. WriteAudio(b) /\ status = "running" /\ drops = 0
      BY <1>5 DEF Ingest, IngestUnsaved, Accepts, Intact
    <2>2. buffer = s
      BY <1>2, <1>5, <2>1 DEF ServerInv, Stored
    <2>3. wav' = wav \/ wav' = s \o b[k]
      BY <1>5, <2>1, <2>2 DEF WriteAudio
    <2> QED
      BY <1>1, <1>3, <1>5, <2>3 DEF Stored
  <1>6. CASE Accepts(b) /\ k # "audio"
    <2>1. rows' = rows \/ SaveRows(b)
      BY <1>6 DEF Ingest, IngestUnsaved
    <2>2. /\ rows'[k] \in {rows[k], s \o b[k], s \o Without(b[k], Range(s))}
          /\ rows[k] = s
      BY <1>2, <1>6, <2>1 DEF SaveRows, NewEvents, ServerInv, Stored, Kinds
    <2> QED
      BY <1>1, <1>2, <1>3, <1>6, <2>2 DEF Stored
  <1> QED
    BY <1>4, <1>5, <1>6

(* A sequence without members is numbered from anywhere. *)
LEMMA NoItemsNumbered ==
  ASSUME NEW k \in Kinds, NEW c
  PROVE  Numbered(NoItems[k], c) /\ Len(NoItems[k]) = 0
  BY DEF NoItems, Numbered

(* Observing appends the next number. *)
LEMMA ObserveKeepsQueueOrder ==
  ASSUME ObserverInv, QueueInOrder, NEW kinds, Observe(kinds), flush' = flush
  PROVE  QueueInOrder'
  <1> SUFFICES ASSUME NEW k \in Kinds
               PROVE  /\ Numbered(pending'[k], taken'[k] - Len(pending'[k]))
                      /\ \A f \in Flushers :
                           Numbered(flush[f].unsent[k],
                                    taken'[k] - Len(pending'[k]) - Len(flush[f].unsent[k]))
    BY DEF QueueInOrder, Numbered
  <1>1. /\ pending[k] \in Seq(Nat) /\ taken[k] \in Nat
        /\ \A f \in Flushers : flush[f].unsent[k] \in Seq(Nat)
    BY FlushFacts DEF ObserverInv, ClientInv, Batch
  <1>2. PICK p \in Seq(Nat) : p = pending[k]
    BY <1>1
  <1>3. CASE k \notin kinds
    BY <1>3 DEF Observe, QueueInOrder
  <1>4. CASE k \in kinds
    <2>1. PICK t \in Nat : t = taken[k]
      BY <1>1
    <2>2. taken'[k] = t + 1 /\ pending'[k] = Append(p, t + 1)
      BY <1>2, <1>4, <2>1 DEF Observe
    <2>3. PICK q \in Seq(Nat) : q = Append(p, t + 1)
      <3>1. t + 1 \in Nat
        OBVIOUS
      <3> QED
        BY <3>1, RangeAppend
    <2>4. PICK l \in Nat : l = Len(p)
      OBVIOUS
    <2>5. /\ Len(q) = l + 1 /\ DOMAIN p = 1..l /\ DOMAIN q = 1..(l + 1)
          /\ \A i \in 1..l : q[i] = p[i]
          /\ q[l + 1] = t + 1
      BY <2>3, <2>4
    <2>6. \A i \in 1..l : p[i] = t - l + i
      BY <1>2, <2>1, <2>4, <2>5 DEF QueueInOrder, Numbered
    <2>7. t + 1 - (l + 1) = t - l
      OBVIOUS
    <2>8. ASSUME NEW i \in 1..(l + 1) PROVE q[i] = t - l + i
      <3>1. i \in 1..l \/ i = l + 1
        OBVIOUS
      <3> QED
        BY <2>5, <2>6, <3>1
    <2>9. taken'[k] - Len(pending'[k]) = taken[k] - Len(pending[k])
      <3>1. Len(pending'[k]) = l + 1
        BY <2>2, <2>3, <2>5
      <3>2. taken'[k] - Len(pending'[k]) = t + 1 - (l + 1)
        BY <2>2, <3>1
      <3>3. taken[k] - Len(pending[k]) = t - l
        BY <1>2, <2>1, <2>4
      <3> QED
        BY <2>7, <3>2, <3>3
    <2>10. Numbered(pending'[k], t - l)
      BY <2>2, <2>3, <2>5, <2>8 DEF Numbered
    <2> QED
      BY <1>2, <2>1, <2>4, <2>9, <2>10 DEF QueueInOrder
  <1> QED
    BY <1>3, <1>4

(* A flush that takes the lists holds the last numbers. *)
LEMMA BeginFlushKeepsQueueOrder ==
  ASSUME ObserverInv, QueueInOrder, NEW f \in Flushers, BeginFlush(f),
         \A g \in Flushers : flush[g].pc = "idle"
  PROVE  QueueInOrder'
  <1>1. /\ taken' = taken /\ pending' = NoItems
        /\ flush' = [flush EXCEPT ![f] = [pc |-> "sending", unsent |-> pending]]
    BY DEF BeginFlush, LeftPending
  <1>2. /\ flush'[f].unsent = pending
        /\ \A g \in Flushers \ {f} : flush'[g].unsent = NoItems
    BY <1>1, TwoFlushes
  <1> SUFFICES ASSUME NEW k \in Kinds
               PROVE  /\ Numbered(pending'[k], taken'[k] - Len(pending'[k]))
                      /\ \A g \in Flushers :
                           Numbered(flush'[g].unsent[k],
                                    taken'[k] - Len(pending'[k]) - Len(flush'[g].unsent[k]))
    BY DEF QueueInOrder, Numbered
  <1>3. taken[k] \in Nat /\ Len(NoItems[k]) = 0
    BY NoItemsNumbered DEF ObserverInv, ClientInv
  <1>4. taken[k] - 0 = taken[k]
    BY <1>3
  <1>5. Numbered(pending[k], taken[k] - Len(pending[k]))
    BY DEF QueueInOrder
  <1> QED
    BY <1>1, <1>2, <1>3, <1>4, <1>5, NoItemsNumbered

(* A flush that goes on to its next batch holds the last numbers of those it
   held. *)
LEMMA AcknowledgeKeepsQueueOrder ==
  ASSUME ObserverInv, QueueInOrder, NEW f \in Flushers, Acknowledge(f)
  PROVE  QueueInOrder'
  <1>1. flush[f].unsent \in Batch /\ OtherParts(flush[f].unsent) \in Batch
    BY FlushFacts, PartsOfBatch DEF ObserverInv
  <1>2. /\ taken' = taken /\ pending' = pending
        /\ \A g \in Flushers \ {f} : flush'[g] = flush[g]
        /\ flush'[f].unsent = OtherParts(flush[f].unsent)
    BY TwoFlushes DEF Acknowledge, LastPart, IdleFlush
  <1> SUFFICES ASSUME NEW k \in Kinds
               PROVE  Numbered(flush'[f].unsent[k],
                               taken[k] - Len(pending[k]) - Len(flush'[f].unsent[k]))
    BY <1>2 DEF QueueInOrder, Numbered
  <1>3. pending[k] \in Seq(Nat) /\ taken[k] \in Nat
    BY FlushFacts DEF ObserverInv, ClientInv
  <1>4. PICK u \in Seq(Nat) : u = flush[f].unsent[k]
    BY <1>1 DEF Batch
  <1>5. PICK L \in Nat : L = Limit[k] /\ L > 0
    BY ObserverAssumption
  <1>6. PICK v \in Seq(Nat) : v = SubSeq(u, L + 1, Len(u)) /\ v = flush'[f].unsent[k]
    BY <1>1, <1>2, <1>4, <1>5 DEF OtherParts, Batch
  <1>7. PICK l \in Nat : l = Len(u)
    OBVIOUS
  <1>12. DOMAIN u = 1..l /\ DOMAIN v = 1..Len(v) /\ Len(v) \in Nat
    BY <1>7
  <1>13. Len(v) = (IF L + 1 <= l THEN l - (L + 1) + 1 ELSE 0)
    BY <1>5, <1>6, <1>7
  <1>14. \A i \in 1..Len(v) : v[i] = u[L + 1 + i - 1]
    <2>1. PICK m \in Nat \ {0} : m = L + 1
      OBVIOUS
    <2>2. \A i \in 1..Len(SubSeq(u, m, l)) : SubSeq(u, m, l)[i] = u[m + i - 1]
      <3>1. l <= Len(u)
        BY <1>7
      <3> QED
        BY <3>1, PartOfSeq
    <2> QED
      BY <1>6, <1>7, <2>1, <2>2, Zenon
  <1>8. PICK c \in Int : c = taken[k] - Len(pending[k])
    BY <1>3
  <1>9. \A i \in 1..l : u[i] = c - l + i
    BY <1>4, <1>7, <1>8, <1>12 DEF QueueInOrder, Numbered
  <1>10. ASSUME NEW i \in 1..Len(v) PROVE v[i] = c - Len(v) + i
    <2>1. i \in Nat /\ i > 0 /\ i <= Len(v)
      BY <1>12
    <2>2. L + 1 <= l /\ Len(v) = l - L
      BY <1>12, <1>13, <2>1
    <2>3. L + i \in 1..l /\ L + 1 + i - 1 = L + i
      BY <2>1, <2>2
    <2>4. v[i] = u[L + i]
      BY <1>14, <2>3
    <2>5. v[i] = c - l + (L + i)
      BY <1>9, <2>3, <2>4
    <2> QED
      BY <2>1, <2>2, <2>5
  <1> QED
    BY <1>6, <1>8, <1>10, <1>12 DEF Numbered

(* What a flush puts back goes where it was. *)
LEMMA RestoreKeepsQueueOrder ==
  ASSUME ObserverInv, SessionInv, QueueInOrder, NEW f \in Flushers,
         flush[f].pc # "idle", Restore(f)
  PROVE  QueueInOrder'
  <1>1. /\ taken' = taken /\ pending' = Restored(f)
        /\ flush' = [flush EXCEPT ![f] = IdleFlush]
    BY DEF Restore
  <1>2. \A g \in Flushers : flush'[g].unsent = NoItems
    BY <1>1, OneFlush, TwoFlushes DEF IdleFlush
  <1> SUFFICES ASSUME NEW k \in Kinds
               PROVE  Numbered(pending'[k], taken[k] - Len(pending'[k]))
    BY <1>1, <1>2, NoItemsNumbered DEF QueueInOrder, Numbered
  <1>3. /\ pending[k] \in Seq(Nat) /\ flush[f].unsent[k] \in Seq(Nat)
        /\ taken[k] \in Nat
    BY FlushFacts DEF ObserverInv, ClientInv
  <1>4. PICK u \in Seq(Nat) : u = flush[f].unsent[k]
    BY <1>3
  <1>5. PICK p \in Seq(Nat) : p = pending[k]
    BY <1>3
  <1>6. PICK q \in Seq(Nat) : q = u \o p
    BY RangeConcat
  <1>7. q = pending'[k]
    BY <1>1, <1>4, <1>5, <1>6 DEF Restored
  <1>8. /\ Len(u) \in Nat /\ Len(p) \in Nat /\ Len(q) = Len(u) + Len(p)
        /\ DOMAIN u = 1..Len(u) /\ DOMAIN p = 1..Len(p) /\ DOMAIN q = 1..Len(q)
        /\ \A i \in 1..Len(u) : q[i] = u[i]
        /\ \A i \in 1..Len(p) : q[Len(u) + i] = p[i]
    BY <1>6
  <1>9. /\ \A i \in 1..Len(u) : u[i] = taken[k] - Len(p) - Len(u) + i
        /\ \A i \in 1..Len(p) : p[i] = taken[k] - Len(p) + i
    BY <1>4, <1>5, <1>8 DEF QueueInOrder, Numbered
  <1>10. ASSUME NEW i \in 1..Len(q) PROVE q[i] = taken[k] - Len(q) + i
    <2>1. CASE i \in 1..Len(u)
      BY <1>3, <1>8, <1>9, <2>1
    <2>2. CASE i \notin 1..Len(u)
      <3>1. PICK n \in 1..Len(p) : i = Len(u) + n
        <4>1. i - Len(u) \in 1..Len(p) /\ i = Len(u) + (i - Len(u))
          BY <1>8, <2>2
        <4> QED
          BY <4>1
      <3>2. q[i] = taken[k] - Len(p) + n
        BY <1>8, <1>9, <3>1
      <3> QED
        BY <1>3, <1>8, <3>1, <3>2
    <2> QED
      BY <2>1, <2>2
  <1> QED
    BY <1>7, <1>8, <1>10 DEF Numbered

(* Every step keeps the queue in order. *)
LEMMA StepKeepsQueueOrder ==
  ASSUME ObserverInv, SessionInv, QueueInOrder, ObserverStep
  PROVE  QueueInOrder'
  <1>1. ASSUME NEW f \in Flushers, Deliver(f) \/ DeliverUnsaved(f)
        PROVE  QueueInOrder'
    <2>1. taken' = taken /\ pending' = pending
      BY <1>1 DEF Deliver, DeliverUnsaved
    <2>2. PICK pc : flush' = [flush EXCEPT ![f].pc = pc]
      BY <1>1 DEF Deliver, DeliverUnsaved
    <2>3. \A g \in Flushers : flush'[g].unsent = flush[g].unsent
      BY <2>2, TwoFlushes DEF Flush
    <2> QED
      BY <2>1, <2>3 DEF QueueInOrder, Numbered
  <1>2. ASSUME NEW f \in Flushers, SendRefused(f) \/ AnswerLost(f) \/ RequestLost(f)
        PROVE  QueueInOrder'
    BY <1>2, RestoreKeepsQueueOrder DEF SendRefused, AnswerLost, RequestLost
  <1>3. ASSUME UNCHANGED clientVars PROVE QueueInOrder'
    BY <1>3 DEF clientVars, QueueInOrder, Numbered
  <1> QED
    BY <1>1, <1>2, <1>3, ObserveKeepsQueueOrder, BeginFlushKeepsQueueOrder,
       AcknowledgeKeepsQueueOrder
    DEF ObserverStep, DeliverLate

(* What follows the stored observations follows them when there are more. *)
LEMMA ArrivalsStay ==
  ASSUME drops \in Nat, drops' \in Nat, Grows, ArrivalsInOrder,
         \A k \in Kinds : Intact(k)' => InOrder(Stored(k)'),
         \A m \in late' \ late, k \in Kinds :
           Intact(k) => Follows(Stored(k), m.batch[k])
  PROVE  ArrivalsInOrder'
  <1> SUFFICES ASSUME NEW k \in Kinds, Intact(k)', NEW m \in late'
               PROVE  Follows(Stored(k)', m.batch[k])
    BY DEF ArrivalsInOrder
  <1>1. Intact(k)
    BY DEF Intact, Grows
  <1>2. Range(Stored(k)) \subseteq Range(Stored(k)')
    BY DEF Intact, Grows
  <1>3. Follows(Stored(k), m.batch[k])
    BY <1>1 DEF ArrivalsInOrder
  <1> QED
    BY <1>2, <1>3, FollowsMore

(* A step that leaves what is stored alone, or drops the buffer, keeps the
   order. *)
LEMMA RestKeepsArrivals ==
  ASSUME ObserverInv, ArrivalsInOrder, UNCHANGED <<rows, wav>>,
         UNCHANGED drops \/ drops' = drops + 1,
         \A m \in late' \ late, k \in Kinds :
           Intact(k) => Follows(Stored(k), m.batch[k])
  PROVE  ArrivalsInOrder'
  <1>1. drops \in Nat /\ drops' \in Nat
    BY DEF ObserverInv
  <1>2. Grows
    BY <1>1 DEF Grows, Stored
  <1>3. \A k \in Kinds : Intact(k)' => InOrder(Stored(k)')
    BY <1>1 DEF ArrivalsInOrder, Intact, Stored, InOrder
  <1> QED
    BY <1>1, <1>2, <1>3, ArrivalsStay

(* Ending the run appends at most a point without a number. *)
LEMMA EndRunKeepsArrivals ==
  ASSUME ObserverInv, ArrivalsInOrder, NEW end \in {"completed", "failed"}, EndRun(end),
         late' = late
  PROVE  ArrivalsInOrder'
  <1>1. drops \in Nat /\ ServerInv
    BY DEF ObserverInv
  <1>2. Grows /\ drops' = drops
    BY <1>1, EndRunKeeps
  <1>3. ASSUME NEW k \in Kinds, Intact(k)' PROVE InOrder(Stored(k)')
    <2>1. InOrder(Stored(k))
      BY <1>2, <1>3 DEF ArrivalsInOrder, Intact
    <2>2. CASE status # "running" \/ k # "metric"
      <3>1. Stored(k)' = Stored(k)
        BY <1>1, <2>2 DEF EndRun, serverVars, Stored, ServerInv, Kinds
      <3> QED
        BY <2>1, <3>1
    <2>3. CASE status = "running" /\ k = "metric"
      <3>1. PICK s \in Seq(Nat) : s = rows["metric"]
        BY <1>1 DEF ServerInv
      <3>2. <<0>> \in Seq(Nat) /\ <<>> \in Seq(Nat)
        OBVIOUS
      <3>3. EndPoints(end) = <<0>> \/ EndPoints(end) = <<>>
        BY DEF EndPoints, Unnumbered
      <3>4. PICK t \in Seq(Nat) : t = EndPoints(end)
        BY <3>2, <3>3
      <3>5. Stored(k)' = s \o t /\ Stored(k) = s
        BY <1>1, <2>3, <3>1, <3>4 DEF EndRun, Stored, ServerInv
      <3>6. \A i \in DOMAIN t : t[i] = 0
        BY <3>3, <3>4
      <3>7. Follows(s, t)
        BY <3>6 DEF Follows, Unnumbered
      <3> QED
        BY <2>1, <3>5, <3>7, ConcatInOrder
    <2> QED
      BY <2>2, <2>3
  <1> QED
    BY <1>1, <1>2, <1>3, ArrivalsStay

(* A batch that follows what is stored keeps the order when it is handled. *)
LEMMA IngestKeepsArrivals ==
  ASSUME ObserverInv, ArrivalsInOrder, NEW b \in Batch, ~Repeats(b["event"]),
         Ingest(b) \/ IngestUnsaved(b), late' \subseteq late,
         \A k \in Kinds : Intact(k) => Follows(Stored(k), b[k])
  PROVE  ArrivalsInOrder'
  <1>1. drops \in Nat /\ ServerInv
    BY DEF ObserverInv
  <1>2. Grows /\ drops' = drops
    BY <1>1, IngestKeeps, IngestUnsavedKeeps
  <1>3. \A k \in Kinds : Intact(k) => InOrder(Stored(k)')
    BY <1>1, IngestInOrder DEF ArrivalsInOrder
  <1>4. \A k \in Kinds : Intact(k)' => Intact(k)
    BY <1>2 DEF Intact
  <1> QED
    BY <1>1, <1>2, <1>3, <1>4, ArrivalsStay

(* Every step keeps what arrives in order. *)
LEMMA StepKeepsArrivals ==
  ASSUME ObserverInv, SessionInv, QueueInOrder, ArrivalsInOrder, ObserverStep
  PROVE  ArrivalsInOrder'
  <1>1. ASSUME NEW f \in Flushers, Deliver(f) \/ DeliverUnsaved(f)
        PROVE  ArrivalsInOrder'
    <2>1. /\ flush[f].pc # "idle" /\ late' = late
          /\ Ingest(Sending(f)) \/ IngestUnsaved(Sending(f))
      BY <1>1 DEF Deliver, DeliverUnsaved
    <2>2. flush[f].unsent \in Batch /\ ~Repeats(flush[f].unsent["event"])
      BY FlushFacts DEF ObserverInv, Kinds
    <2>3. PICK b \in Batch : b = Sending(f)
      BY <2>2, PartsOfBatch DEF Sending
    <2>4. ~Repeats(b["event"])
      BY <2>2, <2>3, PartsOfBatch DEF Sending, Kinds
    <2>5. \A k \in Kinds : Intact(k) => Follows(Stored(k), b[k])
      BY <2>1, <2>3, SendingFollows
    <2> QED
      BY <2>1, <2>3, <2>4, <2>5, IngestKeepsArrivals
  <1>2. ASSUME NEW m \in late, DeliverLate(m) PROVE ArrivalsInOrder'
    <2>1. m.batch \in Batch /\ ~Repeats(m.batch["event"])
      BY DEF ObserverInv, LateInv
    <2>2. late' \subseteq late /\ Ingest(m.batch)
      BY <1>2 DEF DeliverLate
    <2>3. \A k \in Kinds : Intact(k) => Follows(Stored(k), m.batch[k])
      BY DEF ArrivalsInOrder
    <2> QED
      BY <2>1, <2>2, <2>3, IngestKeepsArrivals
  <1>3. ASSUME NEW f \in Flushers, RequestLost(f) PROVE ArrivalsInOrder'
    <2>1. flush[f].pc # "idle" /\ UNCHANGED <<rows, wav, drops>>
      BY <1>3 DEF RequestLost, serverVars
    <2>2. ASSUME NEW m \in late' \ late, NEW k \in Kinds, Intact(k)
          PROVE  Follows(Stored(k), m.batch[k])
      <3>1. m = [id |-> faults, batch |-> Sending(f)]
        BY <1>3, <2>2 DEF RequestLost
      <3>2. m.batch = Sending(f)
        BY <3>1
      <3> QED
        BY <2>1, <2>2, <3>2, SendingFollows
    <2> QED
      BY <2>1, <2>2, RestKeepsArrivals
  <1>4. ASSUME NEW end \in {"completed", "failed"}, EndRun(end), late' = late
        PROVE  ArrivalsInOrder'
    BY <1>4, EndRunKeepsArrivals
  <1>5. ASSUME late' = late, UNCHANGED serverVars PROVE ArrivalsInOrder'
    BY <1>5, RestKeepsArrivals DEF serverVars
  <1>6. ASSUME late' = late, EndRunUnsaved \/ Restart PROVE ArrivalsInOrder'
    BY <1>6, RestKeepsArrivals DEF EndRunUnsaved, Restart
  <1> QED
    BY <1>1, <1>2, <1>3, <1>4, <1>5, <1>6 DEF ObserverStep, AnswerLost

-----------------------------------------------------------------------------
(* Without faults *)

(* What a flush has yet to hand over. *)
Unmet(f, k) ==
  IF flush[f].pc = "accepted" THEN Range(OtherParts(flush[f].unsent)[k])
                              ELSE Range(flush[f].unsent[k])

(* Of one kind: nothing is stored twice, and nothing that is stored is queued
   or to be handed over again. *)
StoredApart(k) ==
  /\ ~Repeats(Stored(k))
  /\ Range(Stored(k)) \subseteq 0..taken[k]
  /\ status = "running" => Unnumbered \notin Range(Stored(k))
  /\ Range(Stored(k)) \cap Range(pending[k]) = {}
  /\ \A f \in Flushers : Range(Stored(k)) \cap Unmet(f, k) = {}

(* As long as there has been no fault, every observation is stored once. *)
WithoutFault == faults = 0 => late = {} /\ \A k \in Kinds : StoredApart(k)

(* The two parts of a batch have no member in common. *)
LEMMA PartsAreDisjoint ==
  ASSUME NEW b \in Batch, NEW k \in Kinds, ~Repeats(b[k])
  PROVE  Range(FirstPart(b)[k]) \cap Range(OtherParts(b)[k]) = {}
  <1>1. PICK s \in Seq(Nat) : s = b[k]
    BY DEF Batch
  <1>2. PICK L \in Nat \ {0} : L = Limit[k]
    BY ObserverAssumption
  <1>3. PICK l \in Nat : l = Len(s)
    OBVIOUS
  <1>4. PICK n \in Nat : n = Least(L, l) /\ n <= l /\ n <= L
    BY DEF Least
  <1>5. L + 1 \in Nat \ {0} /\ 1 \in Nat \ {0} /\ l <= Len(s) /\ n <= Len(s)
    BY <1>3, <1>4
  <1>6. Range(SubSeq(s, 1, n)) = {s[i] : i \in 1..n}
    BY <1>5, PartOfSeq
  <1>7. Range(SubSeq(s, L + 1, l)) = {s[i] : i \in (L + 1)..l}
    BY <1>5, PartOfSeq
  <1>8. /\ FirstPart(b)[k] = SubSeq(s, 1, n)
        /\ OtherParts(b)[k] = SubSeq(s, L + 1, l)
    BY <1>1, <1>2, <1>3, <1>4 DEF FirstPart, OtherParts
  <1> SUFFICES ASSUME NEW i \in 1..n, NEW j \in (L + 1)..l, s[i] = s[j] PROVE FALSE
    BY <1>6, <1>7, <1>8, ZenonT(30)
  <1>9. i \in DOMAIN s /\ j \in DOMAIN s /\ i # j
    BY <1>3, <1>4
  <1> QED
    BY <1>1, <1>9 DEF Repeats

(* What is yet to be handed over is a part of what the flush holds. *)
LEMMA UnmetIsUnsent ==
  ASSUME ClientInv, NEW f \in Flushers, NEW k \in Kinds
  PROVE  Unmet(f, k) \subseteq Range(flush[f].unsent[k])
  <1>1. flush[f].unsent \in Batch
    BY FlushFacts
  <1>2. Range(OtherParts(flush[f].unsent)[k]) \subseteq Range(flush[f].unsent[k])
    BY <1>1, PartsOfBatch
  <1> QED
    BY <1>2 DEF Unmet

(* An accepted batch that has nothing in common with what is stored is stored
   once. *)
LEMMA IngestStoresOnce ==
  ASSUME ServerInv, drops = 0, NEW b \in Batch, Accepts(b), Ingest(b), NEW k \in Kinds,
         ~Repeats(Stored(k)), ~Repeats(b[k]), Range(Stored(k)) \cap Range(b[k]) = {}
  PROVE  /\ ~Repeats(Stored(k)')
         /\ Range(Stored(k)') \subseteq Range(Stored(k)) \cup Range(b[k])
  <1>1. PICK s \in Seq(Nat) : s = Stored(k)
    BY DEF ServerInv, Stored, Kinds
  <1>2. PICK t \in Seq(Nat) : t = b[k]
    BY DEF Batch
  <1>3. PICK w \in Seq(Nat) : /\ w = Without(t, Range(s))
                              /\ ~Repeats(w) /\ Range(w) \subseteq Range(t)
    BY <1>2, WithoutKeeps
  <1>4. /\ ~Repeats(s \o t) /\ ~Repeats(s \o w)
        /\ Range(s \o t) = Range(s) \cup Range(t)
        /\ Range(s \o w) = Range(s) \cup Range(w)
    BY <1>1, <1>2, <1>3, ConcatRepeatsNot, RangeConcat
  <1>5. WriteAudio(b) /\ SaveRows(b) /\ status = "running"
    BY DEF Ingest, Accepts
  <1>6. Stored(k)' \in {s, s \o t, s \o w}
    <2>1. CASE k = "audio"
      <3>1. buffer = s
        BY <1>1, <1>5, <2>1 DEF ServerInv, Stored
      <3>2. wav' = wav \/ wav' = s \o t
        BY <1>2, <1>5, <2>1, <3>1 DEF WriteAudio
      <3> QED
        BY <1>1, <2>1, <3>2 DEF Stored
    <2>2. CASE k # "audio"
      BY <1>1, <1>2, <1>3, <1>5, <2>2 DEF SaveRows, NewEvents, ServerInv, Stored, Kinds
    <2> QED
      BY <2>1, <2>2
  <1> QED
    BY <1>1, <1>2, <1>3, <1>4, <1>6

(* Handing over a batch stores it once, and what the flush still holds apart
   from it. *)
LEMMA DeliverKeepsApart ==
  ASSUME ObserverInv, faults = 0, NEW f \in Flushers, Deliver(f), NEW k \in Kinds,
         StoredApart(k)
  PROVE  StoredApart(k)'
  <1>1. ServerInv /\ ClientInv /\ drops = 0
    BY DEF ObserverInv
  <1>2. PICK b \in Batch : b = Sending(f) /\ ~Repeats(b[k])
    BY <1>1, FlushFacts, PartsOfBatch DEF Sending
  <1>3. /\ flush[f].pc = "sending" /\ taken' = taken /\ pending' = pending
        /\ flush' = [flush EXCEPT ![f].pc = IF Accepts(b) THEN "accepted" ELSE "refused"]
        /\ Ingest(b)
    BY <1>2 DEF Deliver
  <1>4. /\ flush'[f].pc = (IF Accepts(b) THEN "accepted" ELSE "refused")
        /\ flush'[f].unsent = flush[f].unsent
        /\ \A g \in Flushers \ {f} : flush'[g] = flush[g]
    BY <1>1, <1>3 DEF ClientInv, Flush
  <1>5. \A g \in Flushers \ {f} : Unmet(g, k)' = Unmet(g, k)
    BY <1>4 DEF Unmet, OtherParts
  <1>6. Unmet(f, k) = Range(flush[f].unsent[k])
    BY <1>3 DEF Unmet
  <1>7. CASE ~Accepts(b)
    <2>1. Unmet(f, k)' = Unmet(f, k)
      BY <1>4, <1>6, <1>7 DEF Unmet
    <2>2. UNCHANGED <<status, rows, wav>>
      BY <1>3, <1>7 DEF Ingest, serverVars
    <2>3. Stored(k)' = Stored(k)
      BY <2>2 DEF Stored
    <2> QED
      BY <1>3, <1>5, <2>1, <2>2, <2>3 DEF StoredApart
  <1>8. CASE Accepts(b)
    <2>1. Unmet(f, k)' = Range(OtherParts(flush[f].unsent)[k])
      BY <1>4, <1>8 DEF Unmet, OtherParts
    <2>2. /\ Range(b[k]) \cap Range(OtherParts(flush[f].unsent)[k]) = {}
          /\ Range(b[k]) \subseteq Range(flush[f].unsent[k])
          /\ Range(OtherParts(flush[f].unsent)[k]) \subseteq Range(flush[f].unsent[k])
      <3>1. PICK u \in Batch : u = flush[f].unsent /\ ~Repeats(u[k])
        BY <1>1, FlushFacts
      <3>2. b = FirstPart(u)
        BY <1>2, <3>1 DEF Sending
      <3>3. Range(FirstPart(u)[k]) \cap Range(OtherParts(u)[k]) = {}
        BY <3>1, PartsAreDisjoint
      <3>4. Range(u[k]) = Range(FirstPart(u)[k]) \cup Range(OtherParts(u)[k])
        BY PartsOfBatch
      <3> QED
        BY <3>1, <3>2, <3>3, <3>4
    <2>3. ~Repeats(Stored(k)) /\ Range(Stored(k)) \cap Range(b[k]) = {}
      BY <1>6, <2>2 DEF StoredApart
    <2>4. /\ ~Repeats(Stored(k)')
          /\ Range(Stored(k)') \subseteq Range(Stored(k)) \cup Range(b[k])
      BY <1>1, <1>2, <1>3, <1>8, <2>3, IngestStoresOnce
    <2>5. /\ Range(flush[f].unsent[k]) \subseteq 1..taken[k]
          /\ Range(flush[f].unsent[k]) \cap Range(pending[k]) = {}
          /\ \A g \in Flushers \ {f} :
               Range(flush[f].unsent[k]) \cap Range(flush[g].unsent[k]) = {}
          /\ \A g \in Flushers \ {f} : Unmet(g, k) \subseteq Range(flush[g].unsent[k])
          /\ taken[k] \in Nat
      BY <1>1, UnmetIsUnsent DEF ClientInv, QueuedOnce
    <2>6. Unnumbered \notin Range(b[k]) /\ Range(b[k]) \subseteq 0..taken[k]
      BY <2>2, <2>5 DEF Unnumbered
    <2>7. status = "running"
      BY <1>8 DEF Accepts
    <2>8. Range(Stored(k)') \subseteq 0..taken[k] /\ Unnumbered \notin Range(Stored(k)')
      BY <2>4, <2>6, <2>7 DEF StoredApart
    <2>9. Range(Stored(k)') \cap Range(pending[k]) = {}
      BY <2>2, <2>4, <2>5 DEF StoredApart
    <2>10. Range(Stored(k)') \cap Unmet(f, k)' = {}
      BY <1>6, <2>1, <2>2, <2>4 DEF StoredApart
    <2>11. \A g \in Flushers \ {f} : Range(Stored(k)') \cap Unmet(g, k)' = {}
      BY <1>5, <2>2, <2>4, <2>5 DEF StoredApart
    <2> QED
      BY <1>3, <2>4, <2>8, <2>9, <2>10, <2>11 DEF StoredApart
  <1> QED
    BY <1>7, <1>8

(* Steps of the observer alone: what it queues or forgets was not stored, or is
   so no more its business. *)
LEMMA ClientStepKeepsApart ==
  ASSUME ObserverInv, SessionInv, UNCHANGED serverVars, NEW k \in Kinds, StoredApart(k),
         \/ \E kinds \in SUBSET Kinds : Observe(kinds) /\ flush' = flush
         \/ \E f \in Flushers : BeginFlush(f) \/ Acknowledge(f) \/ SendRefused(f)
         \/ UNCHANGED clientVars
  PROVE  StoredApart(k)'
  <1>1. ClientInv /\ taken[k] \in Nat /\ pending[k] \in Seq(Nat)
    BY DEF ObserverInv, ClientInv, Batch
  <1>2. Stored(k)' = Stored(k) /\ status' = status
    BY DEF serverVars, Stored
  <1>3. ASSUME NEW kinds \in SUBSET Kinds, Observe(kinds), flush' = flush
        PROVE  StoredApart(k)'
    <2>1. \A f \in Flushers : Unmet(f, k)' = Unmet(f, k)
      BY <1>3 DEF Unmet, OtherParts
    <2>2. CASE k \notin kinds
      <3>1. taken'[k] = taken[k] /\ pending'[k] = pending[k]
        BY <1>3, <2>2 DEF Observe
      <3> QED
        BY <1>2, <2>1, <3>1 DEF StoredApart
    <2>3. CASE k \in kinds
      <3>1. PICK n \in Nat : n = taken[k] + 1
        BY <1>1
      <3>2. taken'[k] = n /\ pending'[k] = Append(pending[k], n)
        BY <1>3, <2>3, <3>1 DEF Observe
      <3>3. Range(pending'[k]) = Range(pending[k]) \cup {n}
        BY <1>1, <3>2, RangeAppend
      <3>4. Range(Stored(k)) \subseteq 0..n /\ n \notin Range(Stored(k))
        BY <1>1, <3>1 DEF StoredApart
      <3> QED
        BY <1>2, <2>1, <3>2, <3>3, <3>4 DEF StoredApart
    <2> QED
      BY <2>2, <2>3
  <1>4. ASSUME NEW f \in Flushers, BeginFlush(f) PROVE StoredApart(k)'
    <2>1. /\ flush'[f] = [pc |-> "sending", unsent |-> pending]
          /\ \A g \in Flushers \ {f} : flush'[g] = flush[g]
          /\ pending' = NoItems /\ taken' = taken
      BY <1>1, <1>4 DEF BeginFlush, LeftPending, ClientInv
    <2>2. \A g \in Flushers \ {f} : Unmet(g, k)' = Unmet(g, k)
      BY <2>1 DEF Unmet, OtherParts
    <2>3. Unmet(f, k)' = Range(pending[k])
      BY <2>1 DEF Unmet
    <2> QED
      BY <1>2, <2>1, <2>2, <2>3, NoItemsIsEmpty DEF StoredApart
  <1>5. ASSUME NEW f \in Flushers, Acknowledge(f) PROVE StoredApart(k)'
    <2>1. /\ flush'[f] = (IF LastPart(f) THEN IdleFlush
                          ELSE [pc |-> "sending", unsent |-> OtherParts(flush[f].unsent)])
          /\ \A g \in Flushers \ {f} : flush'[g] = flush[g]
          /\ pending' = pending /\ taken' = taken /\ flush[f].pc = "accepted"
      BY <1>1, <1>5 DEF Acknowledge, ClientInv
    <2>2. \A g \in Flushers \ {f} : Unmet(g, k)' = Unmet(g, k)
      BY <2>1 DEF Unmet, OtherParts
    <2>3. flush'[f].pc # "accepted" /\ flush'[f].unsent = OtherParts(flush[f].unsent)
      BY <2>1 DEF LastPart, IdleFlush
    <2>4. Unmet(f, k)' = Unmet(f, k)
      BY <2>1, <2>3 DEF Unmet
    <2> QED
      BY <1>2, <2>1, <2>2, <2>4 DEF StoredApart
  <1>6. ASSUME NEW f \in Flushers, SendRefused(f) PROVE StoredApart(k)'
    <2>1. /\ flush'[f] = IdleFlush
          /\ \A g \in Flushers \ {f} : flush'[g] = flush[g]
          /\ pending'[k] = flush[f].unsent[k] \o pending[k] /\ taken' = taken
          /\ flush[f].pc = "refused"
      BY <1>1, <1>6 DEF SendRefused, Restore, Restored, ClientInv
    <2>2. \A g \in Flushers \ {f} : Unmet(g, k)' = Unmet(g, k)
      BY <2>1 DEF Unmet, OtherParts
    <2>3. Unmet(f, k)' = {}
      BY <2>1, NoItemsIsEmpty DEF Unmet, IdleFlush
    <2>4. Unmet(f, k) = Range(flush[f].unsent[k])
      BY <2>1 DEF Unmet
    <2>5. Range(pending'[k]) = Range(flush[f].unsent[k]) \cup Range(pending[k])
      BY <1>1, <2>1, FlushFacts, RangeConcat
    <2> QED
      BY <1>2, <2>1, <2>2, <2>3, <2>4, <2>5 DEF StoredApart
  <1>7. CASE UNCHANGED clientVars
    <2>1. \A f \in Flushers : Unmet(f, k)' = Unmet(f, k)
      BY <1>7 DEF Unmet, OtherParts, clientVars
    <2> QED
      BY <1>2, <1>7, <2>1 DEF StoredApart, clientVars
  <1> QED
    BY <1>3, <1>4, <1>5, <1>6, <1>7

(* The point that ending the run adds is the only one without a number. *)
LEMMA EndRunKeepsApart ==
  ASSUME ObserverInv, NEW end \in {"completed", "failed"}, EndRun(end),
         UNCHANGED clientVars, NEW k \in Kinds, StoredApart(k)
  PROVE  StoredApart(k)'
  <1>1. ServerInv /\ ClientInv /\ taken[k] \in Nat
    BY DEF ObserverInv, ClientInv
  <1>2. taken' = taken /\ pending' = pending /\ flush' = flush
    BY DEF clientVars
  <1>3. \A f \in Flushers : Unmet(f, k)' = Unmet(f, k)
    BY <1>2 DEF Unmet, OtherParts
  <1>4. \A f \in Flushers : Unmet(f, k) \subseteq 1..taken[k]
    BY <1>1, UnmetIsUnsent DEF ClientInv
  <1>5. Range(pending[k]) \subseteq 1..taken[k]
    BY <1>1 DEF ClientInv
  <1>6. CASE status # "running"
    BY <1>2, <1>3, <1>6 DEF EndRun, serverVars, StoredApart, Stored
  <1>7. CASE status = "running"
    <2>1. status' # "running"
      BY <1>7 DEF EndRun
    <2>2. CASE k # "metric" \/ EndPoints(end) = <<>>
      <3>1. Stored(k)' = Stored(k)
        <4>1. CASE k # "metric"
          BY <1>1, <1>7, <4>1 DEF EndRun, Stored, ServerInv, Kinds
        <4>2. CASE k = "metric" /\ EndPoints(end) = <<>>
          <5>1. PICK s \in Seq(Nat) : s = rows["metric"]
            BY <1>1 DEF ServerInv
          <5>2. rows'["metric"] = s \o <<>>
            BY <1>1, <1>7, <4>2, <5>1 DEF EndRun, ServerInv
          <5> QED
            BY <4>2, <5>1, <5>2 DEF Stored
        <4> QED
          BY <2>2, <4>1, <4>2
      <3> QED
        BY <1>2, <1>3, <2>1, <3>1 DEF StoredApart
    <2>3. CASE k = "metric" /\ EndPoints(end) # <<>>
      <3>1. PICK s \in Seq(Nat) : s = Stored(k)
        BY <1>1, <2>3 DEF ServerInv, Stored
      <3>2. EndPoints(end) = <<0>>
        BY <2>3 DEF EndPoints, Unnumbered
      <3>3. Stored(k)' = s \o <<0>>
        BY <1>1, <1>7, <2>3, <3>1, <3>2 DEF EndRun, Stored, ServerInv
      <3>4. Stored(k)' = Append(s, 0)
        BY <3>3
      <3>5. 0 \notin Range(s) /\ ~Repeats(s) /\ 0 \in Nat
        BY <1>7, <3>1 DEF StoredApart, Unnumbered
      <3>6. ~Repeats(Stored(k)') /\ Range(Stored(k)') = Range(Stored(k)) \cup {0}
        BY <3>1, <3>4, <3>5, AppendRepeatsNot, RangeAppend
      <3>7. Range(Stored(k)') \subseteq 0..taken[k]
        BY <1>1, <3>6 DEF StoredApart
      <3>8. Range(Stored(k)') \cap Range(pending[k]) = {}
        BY <1>1, <1>5, <3>6 DEF StoredApart
      <3>9. \A f \in Flushers : Range(Stored(k)') \cap Unmet(f, k) = {}
        BY <1>1, <1>4, <3>6 DEF StoredApart
      <3> QED
        BY <1>2, <1>3, <2>1, <3>6, <3>7, <3>8, <3>9 DEF StoredApart
    <2> QED
      BY <2>2, <2>3
  <1> QED
    BY <1>6, <1>7

(* Every step without a fault stores what it stores once. *)
LEMMA StepKeepsWithoutFault ==
  ASSUME ObserverInv, SessionInv, WithoutFault, ObserverStep
  PROVE  WithoutFault'
  <1> SUFFICES ASSUME faults' = 0 PROVE late' = {} /\ \A k \in Kinds : StoredApart(k)'
    BY DEF WithoutFault
  <1>1. faults \in Nat /\ ~Fault
    BY DEF ObserverInv, Fault
  <1>2. faults = 0
    BY <1>1 DEF ObserverStep, Deliver, DeliverUnsaved, AnswerLost, RequestLost, DeliverLate,
                EndRunUnsaved, Restart
  <1>3. late = {} /\ \A k \in Kinds : StoredApart(k)
    BY <1>2 DEF WithoutFault
  <1>4. ASSUME NEW f \in Flushers, Deliver(f)
        PROVE  late' = {} /\ \A k \in Kinds : StoredApart(k)'
    BY <1>2, <1>3, <1>4, DeliverKeepsApart DEF Deliver
  <1>5. ASSUME UNCHANGED <<late, serverVars>>,
               \/ \E kinds \in SUBSET Kinds : Observe(kinds) /\ flush' = flush
               \/ \E f \in Flushers : BeginFlush(f) \/ Acknowledge(f) \/ SendRefused(f)
               \/ UNCHANGED clientVars
        PROVE  late' = {} /\ \A k \in Kinds : StoredApart(k)'
    BY <1>3, <1>5, ClientStepKeepsApart
  <1>6. ASSUME NEW end \in {"completed", "failed"}, EndRun(end), UNCHANGED <<clientVars, late>>
        PROVE  late' = {} /\ \A k \in Kinds : StoredApart(k)'
    BY <1>3, <1>6, EndRunKeepsApart
  <1> QED
    BY <1>1, <1>3, <1>4, <1>5, <1>6
    DEF ObserverStep, DeliverUnsaved, AnswerLost, RequestLost, EndRunUnsaved, Restart

-----------------------------------------------------------------------------
(* Theorems *)

(* The inductive invariant of a call. *)
CallInv ==
  /\ ObserverInv /\ SessionInv
  /\ QueueInOrder /\ ArrivalsInOrder /\ WithoutFault

(* A call begins with nothing observed. *)
LEMMA InitEstablishesCallInv ==
  ASSUME Init
  PROVE  CallInv
  <1>1. ObserverInv /\ SessionInv
    BY InitEstablishesSessionInv
  <1>2. /\ pending = NoItems /\ \A f \in Flushers : flush[f] = IdleFlush
        /\ late = {} /\ rows = [k \in {"metric", "event"} |-> <<>>] /\ wav = <<>>
    BY DEF Init, ObserverInit
  <1>3. \A k \in Kinds : Stored(k) = <<>>
    BY <1>2 DEF Stored, Kinds
  <1>4. QueueInOrder
    BY <1>2, NoItemsNumbered DEF QueueInOrder, IdleFlush
  <1>5. ArrivalsInOrder
    BY <1>2, <1>3 DEF ArrivalsInOrder, InOrder
  <1>6. \A k \in Kinds : Range(Stored(k)) = {} /\ ~Repeats(Stored(k))
    BY <1>3 DEF Range, Repeats
  <1>7. WithoutFault
    BY <1>2, <1>6 DEF WithoutFault, StoredApart
  <1> QED
    BY <1>1, <1>4, <1>5, <1>7 DEF CallInv

(* Every step of a call preserves the invariant. *)
LEMMA StepKeepsCallInv ==
  ASSUME CallInv, [Next]_vars
  PROVE  CallInv'
  <1>1. ObserverStep
    BY StepIsObserverStep DEF CallInv
  <1> QED
    BY <1>1, StepKeepsObserverInv, StepKeepsSessionInv, StepKeepsQueueOrder,
       StepKeepsArrivals, StepKeepsWithoutFault
    DEF CallInv

(* The invariant says what the run of ObservedCall checks. *)
LEMMA CallInvImplies ==
  ASSUME CallInv
  PROVE  FlushesInv /\ EndedRunHasEverything
  <1>1. CallTypeOK
    BY DEF CallInv, SessionInv
  <1>2. ArriveInOrder
    <2> SUFFICES ASSUME NEW k \in Kinds
                 PROVE  /\ k # "audio" \/ drops = 0 => InOrder(Stored(k))
                        /\ faults = 0 => ~Repeats(Stored(k))
      BY DEF ArriveInOrder, InOrder
    <2> QED
      BY DEF CallInv, ArrivalsInOrder, Intact, WithoutFault, StoredApart
  <1> QED
    BY <1>1, <1>2, EndedHasEverything DEF CallInv, FlushesInv

(* The invariant holds throughout every call, whatever fails. *)
THEOREM CallInvariance == Spec => []CallInv
  BY InitEstablishesCallInv, StepKeepsCallInv, PTL DEF Spec

(* The background flush and its task agree, and what a call observes arrives in
   the order in which it was observed: flush, its retries and requests that
   arrive after their timeout (VoxBenchObserver.flush, ingest_observation_batch)
   never store an observation before its predecessor, and without a fault store
   it once. *)
THEOREM ObservationsArriveInOrder == Spec => []FlushesInv
  BY CallInvariance, CallInvImplies, PTL

(* A run that close has ended holds every observation of the call
   (RealtimeCallSession.close awaits the background flush, then flushes, then
   ends the run). *)
THEOREM CloseLosesNothing == Spec => []EndedRunHasEverything
  BY CallInvariance, CallInvImplies, PTL

(* The observer's promises hold in every call, too: no observation disappears,
   and a batch that is repeated or arrives late leaves one copy of an event. *)
THEOREM CallKeepsObservations == Spec => [](NothingIsLost /\ DeliveredOnce)
  <1>1. CallInv => NothingIsLost /\ DeliveredOnce
    BY InvImplies DEF CallInv
  <1> QED
    BY <1>1, CallInvariance, PTL

=============================================================================
