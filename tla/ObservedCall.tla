---------------------------- MODULE ObservedCall ----------------------------
(***************************************************************************)
(* A call session of the AudioSocket bridge on an Observer: while the call *)
(* is open it observes and starts background flushes, one at a time;       *)
(* close awaits the last background flush, flushes what is left and ends   *)
(* the run (RealtimeCallSession.close; LoopbackCallSession.close is the    *)
(* same without a failure alias).                                          *)
(*                                                                         *)
(* close has no handler of its own for the exceptions of the two flushes:  *)
(* either one aborts it.                                                   *)
(***************************************************************************)
EXTENDS Observer

ASSUME CallAssumption == Flushers = {"task", "close"}

VARIABLES
  call,   \* the session: how far it is, and the failure that ended the call
  task    \* _flush_task: the last background flush

callVars == <<call, task>>
vars == <<observerVars, callVars>>

Call ==
  [pc : {"open", "closing", "await", "flush", "end", "over", "aborted"},
   alias : {"none", "provider-stream-ended", "provider-close-error"}]

TaskStates == {"none", "running", "ok", "failed"}

CallGoesTo(pc) == call' = [call EXCEPT !.pc = pc]

-----------------------------------------------------------------------------
(* The open call *)

\* The call is open, or close awaits the provider's session: the provider's events
\* are still received.
InCall == call.pc \in {"open", "closing"}

\* process_audio, observe_dtmf, provider events, playback marks: observations
\* in the call.
ObserveInCall(kinds) ==
  /\ InCall
  /\ Room(kinds)
  /\ Observe(kinds)
  /\ UNCHANGED <<flush, late, serverVars, faults, callVars>>

\* _schedule_flush_if_due; a flush with nothing to send returns at once.
ScheduleFlush ==
  /\ InCall
  /\ task # "running"
  /\ \/ BeginFlush("task") /\ task' = "running"
     \/ pending = NoItems /\ task' = "ok" /\ UNCHANGED clientVars
  /\ UNCHANGED <<late, serverVars, faults, call>>

-----------------------------------------------------------------------------
(* Steps of the two flushes *)

\* The request of flush f is handled.
Handled(f) ==
  /\ Deliver(f) \/ DeliverUnsaved(f)
  /\ UNCHANGED callVars

\* What the end of a flush means to the session.
FlushReturns(f) ==
  IF f = "task" THEN task' = "ok" /\ UNCHANGED call
                ELSE CallGoesTo("end") /\ UNCHANGED task

\* Faulty variant: nobody sees how the background flush ended.
FlushRaisesUnseen(f) ==
  IF f = "task" THEN UNCHANGED callVars
                ELSE CallGoesTo("aborted") /\ UNCHANGED task

\* Faulty variant: close ends the run although its flush has failed.
FlushRaisesIgnored(f) ==
  IF f = "task" THEN task' = "failed" /\ UNCHANGED call
                ELSE CallGoesTo("end") /\ UNCHANGED task

FlushRaises(f) ==
  IF f = "task" THEN task' = "failed" /\ UNCHANGED call
                ELSE CallGoesTo("aborted") /\ UNCHANGED task

Sent(f) ==
  /\ Acknowledge(f)
  /\ IF LastPart(f) THEN FlushReturns(f) ELSE UNCHANGED callVars
  /\ UNCHANGED <<late, serverVars, faults>>

NotSent(f) ==
  /\ SendRefused(f)
  /\ FlushRaises(f)
  /\ UNCHANGED <<late, serverVars, faults>>

Unanswered(f) ==
  /\ AnswerLost(f) \/ RequestLost(f)
  /\ FlushRaises(f)

-----------------------------------------------------------------------------
(* close *)

\* The caller hangs up, or the provider's stream ends: close begins and
\* observes the BYE.
BeginClose ==
  /\ call.pc = "open"
  /\ \E alias \in {"none", "provider-stream-ended"} :
       call' = [pc |-> "closing", alias |-> alias]
  /\ Observe({"metric"})
  /\ UNCHANGED <<flush, late, serverVars, faults, task>>

\* The provider's session is closed; if that fails, so does the run.  Caller
\* speech or playback that is still active ends with an event.
ProviderClosed ==
  /\ call.pc = "closing"
  /\ \/ CallGoesTo("await")
     \/ /\ call.alias = "none"
        /\ call' = [pc |-> "await", alias |-> "provider-close-error"]
  /\ \/ UNCHANGED <<taken, pending>>
     \/ Room({"event"}) /\ Observe({"event"})
  /\ UNCHANGED <<flush, late, serverVars, faults, task>>

\* await self._flush_task returns.
TaskAwaited == task \in {"none", "ok"}

\* The last flush; the background flush may have left it nothing to send.
CloseFlush ==
  /\ call.pc = "await"
  /\ TaskAwaited
  /\ \/ BeginFlush("close") /\ CallGoesTo("flush")
     \/ pending = NoItems /\ CallGoesTo("end") /\ UNCHANGED clientVars
  /\ UNCHANGED <<late, serverVars, faults, task>>

\* Faulty variant: a background flush that failed is waited for for ever.
TaskRaisedNever == FALSE

\* await self._flush_task raises what the flush raised, however long ago.
TaskRaised == task = "failed"

CloseAborts ==
  /\ call.pc = "await"
  /\ TaskRaised
  /\ CallGoesTo("aborted")
  /\ UNCHANGED <<observerVars, task>>

\* fail_run or complete_run.
EndOf(alias) == IF alias = "none" THEN "completed" ELSE "failed"

CloseEndsRun ==
  /\ call.pc = "end"
  /\ EndRun(EndOf(call.alias))
  /\ CallGoesTo("over")
  /\ UNCHANGED <<clientVars, late, faults, task>>

\* ... whose request or answer is lost, or whose save fails.
CloseEndFails ==
  /\ call.pc = "end"
  /\ \/ Fault /\ EndRun(EndOf(call.alias))
     \/ Fault /\ UNCHANGED serverVars
     \/ EndRunUnsaved
  /\ CallGoesTo("over")
  /\ UNCHANGED <<clientVars, late, task>>

-----------------------------------------------------------------------------
Init ==
  /\ ObserverInit
  /\ call = [pc |-> "open", alias |-> "none"]
  /\ task = "none"

FlushStep(f) == Handled(f) \/ Sent(f) \/ NotSent(f)

CloseStep == ProviderClosed \/ CloseFlush \/ CloseAborts \/ CloseEndsRun

ServerStep ==
  /\ (\E m \in late : DeliverLate(m)) \/ Restart
  /\ UNCHANGED callVars

Next ==
  \/ \E kinds \in ObservedTogether : ObserveInCall(kinds)
  \/ ScheduleFlush
  \/ \E f \in Flushers : FlushStep(f) \/ Unanswered(f)
  \/ BeginClose
  \/ CloseStep
  \/ CloseEndFails
  \/ ServerStep

Spec == Init /\ [][Next]_vars

\* Requests are answered or time out, and close goes on when it can; nobody
\* has to hang up.
Fairness ==
  /\ \A f \in Flushers : WF_vars(FlushStep(f))
  /\ WF_vars(CloseStep)

LiveSpec == Spec /\ Fairness

-----------------------------------------------------------------------------
(* Properties *)

\* The session and its background flush have one of their states, and the
\* task runs exactly as long as the flush in its thread does.
CallTypeOK ==
  /\ call \in Call
  /\ task \in TaskStates
  /\ task = "running" <=> flush["task"].pc # "idle"

\* What arrives arrives in the order in which it was observed, although
\* requests are repeated and overtaken: an observation is first stored right
\* after its predecessors, and without faults it is stored once.  Audio that
\* comes out of order, or twice, would be heard in the recording.
ArriveInOrder ==
  \A k \in Kinds :
    /\ k # "audio" \/ drops = 0 =>
         \A i \in DOMAIN Stored(k) :
           LET n == Stored(k)[i]
           IN  n \in {Unnumbered, 1} \/ \E j \in 1..(i - 1) : Stored(k)[j] = n - 1
    /\ faults = 0 => ~Repeats(Stored(k))

\* The session's flushes: its task and the flush in its thread agree, and what
\* they send arrives in order.
FlushesInv == CallTypeOK /\ ArriveInOrder

\* A run that close has ended holds every observation of the call: close never
\* ends a run while a background flush still holds observations, nor after one
\* that failed.
EndedRunHasEverything ==
  status # "running" =>
    \A k \in Kinds : k # "audio" \/ drops = 0 =>
      \A n \in 1..taken[k] : n \in Range(Stored(k))

\* close comes to an end, whatever the background flush does.
CloseEnds == call.pc = "closing" ~> call.pc \in {"over", "aborted"}

\* As README.md has it, a disconnect during the call fails the run: close asks
\* for that.
DisconnectFailsRun == call.alias = "provider-stream-ended" => call.pc # "aborted"

=============================================================================
