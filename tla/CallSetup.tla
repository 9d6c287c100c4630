------------------------------ MODULE CallSetup ------------------------------
(***************************************************************************)
(* The setting up and the end of one call of the realtime bridge, seen     *)
(* from the run it is recorded in: create_session with connect_with_retry, *)
(* the AMI RTCP collector it starts, and close.                            *)
(*                                                                         *)
(* The collector has an observer of its own, and flushes it in a thread    *)
(* which a cancellation of the collector does not stop.  What flush does   *)
(* in detail is in module Observer; here a flush delivers all of what is   *)
(* pending, or fails, before or after it has been stored.                  *)
(***************************************************************************)
EXTENDS Integers, Sequences, FiniteSets, FiniteSetsExt, SequencesExt

CONSTANTS
  Attempts,        \* --connect-attempts
  InitialBackoff,  \* --connect-backoff-seconds
  MaxBackoff,      \* max_backoff_seconds
  Errors,          \* what the provider's errors say, as sets of token groups
  RtcpEvents,      \* the RTCP events of the AMI
  MaxEvents,       \* RTCP events (bound)
  MaxFaults        \* requests to the control plane that fail (bound)

TokenGroups ==
  {"api key not valid", "permission denied", "quota", "model", "location",
   "not found", "not supported", "unavailable", "restricted", "timeout"}

Absent == -1

ASSUME SetupAssumption ==
  /\ Attempts \in Nat \ {0}
  /\ {InitialBackoff, MaxBackoff, MaxEvents, MaxFaults} \subseteq Nat
  /\ Errors \subseteq SUBSET TokenGroups

\* Powers of two are numbers and grow; proofs about the backoff rest on it.
ASSUME PowersGrow ==
  \A i \in 0..Attempts :
    2 ^ i \in Nat /\ \A j \in 0..Attempts : i <= j => 2 ^ i <= 2 ^ j

VARIABLES
  setup,      \* create_session
  tried,      \* history: what became of the attempts to connect
  waits,      \* history: the backoff delays
  open,       \* open connections to the provider, of a session or of nobody
  observer,   \* the metrics pending in the call's observer
  collector,  \* collect_call_rtcp
  rtcp,       \* the collector's observer: what is pending in it and in a thread
  call,       \* the rest of the call, and close
  run,        \* the run in the control plane
  faults      \* the requests that have failed, by what they were for

setupVars == <<setup, tried, waits, open, observer, collector, rtcp, call, run, faults>>

Metric(name, value) == [name |-> name, value |-> value]

-----------------------------------------------------------------------------
(* classify_provider_error *)

\* The categories in the order in which they are tried.  An error is the set of
\* the token groups found in its text, and a category needs one of each set.
Categories ==
  <<[alias |-> "invalid-api-key", needs |-> {{"api key not valid"}}],
    [alias |-> "permission-denied", needs |-> {{"permission denied"}}],
    [alias |-> "quota-or-rate-limit", needs |-> {{"quota"}}],
    [alias |-> "model-unavailable",
     needs |-> {{"model"}, {"not found", "not supported", "unavailable"}}],
    [alias |-> "location-unavailable",
     needs |-> {{"location"}, {"not supported", "unavailable", "restricted"}}],
    [alias |-> "provider-temporarily-unavailable",
     needs |-> {{"unavailable", "timeout"}}],
    [alias |-> "provider-connect-error", needs |-> {}]>>

ClassifyProviderError(error) ==
  Categories[Min({i \in DOMAIN Categories :
                    \A S \in Categories[i].needs : error \cap S # {}})].alias

\* Faulty variant: the category of an error is the alias, as it is.
ClassifiedAlias(error) == ClassifyProviderError(error)

\* The alias of an error in the middle of a call.
SessionErrorAlias(error) ==
  LET alias == ClassifyProviderError(error)
  IN  IF alias = "provider-connect-error" THEN "provider-session-error" ELSE alias

-----------------------------------------------------------------------------
(* The control plane, external to the bridge: a request is answered, fails, or
   fails after it has been served. *)

Fault(what) == Len(faults) < MaxFaults /\ faults' = Append(faults, what)

\* Observations are stored in a run that is running, and refused by any other.
Store(batch) ==
  run' = IF run.status = "running"
         THEN [run EXCEPT !.stored = @ \o batch] ELSE run

EndRun(status, alias) ==
  run' = IF run.status = "running"
         THEN [run EXCEPT !.status = status, !.alias = alias] ELSE run

-----------------------------------------------------------------------------
(* create_session *)

\* transport.start_run, then the first attempt.
StartRun ==
  /\ setup.pc = "start"
  /\ \/ /\ run' = [run EXCEPT !.status = "running"]
        /\ setup' = [pc |-> "connect", attempt |-> 1]
        /\ UNCHANGED faults
     \/ /\ Fault("start")
        /\ run' \in {run, [run EXCEPT !.status = "running"]}
        /\ setup' = [setup EXCEPT !.pc = "raised"]
  /\ UNCHANGED <<tried, waits, open, observer, collector, rtcp, call>>

\* The metrics of a connection that was established.
Connected(attempt) ==
  <<Metric("attempts", attempt), Metric("retries", attempt - 1)>>
    \o (IF attempt > 1 THEN <<Metric("failures", attempt - 1)>> ELSE <<>>)

ConnectSucceeds ==
  /\ setup.pc = "connect"
  /\ tried' = Append(tried, "connected")
  /\ open' = open + 1
  /\ setup' = [setup EXCEPT !.pc = "flush"]
  /\ observer' = Connected(setup.attempt)
  /\ UNCHANGED <<waits, collector, rtcp, call, run, faults>>

\* Faulty variant: the delay grows by one step too many.
BackoffUncapped(attempt) == InitialBackoff * 2 ^ (attempt - 1)

Backoff(attempt) ==
  LET delay == InitialBackoff * 2 ^ (attempt - 1)
  IN  IF delay < MaxBackoff THEN delay ELSE MaxBackoff

\* connect raises.  OpenAIRealtimeProvider.connect may do so after the websocket
\* was opened, when session.update cannot be sent: nobody closes it.
ConnectFails ==
  /\ setup.pc = "connect"
  /\ \/ tried' = Append(tried, "refused") /\ UNCHANGED open
     \/ tried' = Append(tried, "unconfigured") /\ open' = open + 1
  /\ IF setup.attempt >= Attempts
     THEN /\ setup' = [setup EXCEPT !.pc = "exhausted"]
          /\ observer' = <<Metric("attempts", Attempts),
                           Metric("retries", Attempts - 1),
                           Metric("failures", Attempts), Metric("exhausted", 1)>>
          /\ UNCHANGED waits
     ELSE /\ setup' = [setup EXCEPT !.pc = "backoff"]
          /\ waits' = Append(waits, Backoff(setup.attempt))
          /\ UNCHANGED observer
  /\ UNCHANGED <<collector, rtcp, call, run, faults>>

BackoffOver ==
  /\ setup.pc = "backoff"
  /\ setup' = [pc |-> "connect", attempt |-> setup.attempt + 1]
  /\ UNCHANGED <<tried, waits, open, observer, collector, rtcp, call, run, faults>>

\* Faulty variant: a failed flush goes the way of any other exception.
AfterExhaustedFlushOnly(delivered) == IF delivered THEN "failing" ELSE "raised"

\* flush ... finally fail_run.
AfterExhaustedFlush(delivered) == "failing"

\* A flush of the call's observer, for what, and whether it succeeds.
FlushObserver(what, delivered) ==
  \/ /\ delivered
     /\ Store(observer)
     /\ observer' = <<>>
     /\ UNCHANGED faults
  \/ /\ ~delivered
     /\ Fault(what)
     /\ run' \in {run, [run EXCEPT !.stored = @ \o observer]}
     /\ UNCHANGED observer

ReportExhausted ==
  /\ setup.pc = "exhausted"
  /\ \E delivered \in BOOLEAN :
       /\ FlushObserver("exhausted", delivered)
       /\ setup' = [setup EXCEPT !.pc = AfterExhaustedFlush(delivered)]
  /\ UNCHANGED <<tried, waits, open, collector, rtcp, call>>

FailExhausted ==
  /\ setup.pc = "failing"
  /\ \/ EndRun("failed", "provider-connect-error") /\ UNCHANGED faults
     \/ Fault("fail") /\ (UNCHANGED run \/ EndRun("failed", "provider-connect-error"))
  /\ setup' = [setup EXCEPT !.pc = "raised"]
  /\ UNCHANGED <<tried, waits, open, observer, collector, rtcp, call>>

\* The first flush of a connected session.  When it fails create_session raises,
\* and the handler has no session to close.
FlushConnected ==
  /\ setup.pc = "flush"
  /\ \/ /\ FlushObserver("connected", TRUE)
        /\ setup' = [setup EXCEPT !.pc = "session"]
        /\ call' = [call EXCEPT !.pc = "active"]
        /\ collector' \in {collector, [collector EXCEPT !.pc = "connect"]}
     \/ /\ FlushObserver("connected", FALSE)
        /\ setup' = [setup EXCEPT !.pc = "raised"]
        /\ UNCHANGED <<call, collector>>
  /\ UNCHANGED <<tried, waits, open, rtcp>>

-----------------------------------------------------------------------------
(* The collector *)

\* rtcp_event_to_stats.  Loss is in 1/256, jitter and round trip in units of
\* their own; a report may lack either.
ReportsOf(event, field) == {r[field] : r \in event.reports} \ {Absent}

Largest(S) == IF S = {} THEN Absent ELSE CHOOSE x \in S : \A y \in S : y <= x

\* Faulty variant: a fraction of 256 is let through.
InvalidReportLax(event) ==
  (\E f \in ReportsOf(event, "lost") : f \notin 0..256) \/ event.rtt < Absent

\* A value out of range is an AmiProtocolError.  (Absent is -1: a value below it
\* stands for a negative one.)
InvalidReport(event) ==
  \/ \E f \in ReportsOf(event, "lost") : f \notin 0..255
  \/ \E j \in ReportsOf(event, "jitter") : j < 0
  \/ event.received /\ event.rtt < Absent

RtcpEventToStats(event) ==
  [jitter |-> Largest(ReportsOf(event, "jitter")),
   loss   |-> Largest(ReportsOf(event, "lost")),
   rtt    |-> IF event.received THEN event.rtt ELSE Absent]

NoStats == [jitter |-> Absent, loss |-> Absent, rtt |-> Absent]

\* observe_rtp_stats and observe_metric, by the order of observing.
Point(name, stats) == [name |-> name, value |-> 1, ts |-> collector.ts + 1,
                       stats |-> stats]

\* Faulty variant: events are left for a later flush.
ObserveForLater(name, stats, pc, collected) ==
  /\ collector' = [pc |-> IF pc = "flushing" THEN "events" ELSE pc,
                   ts |-> collector.ts + 1, collected |-> collected]
  /\ rtcp' = [rtcp EXCEPT !.pending = Append(@, Point(name, stats))]

\* The collector observes and calls flush in a thread, in one step.
ObserveAndFlush(name, stats, pc, collected) ==
  /\ collector' = [pc |-> pc, ts |-> collector.ts + 1, collected |-> collected]
  /\ rtcp' = [pending |-> <<>>,
              thread |-> Append(rtcp.pending, Point(name, stats))]

\* An AmiError: it is counted by a metric, which is flushed with whatever an
\* earlier flush has left.
CollectorError ==
  ObserveAndFlush("rtcp_failures", NoStats, "reporting", collector.collected)

\* Connection, greeting and login, up to an answer that is a success.
AmiLogsIn ==
  /\ collector.pc = "connect"
  /\ \/ ObserveAndFlush("rtcp_connected", NoStats, "flushing", 0)
     \/ CollectorError
  /\ UNCHANGED <<setup, tried, waits, open, observer, call, run, faults>>

\* The next RTCP event.
AmiEvent ==
  /\ collector.pc = "events"
  /\ collector.collected < MaxEvents
  /\ \E event \in RtcpEvents :
       \/ InvalidReport(event) /\ CollectorError
       \/ /\ ~InvalidReport(event)
          /\ RtcpEventToStats(event) # NoStats
          /\ ObserveAndFlush("rtcp_events", RtcpEventToStats(event), "flushing",
                             collector.collected + 1)
  /\ UNCHANGED <<setup, tried, waits, open, observer, call, run, faults>>

\* The AMI ends the connection, or sends what is not a message.
AmiEnds ==
  /\ collector.pc = "events"
  /\ CollectorError
  /\ UNCHANGED <<setup, tried, waits, open, observer, call, run, faults>>

\* The connection is reset.  That is an OSError, not an AmiError: the task ends
\* without a metric.
AmiResets ==
  /\ collector.pc \in {"connect", "events"}
  /\ collector' = [collector EXCEPT !.pc = "broken"]
  /\ UNCHANGED <<setup, tried, waits, open, observer, rtcp, call, run, faults>>

\* Faulty variant: what could not be delivered is forgotten.
RestoredNothing(stored) == rtcp.pending

\* What flush leaves pending: nothing, or after a failure all of it.
RestoredRtcp(stored) == IF stored THEN rtcp.pending ELSE rtcp.thread \o rtcp.pending

\* The thread's flush returns or raises.  The collector is told, unless it has
\* been cancelled.
ThreadFlushed ==
  /\ rtcp.thread # <<>>
  /\ \E delivered \in BOOLEAN :
       /\ \/ /\ delivered
             /\ run.status = "running"
             /\ run' = [run EXCEPT !.stored = @ \o rtcp.thread]
             /\ UNCHANGED faults
          \/ ~delivered /\ run.status # "running" /\ UNCHANGED <<run, faults>>
          \/ /\ ~delivered
             /\ Fault("rtcp")
             /\ \/ UNCHANGED run
                \/ Store(rtcp.thread)
       /\ \/ /\ collector.pc = "flushing"
             /\ delivered
             /\ collector' = [collector EXCEPT !.pc = "events"]
             /\ rtcp' = [pending |-> RestoredRtcp(TRUE), thread |-> <<>>]
          \/ /\ collector.pc = "flushing"
             /\ ~delivered
             /\ collector' = [collector EXCEPT !.pc = "reporting", !.ts = @ + 1]
             /\ rtcp' = [pending |-> <<>>,
                         thread |-> Append(RestoredRtcp(FALSE),
                                      Point("rtcp_failures", NoStats))]
          \/ /\ collector.pc # "flushing"
             /\ collector' = IF collector.pc = "cancelled" THEN collector
                             ELSE [collector EXCEPT !.pc = "ended"]
             /\ rtcp' = [pending |-> RestoredRtcp(delivered), thread |-> <<>>]
  /\ UNCHANGED <<setup, tried, waits, open, observer, call>>

-----------------------------------------------------------------------------
(* The call and its close *)

CallAliases ==
  {"none", "provider-stream-ended", "realtime-bridge-error", "provider-close-error"}
    \cup {SessionErrorAlias(e) : e \in Errors}

\* Faulty variant: only a call that failed closes its session.
SessionKept(n) == n

\* provider_session.close.
SessionClosed(n) == n - 1

\* The call is over.  close ends the provider's session, which may raise, and
\* cancels the collector; its thread goes on.  A background flush of the call that
\* has failed is raised in between: the collector is left alone, and the run open.
CloseBegins ==
  /\ call.pc = "active"
  /\ open' = SessionClosed(open)
  /\ \E alias \in CallAliases :
       \/ /\ call' = [pc |-> "closing", alias |-> alias]
          /\ collector' = IF collector.pc \in {"off", "ended", "broken"} THEN collector
                          ELSE [collector EXCEPT !.pc = "cancelled"]
          /\ UNCHANGED faults
       \/ /\ Fault("close")
          /\ call' = [pc |-> "closed", alias |-> alias]
          /\ UNCHANGED collector
  /\ UNCHANGED <<setup, tried, waits, observer, rtcp, run>>

\* The last flush, and complete_run or fail_run; each of them may raise.
CloseEndsRun ==
  LET Ends == EndRun(IF call.alias = "none" THEN "completed" ELSE "failed",
                     call.alias)
  IN  /\ call.pc = "closing"
      /\ call' = [call EXCEPT !.pc = "closed"]
      /\ \/ Ends /\ UNCHANGED faults
         \/ Fault("close") /\ (Ends \/ UNCHANGED run)
      /\ UNCHANGED <<setup, tried, waits, open, observer, collector, rtcp>>

-----------------------------------------------------------------------------
SetupInit ==
  /\ setup = [pc |-> "start", attempt |-> 0]
  /\ tried = <<>>
  /\ waits = <<>>
  /\ open = 0
  /\ observer = <<>>
  /\ collector = [pc |-> "off", ts |-> 0, collected |-> 0]
  /\ rtcp = [pending |-> <<>>, thread |-> <<>>]
  /\ call = [pc |-> "none", alias |-> "none"]
  /\ run = [status |-> "none", alias |-> "none", stored |-> <<>>]
  /\ faults = <<>>

SetupNext ==
  \/ StartRun \/ ConnectSucceeds \/ ConnectFails \/ BackoffOver
  \/ ReportExhausted \/ FailExhausted \/ FlushConnected
  \/ AmiLogsIn \/ AmiEvent \/ AmiEnds \/ AmiResets \/ ThreadFlushed
  \/ CloseBegins \/ CloseEndsRun

SetupSpec == SetupInit /\ [][SetupNext]_setupVars

-----------------------------------------------------------------------------
(* What the run shows of it: status projections of the control plane *)

\* latest_host_metrics: the values of the newest metric of a name.
LatestValue(name) ==
  LET named == {i \in DOMAIN run.stored : run.stored[i].name = name}
  IN  IF named = {} THEN 0 ELSE run.stored[Max(named)].value

Exhausted == LatestValue("exhausted") > 0 \/ run.alias = "provider-connect-error"

\* provider_connection_status of a run in provider mode.
ProviderConnectionStatus ==
  CASE Exhausted -> "exhausted"
    [] ~Exhausted /\ LatestValue("attempts") > 0 -> "connected"
    [] OTHER -> IF run.status = "running" THEN "pending" ELSE "unobserved"

OfCollector(x) == x.name \in {"rtcp_connected", "rtcp_events", "rtcp_failures"}

\* Faulty variant: a collector that has collected anything is collecting.
LatestEvent(stored) ==
  LET events == {x \in stored : x.name = "rtcp_events"}
  IN  CHOOSE x \in IF events # {} THEN events ELSE stored : TRUE

LatestStatus(stored) ==
  CHOOSE x \in stored : \A y \in stored : y.ts <= x.ts

\* rtp_collector_status: its state.
RtpCollectorStatus ==
  LET stored == {x \in Range(run.stored) : OfCollector(x)}
  IN  IF stored = {} THEN "inactive"
      ELSE CASE LatestStatus(stored).name = "rtcp_failures" -> "failed"
             [] LatestStatus(stored).name = "rtcp_events" -> "collecting"
             [] LatestStatus(stored).name = "rtcp_connected" -> "connected"

\* Where the points of RTCP events are in a list (events_collected is their
\* number), and when they were observed.
EventsIn(list) == {i \in DOMAIN list : list[i].name = "rtcp_events"}
EventTimes(list) == {list[i].ts : i \in EventsIn(list)}

-----------------------------------------------------------------------------
(* Properties *)

\* Every variable has its type.
SetupTypeOK ==
  /\ setup.pc \in {"start", "connect", "backoff", "exhausted", "failing", "flush",
                   "session", "raised"}
  /\ setup.attempt \in 0..Attempts
  /\ Len(tried) <= Attempts
  /\ open \in 0..Attempts
  /\ collector.pc \in {"off", "connect", "flushing", "events", "reporting",
                       "ended", "broken", "cancelled"}
  /\ collector.collected \in 0..MaxEvents
  /\ call.pc \in {"none", "active", "closing", "closed"}
  /\ run.status \in {"none", "running", "completed", "failed"}
  /\ {rtcp.thread[i].stats.loss : i \in DOMAIN rtcp.thread} \subseteq Absent..255

\* connect_with_retry tries at most Attempts times, never again once it has
\* connected; it waits between two attempts and only there, each time at least
\* as long as before, and never longer than the cap.
RetriesAreBounded ==
  /\ \A i \in DOMAIN waits : waits[i] <= MaxBackoff
  /\ \A i, j \in DOMAIN waits : i <= j => waits[i] <= waits[j]
  /\ setup.pc \in {"exhausted", "failing", "flush", "session"} =>
       /\ Len(waits) = Len(tried) - 1
       /\ setup.pc \in {"exhausted", "failing"} => Len(tried) = Attempts
       /\ \A i \in DOMAIN tried : tried[i] = "connected" => i = Len(tried)

\* The metrics of a connection, as far as they are stored, say what happened:
\* the live view shows exhausted only if every attempt failed, connected only if
\* one did not, with their number, and an error in the middle of the call never
\* makes it look as if the connection had not come about.
ConnectionStatusIsTrue ==
  /\ ProviderConnectionStatus = "exhausted" =>
       Len(tried) = Attempts /\ Last(tried) # "connected"
  /\ ProviderConnectionStatus = "connected" =>
       /\ Last(tried) = "connected"
       /\ LatestValue("attempts") = Len(tried)
       /\ LatestValue("failures") = Len(tried) - 1
  /\ call.pc # "none" => ProviderConnectionStatus = "connected"

\* If all attempts fail, the run ends with provider-connect-error, although the
\* flush before may fail; only a fail_run that fails itself leaves it running.
ExhaustedFailsRun ==
  setup.pc = "raised" /\ Len(tried) = Attempts /\ Range(faults) \subseteq {"exhausted"} =>
    run.status = "failed" /\ run.alias = "provider-connect-error"

\* The connections to the provider that are left open after the call, or after
\* create_session has raised, are those whose session.update could not be sent,
\* and the one whose first observations could not be flushed.
LeftOpenOnlyByFailure ==
  (setup.pc = "raised" \/ call.pc \in {"closing", "closed"}) =>
    open = Cardinality({i \in DOMAIN tried : tried[i] = "unconfigured"})
             + (IF "connected" \in Range(faults) THEN 1 ELSE 0)

\* Whatever the collector's flushes, their failures and the cancellation do, its
\* points are stored in the order of the events unless a delivery has failed; a
\* failed delivery stores at most one event again; and the run lacks at most the
\* last one collected unless a delivery failed.
RtcpPointsArrive ==
  LET events == EventsIn(run.stored)
      failures == Cardinality({i \in DOMAIN faults : faults[i] = "rtcp"})
  IN  /\ \A i, j \in events :
           i < j => run.stored[i].ts < run.stored[j].ts \/ failures > 0
      /\ Cardinality(EventTimes(run.stored))
           >= Cardinality(events) - failures
      /\ failures = 0 => Cardinality(events) >= collector.collected - 1

\* No point of the collector is lost while the run lives: it is pending, in the
\* thread, or stored.
RtcpPointsAreKept ==
  Cardinality(EventTimes(rtcp.pending) \cup EventTimes(rtcp.thread)
                \cup EventTimes(run.stored)) = collector.collected

\* The live view shows the collector as failed only if it has ended by an
\* AmiError, also when a retried flush stores older metrics behind newer ones;
\* and once the metric of the failure is delivered it shows it.
CollectorStatusIsTrue ==
  /\ RtpCollectorStatus = "failed" =>
       collector.pc \in {"reporting", "ended", "cancelled"}
  /\ RtpCollectorStatus = "collecting" => collector.collected > 0
  /\ collector.pc = "ended" /\ rtcp.pending = <<>> => RtpCollectorStatus = "failed"

\* create_session and connect_with_retry: the attempts, what is stored of them, how
\* the run ends when there is no connection, and which connections stay open.
ConnectionInv ==
  /\ SetupTypeOK
  /\ RetriesAreBounded
  /\ ConnectionStatusIsTrue
  /\ ExhaustedFailsRun
  /\ LeftOpenOnlyByFailure

\* collect_call_rtcp and its cancellation: the points it observes, and what the
\* live view says of it.
CollectorInv ==
  /\ RtcpPointsArrive
  /\ RtcpPointsAreKept
  /\ CollectorStatusIsTrue

=============================================================================
