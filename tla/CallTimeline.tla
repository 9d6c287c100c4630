---------------------------- MODULE CallTimeline ----------------------------
(***************************************************************************)
(* What the run's timeline says of a conversation: the answers of the      *)
(* provider, the bursts of assistant playback, the waits and gaps between  *)
(* them, digital silence in the pipeline, barge-ins, and the incidents     *)
(* that rest on them.                                                      *)
(*                                                                         *)
(* The actions are observations as they are stored: by a call that goes    *)
(* on, some of them after later ones because they were flushed late.  The  *)
(* timeline is a function of what is stored, in any state of the run; its  *)
(* loops are translated, and the properties compare them with definitions  *)
(* that have no loops.  Times are in units of 100 ms.                      *)
(***************************************************************************)
EXTENDS Integers, Sequences, FiniteSets, FiniteSetsExt, SequencesExt

CONSTANTS
  Kinds,          \* the kinds of observations of an instance
  Stages,         \* the pipeline, as a sequence of stages
  Durations,      \* the durations of a stage's audio chunks
  MinSilence,     \* STAGE_SILENCE_MIN_WINDOW_MS
  MaxSilenceGap,  \* STAGE_SILENCE_MAX_OBSERVATION_GAP_MS
  MinDeadAir,     \* ASSISTANT_OUTPUT_DEAD_AIR_MIN_OVERLAP_MS
  MinUnderrun,    \* ASSISTANT_PLAYBACK_UNDERRUN_MIN_GAP_MS
  MaxNow, MaxObservations, MaxBursts   \* bounds

ASSUME CallTimelineAssumption ==
  /\ {MinSilence, MaxSilenceGap, MinDeadAir, MinUnderrun, MaxNow, MaxObservations,
      MaxBursts} \subseteq Nat
  /\ MinDeadAir > 0 /\ MinUnderrun > 0
  /\ Stages \in Seq(STRING) /\ Len(Stages) > 0 /\ Durations \subseteq Nat

VARIABLES
  now,
  ended,    \* the time the run ended, or None
  metrics,  \* the run's metrics without a stage
  events,   \* the run's timeline events
  chunks    \* the quality metrics of stage audio

vars == <<now, ended, metrics, events, chunks>>

None == -1

Observations == Len(metrics) + Len(events) + Len(chunks)

-----------------------------------------------------------------------------
(* The call, and the run it is stored in. *)

Open == ended = None /\ Observations < MaxObservations

\* Most is stored as it happens; a flush that was retried stores it later.
StoredAt == {now} \cup (IF "late" \in Kinds THEN {now - 1} \cap Nat ELSE {})

Tick ==
  /\ ended = None /\ now < MaxNow /\ now' = now + 1
  /\ UNCHANGED <<ended, metrics, events, chunks>>

EndRun ==
  /\ ended = None /\ ended' = now
  /\ UNCHANGED <<now, metrics, events, chunks>>

ObserveMetric(name) ==
  /\ Open
  /\ \E at \in StoredAt : metrics' = Append(metrics, [name |-> name, at |-> at])
  /\ UNCHANGED <<now, ended, events, chunks>>

ResponseStarted == "response" \in Kinds /\ ObserveMetric("provider_response_started")
ResponseDone == "response" \in Kinds /\ ObserveMetric("provider_response_done")
BargeInCounted == "counter" \in Kinds /\ ObserveMetric("barge_in_events")

Event(name, alias, at, reason) ==
  [name |-> name, alias |-> alias, at |-> at, reason |-> reason]

Named(name) == {i \in DOMAIN events : events[i].name = name}
Bursts == Cardinality(Named("assistant_playback_started"))

\* The bridge plays one burst at a time, in order.
PlaybackStarted ==
  /\ "playback" \in Kinds /\ Open /\ Bursts < MaxBursts
  /\ Bursts = Cardinality(Named("assistant_playback_stopped"))
  /\ \A i \in Named("assistant_playback_stopped") : events[i].at <= now
  /\ events' = Append(events, Event("assistant_playback_started", Bursts, now, "none"))
  /\ UNCHANGED <<now, ended, metrics, chunks>>

PlaybackStopped ==
  /\ "playback" \in Kinds /\ Open
  /\ Bursts > Cardinality(Named("assistant_playback_stopped"))
  /\ \E reason \in {"media_gap", "barge_in"} :
       events' = Append(events,
                        Event("assistant_playback_stopped", Bursts - 1, now, reason))
  /\ UNCHANGED <<now, ended, metrics, chunks>>

BargeInNames ==
  {"provider_input_speech_started", "provider_output_audio_chunk_received",
   "playback_queue_cleared", "barge_in_completed"}

\* The evidence of a barge-in is reported once it is over, with the times it has.
BargeInEvent ==
  /\ "bargein" \in Kinds /\ Open
  /\ \E name \in BargeInNames \cup {"provider_input_speech_stopped"}, at \in StoredAt :
       events' = Append(events, Event(name, MaxBursts, at, "none"))
  /\ UNCHANGED <<now, ended, metrics, chunks>>

StageAudio ==
  /\ "audio" \in Kinds /\ Open
  /\ \E stage \in ToSet(Stages), duration \in Durations, silent \in BOOLEAN,
        at \in StoredAt :
       chunks' = Append(chunks, [stage |-> stage, duration |-> duration,
                                 silent |-> silent, at |-> at])
  /\ UNCHANGED <<now, ended, metrics, events>>

Init == now = 0 /\ ended = None /\ metrics = <<>> /\ events = <<>> /\ chunks = <<>>

Next ==
  \/ Tick \/ EndRun \/ ResponseStarted \/ ResponseDone \/ BargeInCounted
  \/ PlaybackStarted \/ PlaybackStopped \/ BargeInEvent \/ StageAudio

Spec == Init /\ [][Next]_vars

-----------------------------------------------------------------------------
(* Answers and activities *)

\* The audio of a stage is recorded; the recording is as long as its chunks.
RecordingDuration(stage) ==
  MapThenSumSet(LAMBDA i : chunks[i].duration,
                {i \in DOMAIN chunks : chunks[i].stage = stage})

RunTimelineDuration ==
  Max({RecordingDuration(stage) : stage \in ToSet(Stages)}
        \cup {IF ended = None THEN 0 ELSE ended})

\* Some of the indices of a sequence of observations, by time.
Ordered(obs, some) ==
  SortSeq(SelectSeq([i \in DOMAIN obs |-> i], LAMBDA i : i \in some),
          LAMBDA i, j : \/ obs[i].at < obs[j].at
                        \/ obs[i].at = obs[j].at /\ i < j)

Lifecycle ==
  Ordered(metrics, {i \in DOMAIN metrics :
    metrics[i].name \in {"provider_response_started", "provider_response_done"}})

Response(start, done, end) ==
  [start |-> metrics[start].at, end |-> end, from |-> start, done |-> done]

\* Faulty variant: an answer that another one follows is still being given.
NothingSuperseded(acc, i) == acc

\* A start while an answer is active ends that answer, without its completion.
Superseded(acc, i) ==
  IF acc.active = None THEN acc
  ELSE [acc EXCEPT !.responses = Append(@, Response(acc.active, None, metrics[i].at))]

ProviderResponses ==
  LET Step(acc, i) ==
        IF metrics[i].name = "provider_response_started"
          THEN [Superseded(acc, i) EXCEPT !.active = i]
        ELSE IF acc.active = None THEN acc
        ELSE [responses |-> Append(acc.responses, Response(acc.active, i, metrics[i].at)),
              active |-> None]
      last == FoldLeft(Step, [responses |-> <<>>, active |-> None], Lifecycle)
  IN  IF last.active = None THEN last.responses
      ELSE Append(last.responses,
                  Response(last.active, None,
                           Max({metrics[last.active].at, RunTimelineDuration})))

\* _correlated_activity_evidence: the first start of an alias, and the first stop
\* that is not before it.
Activity(alias, startName, stopName) ==
  LET OfAlias(name) == {i \in Named(name) : events[i].alias = alias}
      start == Ordered(events, OfAlias(startName))[1]
      stops == Ordered(events, {i \in OfAlias(stopName) :
                                  events[i].at >= events[start].at})
      stop == IF stops = <<>> THEN None ELSE stops[1]
  IN  [alias |-> alias, from |-> start, to |-> stop, start |-> events[start].at,
       end |-> IF stop = None THEN Max({events[start].at, RunTimelineDuration})
               ELSE events[stop].at]

Activities(startName, stopName) ==
  LET aliases == {events[i].alias : i \in Named(startName)}
      found == {Activity(alias, startName, stopName) : alias \in aliases}
  IN  SetToSortSeq(found, LAMBDA a, b : \/ a.start < b.start
                                        \/ a.start = b.start /\ a.alias < b.alias)

CallerSpeech ==
  Activities("provider_input_speech_started", "provider_input_speech_stopped")

AssistantPlayback == Activities("assistant_playback_started", "assistant_playback_stopped")

\* Faulty variant: a burst may be waited for by two answers.
ClaimableAgain(playback, claimed, from, to) ==
  playback.start >= from /\ playback.start <= to

\* Faulty variant: a burst that begins with the answer is an earlier one's.
ClaimableLater(playback, claimed, from, to) ==
  playback.alias \notin claimed /\ playback.start > from /\ playback.start <= to

Claimable(playback, claimed, from, to) ==
  playback.alias \notin claimed /\ playback.start >= from /\ playback.start <= to

\* Faulty variant: the end that was found, before the start or not.
WaitEndAsFound(start, end) == end

WaitEnd(start, end) == Max({start, end})

\* The time up to which playback is the kth answer's.
AssociationEnd(responses, k) ==
  IF k < Len(responses) THEN responses[k + 1].start ELSE RunTimelineDuration

StartWait(response, playback, claimed, limit) ==
  LET first == SelectInSeq(playback, LAMBDA p :
                 Claimable(p, claimed, response.start, limit))
  IN  [response |-> response, start |-> response.start,
       playback |-> IF first = 0 THEN None ELSE playback[first].alias,
       end |-> WaitEnd(response.start,
                       IF first = 0 THEN Min({response.end, limit})
                       ELSE playback[first].start)]

\* _assistant_output_start_wait_evidence: each answer in turn takes the first
\* burst that nobody has taken and that starts before the next answer does.
WaitsFor(responses, playback) ==
  FoldLeft(LAMBDA waits, k :
             Append(waits, StartWait(responses[k], playback,
                                     {waits[w].playback : w \in DOMAIN waits},
                                     AssociationEnd(responses, k))),
           <<>>, [k \in DOMAIN responses |-> k])

StartWaits == WaitsFor(ProviderResponses, AssistantPlayback)

\* Faulty variant: bursts that are apart are separated by a gap.
PausesAreGaps(previous, next) == next.start > previous.end

\* Neighbouring bursts, the first of which ended for want of audio.
SeparatedByGap(previous, next) ==
  /\ previous.to # None /\ events[previous.to].reason = "media_gap"
  /\ next.start > previous.end

PlaybackGaps ==
  LET playback == AssistantPlayback
  IN  {[previous |-> playback[k], next |-> playback[k + 1],
        start |-> playback[k].end, end |-> playback[k + 1].start] :
         k \in {j \in 1 .. Len(playback) - 1 :
                  SeparatedByGap(playback[j], playback[j + 1])}}

Overlap(intervals) ==
  [start |-> Max({v.start : v \in intervals}), end |-> Min({v.end : v \in intervals})]

\* Faulty variant: the threshold itself is too short.
StrictlyLonger(overlap, length) == overlap.end - overlap.start > length

LongerThan(overlap, length) == overlap.end - overlap.start >= length

PlaybackUnderruns ==
  {[gap |-> pair[1], response |-> pair[2], over |-> Overlap({pair[1], pair[2]})] :
     pair \in {p \in PlaybackGaps \X ToSet(ProviderResponses) :
                 LongerThan(Overlap({p[1], p[2]}), MinUnderrun)}}

-----------------------------------------------------------------------------
(* Digital silence *)

\* _stage_quality_bundles: one bundle per time; chunks of one time overwrite each
\* other.
Bundles(stage) ==
  LET ofStage == {i \in DOMAIN chunks : chunks[i].stage = stage}
  IN  Ordered(chunks, {i \in ofStage :
                         \A j \in ofStage : chunks[j].at = chunks[i].at => j <= i})

Near(i, j) ==
  chunks[j].at - chunks[i].at <= Max({MaxSilenceGap, 2 * chunks[i].duration})

Total(members) == FoldLeft(LAMBDA sum, i : sum + chunks[i].duration, 0, members)

IsSilent(i) == chunks[i].silent /\ chunks[i].duration > 0

\* A window that is long enough is kept, and the next one is begun.
FinishWindow(stage, acc) ==
  [windows |->
     IF acc.current # <<>> /\ Total(acc.current) >= MinSilence
       THEN Append(acc.windows,
              [stage |-> stage, index |-> Len(acc.windows), members |-> acc.current,
               start |-> chunks[acc.current[1]].at,
               end |-> chunks[acc.current[1]].at + Total(acc.current)])
       ELSE acc.windows,
   current |-> <<>>]

\* Faulty variant: the time since the last chunk does not matter.
JoinAnySilence(stage, acc, i) ==
  IF IsSilent(i) THEN [acc EXCEPT !.current = Append(@, i)] ELSE FinishWindow(stage, acc)

JoinSilence(stage, acc, i) ==
  IF ~IsSilent(i) THEN FinishWindow(stage, acc)
  ELSE LET joined == IF acc.current # <<>> /\ ~Near(Last(acc.current), i)
                       THEN FinishWindow(stage, acc) ELSE acc
       IN  [joined EXCEPT !.current = Append(@, i)]

SilenceWindows(stage) ==
  FinishWindow(stage,
    FoldLeft(LAMBDA acc, i : JoinSilence(stage, acc, i),
             [windows |-> <<>>, current |-> <<>>], Bundles(stage))).windows

FinalStage == Last(Stages)

\* Faulty variant: an answer is enough where bursts have been observed.
AnyPlayback(playback) == {None}

\* The bursts a dead air may lie in; a run without any has none to ask for.
PlaybackContexts(playback) ==
  IF playback = <<>> THEN {None} ELSE DOMAIN playback

DeadAir ==
  LET playback == AssistantPlayback
      Over(silence, response, k) ==
        Overlap({silence, response} \cup (IF k = None THEN {} ELSE {playback[k]}))
      found == {t \in ToSet(SilenceWindows(FinalStage)) \X ToSet(ProviderResponses)
                        \X PlaybackContexts(playback) :
                  LongerThan(Over(t[1], t[2], t[3]), MinDeadAir)}
  IN  {[silence |-> t[1], response |-> t[2],
        playback |-> IF t[3] = None THEN {} ELSE {playback[t[3]]},
        over |-> Over(t[1], t[2], t[3])] : t \in found}

-----------------------------------------------------------------------------
(* Barge-ins *)

BargeIns == {events[i].alias : i \in UNION {Named(name) : name \in BargeInNames}}

BargeInEvents(alias) ==
  Ordered(events, {i \in DOMAIN events :
                     events[i].name \in BargeInNames /\ events[i].alias = alias})

Completions(group) ==
  {n \in DOMAIN group : events[group[n]].name = "barge_in_completed"}

\* Faulty variant: the first completion ends it.
FirstCompletion(group) ==
  IF Completions(group) = {} THEN 0 ELSE Min(Completions(group))

\* The place of the last completion in the group, or 0.
Completion(group) == Max({0} \cup Completions(group))

CompletedBargeIns == {alias \in BargeIns : Completion(BargeInEvents(alias)) # 0}

\* From the first evidence to the completion.
BargeInInterval(alias) ==
  LET group == BargeInEvents(alias)
      start == Min({events[i].at : i \in ToSet(group)})
  IN  [start |-> start, end |-> Max({start, events[group[Completion(group)]].at})]

BargeInIncidents ==
  {[id |-> <<"barge-in", alias>>,
    start |-> BargeInInterval(alias).start, end |-> BargeInInterval(alias).end,
    refs |-> {<<"event", i>> : i \in ToSet(BargeInEvents(alias))}] :
     alias \in CompletedBargeIns}

-----------------------------------------------------------------------------
(* The timeline: its events, its intervals and its incidents *)

ResponseIndex(response) ==
  Cardinality({r \in ToSet(ProviderResponses) : r.from < response.from})

ResponseRefs(response) ==
  {<<"response", response.from, "start">>}
    \cup (IF response.done = None THEN {} ELSE {<<"response", response.from, "done">>})

\* Faulty variant: a burst that has not stopped has a stop to refer to.
ActivityRefsWithStop(activity) ==
  {<<"event", i>> : i \in {activity.from, activity.to}}

ActivityRefs(activity) ==
  {<<"event", i>> : i \in {activity.from, activity.to} \ {None}}

\* The metrics that a response is made of are shown as its start and its end.
UsedMetrics ==
  UNION {{r.from, r.done} : r \in ToSet(ProviderResponses)}

\* Faulty variant: the metrics of the providers' answers are not shown again.
NoLifecycleMetrics ==
  {i \in DOMAIN metrics : metrics[i].name \notin {"provider_response_started",
                                                 "provider_response_done"}}

MetricEvents ==
  {i \in DOMAIN metrics : /\ i \notin UsedMetrics
                          /\ \A j \in DOMAIN events : events[j].name # metrics[i].name
                          /\ ~(events # <<>> /\ metrics[i].name = "barge_in_events")}

SilenceStarts(stage) == {<<"silence", stage, w.index>> : w \in ToSet(SilenceWindows(stage))}

TypedEvents ==
  {<<"event", i>> : i \in DOMAIN events}
    \cup {<<"metric", i>> : i \in MetricEvents}
    \cup UNION {ResponseRefs(r) : r \in ToSet(ProviderResponses)}
    \cup UNION {SilenceStarts(stage) : stage \in ToSet(Stages)}

DeadAirIncidents ==
  {[id |-> <<"assistant-output-dead-air", d.silence.stage, d.silence.index,
             ResponseIndex(d.response)>>,
    start |-> d.over.start, end |-> d.over.end,
    refs |-> {<<"silence", d.silence.stage, d.silence.index>>}
               \cup ResponseRefs(d.response)
               \cup UNION {ActivityRefs(p) : p \in d.playback}] : d \in DeadAir}

UnderrunIncidents ==
  {[id |-> <<"assistant-playback-underrun", u.gap.previous.alias,
             ResponseIndex(u.response)>>,
    start |-> u.over.start, end |-> u.over.end,
    refs |-> ResponseRefs(u.response)
               \cup {<<"event", i>> : i \in {u.gap.previous.to, u.gap.next.from}}] :
     u \in PlaybackUnderruns}

Incidents == DeadAirIncidents \cup UnderrunIncidents \cup BargeInIncidents

TypedIntervals ==
  {[start |-> v.start, end |-> v.end] :
     v \in ToSet(ProviderResponses) \cup ToSet(CallerSpeech) \cup ToSet(AssistantPlayback)
             \cup ToSet(StartWaits) \cup PlaybackGaps
             \cup {BargeInInterval(alias) : alias \in CompletedBargeIns}
             \cup UNION {ToSet(SilenceWindows(stage)) : stage \in ToSet(Stages)}}

-----------------------------------------------------------------------------
(* Properties *)

\* The stored run keeps its type, and the intervals and incidents of its timeline
\* lie in the run: none starts before the run or ends before it starts.
CallTimelineTypeOK ==
  /\ now \in 0 .. MaxNow /\ ended \in {None} \cup 0 .. MaxNow
  /\ \A i \in DOMAIN events : events[i].at \in 0 .. now
  /\ \A v \in TypedIntervals \cup Incidents : 0 <= v.start /\ v.start <= v.end

\* The lifecycle metric that comes next in time.
NextLifecycle(i) ==
  {j \in ToSet(Lifecycle) :
     /\ metrics[i].at < metrics[j].at \/ (metrics[i].at = metrics[j].at /\ i < j)
     /\ \A k \in ToSet(Lifecycle) :
          \/ metrics[k].at < metrics[i].at \/ (metrics[k].at = metrics[i].at /\ k <= i)
          \/ metrics[j].at < metrics[k].at \/ (metrics[j].at = metrics[k].at /\ j <= k)}

\* _provider_response_evidence: the answers are the started metrics, each until
\* the next metric of the lifecycle or else to the end of the run, and complete
\* if that is a completion.  So two answers never overlap.
ResponsesAreTheTurns ==
  ToSet(ProviderResponses) =
    {[from |-> i, start |-> metrics[i].at,
      end |-> IF NextLifecycle(i) = {} THEN Max({metrics[i].at, RunTimelineDuration})
              ELSE Max({metrics[j].at : j \in NextLifecycle(i)}),
      done |-> IF \E j \in NextLifecycle(i) : metrics[j].name = "provider_response_done"
                 THEN CHOOSE j \in NextLifecycle(i) : TRUE ELSE None] :
       i \in {k \in DOMAIN metrics : metrics[k].name = "provider_response_started"}}

\* _typed_timeline_events: every lifecycle metric is on the timeline, a completion
\* that no start precedes too.
LifecycleIsShown ==
  LET shown == TypedEvents
  IN  \A i \in ToSet(Lifecycle) :
        {<<"metric", i>>, <<"response", i, "start">>} \cap shown # {}
          \/ \E r \in ToSet(ProviderResponses) :
               r.done = i /\ <<"response", r.from, "done">> \in shown

EndAtFirstFrame(waits, bursts) ==
  LET found == {k \in DOMAIN waits : waits[k].playback # None}
      TakenBefore(k, p) == \E l \in 1 .. k - 1 : waits[l].playback = p.alias
      Until(k) == IF k < Len(waits) THEN waits[k + 1].start
                  ELSE IF ended # None THEN ended ELSE waits[k].start - 1
  IN  /\ \A k \in found :
           /\ \A l \in found : k < l => /\ waits[k].playback # waits[l].playback
                                        /\ waits[k].end <= waits[l].end
           /\ \A p \in ToSet(bursts) :
                (waits[k].start <= p.start /\ p.start < waits[k].end)
                  => TakenBefore(k, p)
      /\ \A k \in DOMAIN waits \ found : \A p \in ToSet(bursts) :
           (waits[k].start <= p.start /\ p.start <= Until(k)) => TakenBefore(k, p)

\* _assistant_output_start_wait_evidence: no burst is waited for twice, answers
\* and the bursts they waited for are in the same order, a wait ends at the first
\* burst after its start that no earlier answer has waited for, and an answer that
\* found none had none until the next answer or the end of the run.  Of the last
\* answer of a run that is open it says nothing if that found no burst: its
\* association ends at a duration which is not known yet.
WaitsEndAtFirstFrame == EndAtFirstFrame(StartWaits, AssistantPlayback)

\* The instants at which an interval is under way.
Covering(v) == {t \in 0 .. 2 * MaxNow : v.start <= t /\ t < v.end}
CoveringAny(S) == UNION {Covering(v) : v \in S}

\* _assistant_playback_underrun_evidence: an underrun is reported exactly when,
\* in one answer and between two neighbouring bursts the first of which ran out
\* of audio, nothing was played for the threshold.
UnderrunsAreUnplayed ==
  LET playback == AssistantPlayback
      underruns == PlaybackUnderruns
  IN  /\ \A u \in underruns :
           /\ Covering(u.over) \cap CoveringAny(ToSet(playback)) = {}
           /\ Covering(u.over) \subseteq Covering(u.response)
      /\ \A k \in 1 .. Len(playback) - 1 : \A r \in ToSet(ProviderResponses) :
           LET silent == {t \in Covering(r) : /\ playback[k].end <= t
                                              /\ t < playback[k + 1].start}
           IN  (\E u \in underruns : u.gap.previous = playback[k] /\ u.response = r)
                 <=> /\ playback[k].to # None
                     /\ events[playback[k].to].reason = "media_gap"
                     /\ Cardinality(silent) >= MinUnderrun

\* The ways to cut a stage's bundles into a silence: silent bundles without one
\* that is not, or a pause, between them, and none that could be added.
SilentRuns(stage) ==
  LET b == Bundles(stage)
      Joined(k) == IsSilent(b[k]) /\ IsSilent(b[k + 1]) /\ Near(b[k], b[k + 1])
  IN  {SubSeq(b, r[1], r[2]) :
         r \in {p \in (DOMAIN b) \X (DOMAIN b) :
                  /\ p[1] <= p[2] /\ \A k \in p[1] .. p[2] : IsSilent(b[k])
                  /\ \A k \in p[1] .. p[2] - 1 : Joined(k)
                  /\ p[1] > 1 => ~Joined(p[1] - 1)
                  /\ p[2] < Len(b) => ~Joined(p[2])}}

\* _stage_silence_windows: the windows of a stage are its silences that are long
\* enough, numbered in the order of their start.
WindowsAreSilences ==
  \A stage \in ToSet(Stages) :
    LET windows == SilenceWindows(stage)
    IN  /\ {w.members : w \in ToSet(windows)}
             = {r \in SilentRuns(stage) : Total(r) >= MinSilence}
        /\ \A k \in 1 .. Len(windows) - 1 : windows[k].start < windows[k + 1].start
        /\ \A w \in ToSet(windows) : \A i \in ToSet(w.members) :
             ~\E j \in DOMAIN chunks : /\ chunks[j].stage = stage /\ ~chunks[j].silent
                                       /\ w.start < chunks[j].at /\ chunks[j].at < chunks[i].at
                                       /\ j \in ToSet(Bundles(stage))

\* _assistant_output_dead_air_evidence: where bursts have been observed, a dead air
\* is silence of the last stage for the threshold while an answer was given and a
\* burst was played, and every such silence is one; a wait for the first frame is
\* none.
DeadAirIsPlayedSilence ==
  LET bursts == ToSet(AssistantPlayback)
      played == IF bursts = {} THEN {0 .. 2 * MaxNow} ELSE {Covering(p) : p \in bursts}
      silences == {Covering(s) : s \in ToSet(SilenceWindows(FinalStage))}
      answers == {Covering(r) : r \in ToSet(ProviderResponses)}
  IN  {Covering(d.over) : d \in DeadAir} =
        {T \in {t[1] \cap t[2] \cap t[3] : t \in silences \X answers \X played} :
           Cardinality(T) >= MinDeadAir}

\* _typed_timeline_incidents: what an incident refers to is on the same timeline.
CallEvidenceResolves ==
  LET shown == TypedEvents
  IN  \A inc \in Incidents : inc.refs \subseteq shown

\* _correlated_barge_in_events: a barge-in that was completed is one incident, which
\* holds everything that is stored of it.
BargeInIsOneIncident ==
  \A i \in Named("barge_in_completed") :
    \E inc \in BargeInIncidents :
      /\ {j \in BargeInIncidents : j.id = inc.id} = {inc}
      /\ inc.id = <<"barge-in", events[i].alias>>
      /\ inc.start <= events[i].at /\ events[i].at <= inc.end
      /\ \A j \in DOMAIN events :
           (events[j].name \in BargeInNames /\ events[j].alias = events[i].alias)
             => <<"event", j>> \in inc.refs

\* The turns of the conversation on the timeline: answers, the waits for them and
\* the gaps in them are those of the stored observations, except that nothing is said
\* of a burst that the last answer of an open run has missed.
TurnsAreTrue ==
  /\ CallTimelineTypeOK
  /\ ResponsesAreTheTurns
  /\ LifecycleIsShown
  /\ WaitsEndAtFirstFrame
  /\ UnderrunsAreUnplayed

\* Silence on the timeline: the windows of each stage, and the dead air in which
\* silence was played as an answer.
SilenceIsTrue == WindowsAreSilences /\ DeadAirIsPlayedSilence

\* The incidents of a conversation: a barge-in is one, and none refers to what is
\* not on its timeline.
IncidentsAreWhole == BargeInIsOneIncident /\ CallEvidenceResolves

=============================================================================
