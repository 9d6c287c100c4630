--------------------------- MODULE StageTimeline ---------------------------
(***************************************************************************)
(* The stages of a run's media pipeline: what is observed of each, how the *)
(* recordings are verified when the run completes, and the events,         *)
(* intervals, artifacts and incidents that the timeline derives of both.   *)
(*                                                                         *)
(* Any stage may be observed, recorded, both or neither: an application    *)
(* reports the boundaries it has.  Verification compares a recording with  *)
(* that of the last stage before it that has one; the timeline looks at    *)
(* the stage before it in the pipeline.  Levels are in dB, so that the     *)
(* change of level between two recordings is their difference.             *)
(***************************************************************************)
EXTENDS Integers, Sequences, FiniteSets, FiniteSetsExt, SequencesExt

CONSTANTS
  Nothing,
  Pipeline,    \* the stages: [stage, invariants, lossy]
  Deltas, FullScale, Times,  \* what may be measured of a chunk, and when
  RecordingDurations, Levels,  \* of a recording; Nothing: silent, or not PCM16
  DurationTolerance,  \* in percent of the input's duration
  LevelTolerance,     \* DEFAULT_LEVEL_TOLERANCE_DB
  LevelThreshold,     \* STAGE_LEVEL_EVENT_THRESHOLD_DB
  NearbyWindow,       \* PCM_DISCONTINUITY_CORRELATION_WINDOW_MS
  StageKinds,              \* of "chunk", "recording", "cadence", "click", "failure"
  MaxStageObservations     \* bound

StageOf(k) == Pipeline[k].stage
StageNames == {StageOf(k) : k \in DOMAIN Pipeline}

(* Metrics and recordings are kept under the stage's name, so that two stages
   of one name could not be told apart. *)
ASSUME StageAssumption ==
  /\ \A j, k \in DOMAIN Pipeline : StageOf(j) = StageOf(k) => j = k
  /\ {DurationTolerance, LevelTolerance, LevelThreshold, NearbyWindow,
      MaxStageObservations} \subseteq Nat
  /\ RecordingDurations \subseteq Nat /\ FullScale \subseteq Nat

VARIABLES
  status,
  stage_metrics,  \* of chunks: [stage, ts, delta, full], as they are stored
  cadence,        \* the frames a checked stage reports: steady, unsteady, Nothing
  recordings,     \* [stage, duration, level], one of a stage
  stage_events,   \* stored timeline events: [name, stage, ts]
  verifications,  \* [stage, invariant, passed, input, output]
  unread          \* history: the stages whose recording could not be read

stageVars == <<status, stage_metrics, cadence, recordings, stage_events,
               verifications, unread>>

StageInit ==
  /\ status = "running"
  /\ stage_metrics = <<>> /\ recordings = <<>> /\ stage_events = <<>>
  /\ verifications = <<>> /\ unread = {}
  /\ cadence = [s \in StageNames |-> Nothing]

-----------------------------------------------------------------------------
(* Observations of a running run. *)

Accepting ==
  /\ status = "running"
  /\ Len(stage_metrics) + Len(stage_events) + Len(recordings) < MaxStageObservations

ObserveStageAudio(stage, ts, delta, full) ==
  /\ "chunk" \in StageKinds /\ Accepting
  /\ stage_metrics' = Append(stage_metrics, [stage |-> stage, ts |-> ts,
                                             delta |-> delta, full |-> full])
  /\ UNCHANGED <<status, cadence, recordings, stage_events, verifications, unread>>

(* The recording of a stage is written anew with every chunk. *)
WriteObservedAudio(stage, duration, level) ==
  LET recording == [stage |-> stage, duration |-> duration, level |-> level]
      existing == {n \in DOMAIN recordings : recordings[n].stage = stage}
  IN  /\ "recording" \in StageKinds /\ Accepting
      /\ recordings' = IF existing = {} THEN Append(recordings, recording)
                       ELSE [n \in DOMAIN recordings |->
                               IF n \in existing THEN recording
                               ELSE recordings[n]]
      /\ UNCHANGED <<status, stage_metrics, cadence, stage_events, verifications,
                     unread>>

ObserveCadence(stage, steady) ==
  /\ "cadence" \in StageKinds /\ status = "running"
  /\ \E k \in DOMAIN Pipeline : StageOf(k) = stage
                               /\ "isochronous" \in Pipeline[k].invariants
  /\ cadence' = [cadence EXCEPT ![stage] = steady]
  /\ UNCHANGED <<status, stage_metrics, recordings, stage_events, verifications,
                 unread>>

ClickName == "stage.pcm_discontinuity_detected"
ControlNames ==
  {"playback_queue_cleared", "barge_in_completed",
   "provider_interrupt_requested", "provider_interrupted"}

ObserveEvent(name, stage, ts) ==
  /\ "click" \in StageKinds /\ Accepting
  /\ stage_events' = Append(stage_events,
                            [name |-> name, stage |-> stage, ts |-> ts])
  /\ UNCHANGED <<status, stage_metrics, cadence, recordings, verifications, unread>>

-----------------------------------------------------------------------------
(* verify_recordings. *)

RecordingOf(stage) ==
  LET found == SelectSeq(recordings, LAMBDA r : r.stage = stage)
  IN  IF found = <<>> THEN Nothing ELSE Last(found)

Result(stage, invariant, passed, input, output) ==
  [stage |-> stage, invariant |-> invariant, passed |-> passed,
   input |-> input, output |-> output]

(* A result, or none if the frames or their interval are not known. *)
VerifyIsochronous(stage) ==
  IF cadence[stage] = Nothing THEN <<>>
  ELSE <<Result(stage, "isochronous", cadence[stage] = "steady", Nothing, Nothing)>>

VerifyDuration(previous, current) ==
  IF previous.duration = 0 \/ current.duration = 0 THEN <<>>
  ELSE <<Result(current.stage, "duration_preserving",
                /\ 100 * current.duration
                     >= (100 - DurationTolerance) * previous.duration
                /\ 100 * current.duration
                     <= (100 + DurationTolerance) * previous.duration,
                previous.duration, current.duration)>>

VerifyLevel(previous, current) ==
  IF previous.level = Nothing \/ current.level = Nothing THEN <<>>
  ELSE <<Result(current.stage, "level_preserving",
                /\ current.level - previous.level <= LevelTolerance
                /\ previous.level - current.level <= LevelTolerance,
                previous.level, current.level)>>

(* A stage that declares bandwidth_limit is not held to its input's level. *)
LossyExpected(stage) ==
  <<Result(stage, "level_preserving", TRUE, Nothing, Nothing)>>

(* A recording whose file is there, is local and is a WAV file. *)
Readable(recording, unreadable) ==
  recording # Nothing /\ recording.stage \notin unreadable

(* The signal invariants of a stage, against the recording before it. *)
VerifySignal(k, previous, current) ==
  LET applies(invariant) == invariant \in Pipeline[k].invariants
  IN  (IF applies("duration_preserving")
         THEN VerifyDuration(previous, current) ELSE <<>>)
      \o (CASE ~applies("level_preserving") -> <<>>
            [] applies("level_preserving") /\ Pipeline[k].lossy ->
                 LossyExpected(current.stage)
            [] OTHER -> VerifyLevel(previous, current))

(* Faulty variant: a stage without a recording ends the chain. *)
NextPreviousOnly(previous, current) == current

NextPrevious(previous, current) == IF current = Nothing THEN previous ELSE current

VerifyStage(acc, k, unreadable) ==
  LET current == RecordingOf(StageOf(k))
      isochronous == IF "isochronous" \in Pipeline[k].invariants
                       THEN VerifyIsochronous(StageOf(k)) ELSE <<>>
      signal == IF /\ Readable(current, unreadable)
                   /\ Readable(acc.previous, unreadable)
                  THEN VerifySignal(k, acc.previous, current) ELSE <<>>
  IN  [results |-> acc.results \o isochronous \o signal,
       previous |-> NextPrevious(acc.previous, current)]

VerifyRecordings(unreadable) ==
  FoldLeft(LAMBDA acc, k : VerifyStage(acc, k, unreadable),
           [results |-> <<>>, previous |-> Nothing],
           [k \in DOMAIN Pipeline |-> k]).results

CompleteRun(unreadable) ==
  /\ status = "running"
  /\ status' = "completed"
  /\ verifications' = VerifyRecordings(unreadable)
  /\ unread' = unreadable
  /\ UNCHANGED <<stage_metrics, cadence, recordings, stage_events>>

FailRun ==
  /\ "failure" \in StageKinds /\ status = "running"
  /\ status' = "failed"
  /\ UNCHANGED <<stage_metrics, cadence, recordings, stage_events, verifications,
                 unread>>

StageNext ==
  \/ \E stage \in StageNames, ts \in Times :
       \/ \E delta \in Deltas, full \in FullScale :
            ObserveStageAudio(stage, ts, delta, full)
       \/ ObserveEvent(ClickName, stage, ts)
  \/ \E stage \in StageNames, duration \in RecordingDurations, level \in Levels :
       WriteObservedAudio(stage, duration, level)
  \/ \E stage \in StageNames, steady \in {"steady", "unsteady"} :
       ObserveCadence(stage, steady)
  \/ \E name \in ControlNames, ts \in Times : ObserveEvent(name, Nothing, ts)
  \/ \E unreadable \in SUBSET {recordings[n].stage : n \in DOMAIN recordings} :
       CompleteRun(unreadable)
  \/ FailRun

StageSpec == StageInit /\ [][StageNext]_stageVars

-----------------------------------------------------------------------------
(* Evidence of the timeline. *)

PreviousStage(stage) ==
  LET k == CHOOSE k \in DOMAIN Pipeline : StageOf(k) = stage
  IN  IF k = 1 THEN Nothing ELSE StageOf(k - 1)

(* Chunks of one time of a stage are one bundle, with the values of the last. *)
StageBundles(stage) ==
  {i \in DOMAIN stage_metrics :
     /\ stage_metrics[i].stage = stage
     /\ \A j \in DOMAIN stage_metrics :
          j > i => <<stage_metrics[j].stage, stage_metrics[j].ts>>
                     # <<stage, stage_metrics[i].ts>>}

(* The bundle of the largest value, the latest of them. *)
Peak(bundles, value) ==
  CHOOSE i \in bundles : \A j \in bundles :
    \/ value[j] < value[i]
    \/ value[j] = value[i] /\ stage_metrics[j].ts <= stage_metrics[i].ts

AbsDelta(i) == IF stage_metrics[i].delta < 0 THEN -stage_metrics[i].delta
               ELSE stage_metrics[i].delta
Full(i) == stage_metrics[i].full
AbsDeltas == [i \in DOMAIN stage_metrics |-> AbsDelta(i)]
FullScales == [i \in DOMAIN stage_metrics |-> Full(i)]

SignalEvidence ==
  {[stage |-> s, peak |-> Peak(StageBundles(s), AbsDeltas)] :
     s \in {x \in StageNames :
              \E i \in StageBundles(x) : AbsDelta(i) >= LevelThreshold}}

(* Full-scale samples were observed at the kth stage. *)
Clips(k) == \E i \in StageBundles(StageOf(k)) : Full(i) > 0

(* Faulty variant: a stage that clips less than the one before is its source. *)
FirstClipsByPeak(k) ==
  /\ Clips(k)
  /\ k = 1 \/ \A i \in StageBundles(StageOf(k - 1)) :
                \A j \in StageBundles(StageOf(k)) : Full(i) # Full(j)

FirstClips(k) == Clips(k) /\ (k = 1 \/ ~Clips(k - 1))

FullScaleEvidence ==
  {[stage |-> StageOf(k), peak |-> Peak(StageBundles(StageOf(k)), FullScales)] :
     k \in {x \in DOMAIN Pipeline : FirstClips(x)}}

(* The checks that found less media time after a stage than before it. *)
Contractions ==
  {n \in DOMAIN verifications :
     LET v == verifications[n]
     IN  ~v.passed /\ v.invariant = "duration_preserving" /\ v.input > v.output}

-----------------------------------------------------------------------------
(* The timeline. *)

StoredEvents == {[id |-> <<"event", i>>, t |-> stage_events[i].ts] :
                   i \in DOMAIN stage_events}
LevelEvents ==
  {[id |-> <<"stage-signal", e.stage>>, t |-> stage_metrics[e.peak].ts] :
     e \in SignalEvidence}
FullScaleEvents ==
  {[id |-> <<"stage-full-scale", e.stage>>, t |-> stage_metrics[e.peak].ts] :
     e \in FullScaleEvidence}
ContractionEvents ==
  {[id |-> <<"duration-contraction", n>>, t |-> verifications[n].output] :
     n \in Contractions}
FailureEvents ==
  IF status = "failed" THEN {[id |-> <<"run:failure">>, t |-> Nothing]} ELSE {}

StageEvents == StoredEvents \union LevelEvents \union FullScaleEvents
                 \union ContractionEvents \union FailureEvents

MissingIntervals ==
  {[id |-> <<"media-time-missing", n>>, stage |-> verifications[n].stage,
    start |-> verifications[n].output, end |-> verifications[n].input] :
     n \in Contractions}

Artifacts == {<<"recording", n>> : n \in DOMAIN recordings}

ArtifactOf(stage) ==
  {<<"recording", n>> : n \in {m \in DOMAIN recordings :
                                 recordings[m].stage = stage}}

(* Control events near a click, before or after it. *)
Nearby(i) ==
  {j \in DOMAIN stage_events : /\ stage_events[j].name \in ControlNames
                         /\ stage_events[j].ts - stage_events[i].ts <= NearbyWindow
                         /\ stage_events[i].ts - stage_events[j].ts <= NearbyWindow}

ClickIncidents ==
  {[id |-> <<"pcm-discontinuity", i>>, rule |-> "click",
    stage |-> stage_events[i].stage,
    start |-> stage_events[i].ts, end |-> stage_events[i].ts,
    refs |-> ArtifactOf(stage_events[i].stage)
               \union {<<"event", j>> : j \in Nearby(i) \union {i}}] :
     i \in {x \in DOMAIN stage_events : stage_events[x].name = ClickName}}

(* Faulty variant: the event of the stage's level is named although the level
   has not changed enough for one. *)
LevelRefsAlways(n) ==
  IF verifications[n].invariant = "level_preserving"
    THEN {<<"stage-signal", verifications[n].stage>>} ELSE {}

LevelRefs(n) ==
  IF /\ verifications[n].invariant = "level_preserving"
     /\ \E e \in SignalEvidence : e.stage = verifications[n].stage
    THEN {<<"stage-signal", verifications[n].stage>>} ELSE {}

(* An incident without an extent of its own is of the whole run: Nothing. *)
VerificationIncident(n) ==
  LET v == verifications[n]
      failures == {m \in DOMAIN verifications : m < n /\ ~verifications[m].passed}
  IN  [id |-> <<"verification", Cardinality(failures)>>,
       rule |-> v.invariant, stage |-> v.stage,
       start |-> IF n \in Contractions THEN v.output ELSE Nothing,
       end |-> IF n \in Contractions THEN v.input ELSE Nothing,
       refs |-> ArtifactOf(v.stage) \union ArtifactOf(PreviousStage(v.stage))
                  \union (IF n \in Contractions
                            THEN {<<"duration-contraction", n>>}
                            ELSE LevelRefs(n))]

VerificationIncidents ==
  {VerificationIncident(n) :
     n \in {m \in DOMAIN verifications : ~verifications[m].passed}}

FullScaleIncidents ==
  {[id |-> <<"full-scale", e.stage>>, rule |-> "full-scale", stage |-> e.stage,
    start |-> stage_metrics[e.peak].ts, end |-> stage_metrics[e.peak].ts,
    refs |-> {<<"stage-full-scale", e.stage>>} \union ArtifactOf(e.stage)
               \union ArtifactOf(PreviousStage(e.stage))] :
     e \in FullScaleEvidence}

FailureIncidents ==
  IF status # "failed" THEN {}
  ELSE {[id |-> <<"run:failure">>, rule |-> "failure", stage |-> Nothing,
         start |-> Nothing, end |-> Nothing, refs |-> {<<"run:failure">>}]}

StageIncidents == ClickIncidents \union VerificationIncidents
               \union FullScaleIncidents \union FailureIncidents

-----------------------------------------------------------------------------
(* Properties. *)

(* What an incident cites is on the timeline under the id it cites it by: a
   recording, or an event, which the three projections of a run derive apart;
   an incident of a stage that has a recording cites it, and only one of the
   frame cadence, which is measured without PCM, may cite nothing; and ids are of one
   incident each. *)
StageEvidenceResolves ==
  LET incidents == StageIncidents
      known == Artifacts \union {e.id : e \in StageEvents}
  IN  /\ \A c \in incidents : c.refs \subseteq known
      /\ \A c \in incidents : c.rule # "isochronous" => c.refs # {}
      /\ \A c \in incidents : ArtifactOf(c.stage) \subseteq c.refs
      /\ \A c, d \in incidents : c.id = d.id => c = d
      /\ Cardinality(VerificationIncidents)
           = Cardinality({n \in DOMAIN verifications :
                            ~verifications[n].passed})

ClippingIncidentAt(k) == \E c \in FullScaleIncidents : c.stage = StageOf(k)

(* Full-scale samples are traced to where they enter the pipeline: from every
   stage that has them upwards, through stages that all have them, there is one
   with an incident, and of neighbouring stages only the first has one. *)
ClippingIsTraced ==
  \A k \in DOMAIN Pipeline : Clips(k) =>
    \E j \in 1..k :
      /\ ClippingIncidentAt(j)
      /\ \A i \in j..k : Clips(i)
      /\ \A i \in (j + 1)..k : ~ClippingIncidentAt(i)

(* The recordings the checks of the kth stage compare: its own and that of the
   last stage before it that has one. *)
Compared(k) ==
  LET recorded == {j \in 1..(k - 1) : RecordingOf(StageOf(j)) # Nothing}
  IN  [input |-> IF recorded = {} THEN Nothing
                 ELSE RecordingOf(StageOf(Max(recorded))),
       output |-> RecordingOf(StageOf(k))]

(* A missing stretch of media time is found against the last recording before
   the stage, whichever stages in between have none, and the interval, the
   event and the incident give it the same extent. *)
ContractionsAreLocalised ==
  /\ \A v \in MissingIntervals :
       LET k == CHOOSE k \in DOMAIN Pipeline : StageOf(k) = v.stage
       IN  /\ Compared(k).input # Nothing
           /\ v.start = Compared(k).output.duration
           /\ v.end = Compared(k).input.duration
           /\ \E c \in VerificationIncidents :
                /\ c.stage = v.stage /\ c.start = v.start /\ c.end = v.end
                /\ \E e \in ContractionEvents : e.id \in c.refs
                                                /\ e.t = v.start
  /\ status = "completed" =>
       \A k \in DOMAIN Pipeline :
         LET pair == Compared(k)
         IN  /\ "duration_preserving" \in Pipeline[k].invariants
             /\ pair.input # Nothing /\ pair.output # Nothing
             /\ pair.output.duration > 0
             /\ 2 * pair.output.duration <= pair.input.duration
             => \/ \E v \in MissingIntervals : v.stage = StageOf(k)
                \/ unread \intersect {pair.input.stage, pair.output.stage} # {}

(* What the timeline says of the stages: where clipping and missing time come
   from, with the evidence for it. *)
StagesAreJudged ==
  /\ ClippingIsTraced
  /\ ContractionsAreLocalised
  /\ StageEvidenceResolves

=============================================================================
