----------------------------- MODULE StageAudio -----------------------------
(***************************************************************************)
(* VoxBenchObserver.observe_stage_audio, as far as one stage's click and   *)
(* pop detector goes: it sees the PCM of a stage in chunks of any length,  *)
(* keeps of the past only the format, the last frame, the number of frames *)
(* and the time of the last event, and reports at most the strongest jump  *)
(* of a chunk.  A sample is a small integer, a frame has one sample for    *)
(* each channel, and times are in units of which a frame takes             *)
(* format.period (1000 / sample_rate_hz in the code).                      *)
(***************************************************************************)
EXTENDS Integers, Sequences, FiniteSets, FiniteSetsExt

CONSTANTS
  Formats,      \* of PCM: [period, channels]
  Samples,      \* the values of a sample
  Threshold,    \* PCM_DISCONTINUITY_THRESHOLD
  MinLevel,     \* PCM_DISCONTINUITY_MIN_SIGNAL_LEVEL
  Dedup,        \* PCM_DISCONTINUITY_DEDUP_MS
  MaxChunk,     \* bound: frames of a chunk
  MaxFrames, MaxSegments   \* bounds: frames in all, changes of format

ASSUME AudioAssumption ==
  /\ \A f \in Formats : f.period \in Nat \ {0} /\ f.channels \in Nat \ {0}
  /\ Samples \subseteq Int
  /\ {Threshold, MinLevel, Dedup, MaxChunk, MaxFrames, MaxSegments} \subseteq Nat

VARIABLES
  prior,     \* _stage_pcm_state of the stage: format, final, offset, last
  events,    \* the discontinuities in _timeline_events
  stream,    \* history: the frames since the format last changed
  segment,   \* history: how often the format has changed
  frames     \* how many frames there have been

audioVars == <<prior, events, stream, segment, frames>>

Unknown == [period |-> 0, channels |-> 0]
Never == -1

AudioInit ==
  /\ prior = [format |-> Unknown, final |-> <<>>, offset |-> 0, last |-> Never]
  /\ events = <<>> /\ stream = <<>>
  /\ segment = 0 /\ frames = 0

-----------------------------------------------------------------------------
(* detect_pcm_s16le_discontinuity *)

Abs(x) == IF x < 0 THEN -x ELSE x
Magnitude(a, b) == Abs(a - b)
Suspicious(a, b) ==
  /\ Magnitude(a, b) >= Threshold
  /\ Max({Abs(a), Abs(b)}) >= MinLevel

(* The jumps into frames of `pcm`, which comes after the frame `previous` if
   that is not empty: frame offset from 0, magnitude and channel. *)
Jumps(pcm, previous) ==
  LET all == IF previous = <<>> THEN pcm ELSE <<previous>> \o pcm
      skew == Len(all) - Len(pcm)
      channels == IF all = <<>> THEN {} ELSE DOMAIN all[1]
      places == {p \in (2..Len(all)) \X channels :
                   Suspicious(all[p[1]][p[2]], all[p[1] - 1][p[2]])}
  IN  {[offset |-> p[1] - 1 - skew,
        magnitude |-> Magnitude(all[p[1]][p[2]], all[p[1] - 1][p[2]]),
        channel |-> p[2]] : p \in places}

(* The strongest, the first of those by frame and then by channel. *)
Strongest(pcm, previous) ==
  LET jumps == Jumps(pcm, previous)
      best == {j \in jumps : \A k \in jumps : k.magnitude <= j.magnitude}
  IN  {j \in best : \A k \in best : \/ j.offset < k.offset
                                    \/ /\ j.offset = k.offset
                                       /\ j.channel <= k.channel}

(* Faulty variant: the last frame of an empty chunk is no frame. *)
FinalForgotten(pcm, same) == IF pcm # <<>> THEN pcm[Len(pcm)] ELSE <<>>

(* _pcm_s16le_final_frame; an empty chunk leaves the last frame as it was. *)
Final(pcm, same) ==
  IF pcm # <<>> THEN pcm[Len(pcm)] ELSE IF same THEN prior.final ELSE <<>>

-----------------------------------------------------------------------------
(* Faulty variant: jumps near the last event are reported too. *)
ReportAnyway(time, last) == TRUE

(* Is a jump at this time far enough from the last event? *)
Report(time, last) == last = Never \/ time - last >= Dedup

(* Faulty variant: the offset of a chunk is counted in samples. *)
OffsetInSamples(format, pcm, same) ==
  (IF same THEN prior.offset ELSE 0) + Len(pcm) * format.channels

NextOffset(format, pcm, same) == (IF same THEN prior.offset ELSE 0) + Len(pcm)

ObserveStageAudio(format, pcm) ==
  LET same == prior.format = format
      previous == IF same THEN prior.final ELSE <<>>
      offset == IF same THEN prior.offset ELSE 0
      last == IF same THEN prior.last ELSE Never
      now == segment + (IF same THEN 0 ELSE 1)
      found == {[time |-> (offset + j.offset) * format.period,
                 magnitude |-> j.magnitude, channel |-> j.channel,
                 segment |-> now] : j \in Strongest(pcm, previous)}
      report == {e \in found : Report(e.time, last)}
  IN  /\ now <= MaxSegments /\ frames + Len(pcm) <= MaxFrames
      /\ events' = events \o [n \in 1..Cardinality(report) |-> CHOOSE e \in report : TRUE]
      /\ prior' = [format |-> format, final |-> Final(pcm, same),
                   offset |-> NextOffset(format, pcm, same),
                   last |-> IF report = {} THEN last
                            ELSE (CHOOSE e \in report : TRUE).time]
      /\ stream' = (IF same THEN stream ELSE <<>>) \o pcm
      /\ segment' = now
      /\ frames' = frames + Len(pcm)

Frame(format) == [1..format.channels -> Samples]

AudioNext ==
  \E format \in Formats, n \in 0..MaxChunk :
    \E pcm \in [1..n -> Frame(format)] : ObserveStageAudio(format, pcm)

AudioSpec == AudioInit /\ [][AudioNext]_audioVars

-----------------------------------------------------------------------------
(* Properties.  They compare what is reported chunk by chunk with the jumps of
   the whole stream since the format changed, wherever it was cut. *)

Reported == {n \in DOMAIN events : events[n].segment = segment}
AllJumps == Jumps(stream, <<>>)

(* Every event is a jump of the stream, at its time, with its magnitude and in
   its channel, jumps across the edge of a chunk and around an empty chunk
   included. *)
EventsAreJumps ==
  \A n \in Reported : \E j \in AllJumps :
    /\ events[n].time = j.offset * prior.format.period
    /\ events[n].magnitude = j.magnitude
    /\ events[n].channel = j.channel

(* Two events are at least the deduplication window apart. *)
EventsAreApart ==
  \A m, n \in Reported : m < n => events[n].time - events[m].time >= Dedup

(* No jump goes unseen: within the deduplication window and the length of a
   chunk of each there is an event. *)
JumpsAreSeen ==
  \A j \in AllJumps : \E n \in Reported :
    Abs(events[n].time - j.offset * prior.format.period)
      < Dedup + MaxChunk * prior.format.period

(* The click detector of observe_stage_audio reports the jumps of the stream, as
   if it had not been cut into chunks, at the rate it is meant to. *)
ClicksAreReported ==
  /\ EventsAreJumps
  /\ EventsAreApart
  /\ JumpsAreSeen

=============================================================================
