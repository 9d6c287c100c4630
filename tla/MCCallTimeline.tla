--------------------------- MODULE MCCallTimeline ---------------------------
(* Small instances of CallTimeline, each with some kinds of observations, and of
   StageTimeline: three stages, a tap, one that keeps duration, level and cadence,
   and a codec whose loss of level is expected. *)
EXTENDS CallTimeline, StageTimeline

VARIABLE subject   \* what this behaviour is of; the rest of the state rests

TwoStages == <<"decode", "encode">>

DeadAirs == INSTANCE CallTimeline WITH
  Kinds <- {"response", "playback", "audio"}, Durations <- {2},
  MaxNow <- 2, MaxObservations <- 4, MaxBursts <- 1
Silences == INSTANCE CallTimeline WITH
  Kinds <- {"audio", "late"}, Stages <- <<"encode">>, MaxObservations <- 4
Interruptions == INSTANCE CallTimeline WITH
  Kinds <- {"bargein", "counter", "playback", "late"}, MaxNow <- 1,
  MaxObservations <- 4, MaxBursts <- 1

MCPipeline ==
  <<[stage |-> "input", invariants |-> {}, lossy |-> FALSE],
    [stage |-> "agc",
     invariants |-> {"duration_preserving", "level_preserving", "isochronous"},
     lossy |-> FALSE],
    [stage |-> "codec",
     invariants |-> {"duration_preserving", "level_preserving"},
     lossy |-> TRUE]>>
MCLevels == {Nothing, 0, 4}
MCDeltas == {-3}

Clipping == INSTANCE StageTimeline WITH
  StageKinds <- {"chunk"}, Deltas <- {0}, FullScale <- {0, 2, 3},
  RecordingDurations <- {100}, Levels <- {0}

MCInit ==
  /\ Init /\ StageInit
  /\ subject \in {"turns", "dead air", "silence", "barge-in", "stages", "clipping"}

MCNext ==
  \/ /\ UNCHANGED <<stageVars, subject>>
     /\ \/ subject = "turns" /\ Next
        \/ subject = "dead air" /\ DeadAirs!Next
        \/ subject = "silence" /\ Silences!Next
        \/ subject = "barge-in" /\ Interruptions!Next
  \/ /\ UNCHANGED <<vars, subject>>
     /\ \/ subject = "stages" /\ StageNext
        \/ subject = "clipping" /\ Clipping!StageNext

MCSpec == MCInit /\ [][MCNext]_<<vars, stageVars, subject>>

=============================================================================
