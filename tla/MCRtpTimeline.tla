--------------------------- MODULE MCRtpTimeline ---------------------------
(* Small instances of RtpTimeline, of a capture that does not count its drops and of
   one that does and reports its health, and of RtpQuality. *)
EXTENDS RtpTimeline, RtpQuality

VARIABLE subject   \* what this behaviour is of; the rest of the state rests

\* Datagrams in a hurry, and one that is late by more than the threshold.
TwoGaps == {1, 6}

\* Statistics that are healthy, lossy, jittery, or lossy with a bad score, around
\* its threshold; the scores are in tenths.
MCReadings ==
  {[loss |-> 0, jitter |-> 29, mos |-> 36],
   [loss |-> 1, jitter |-> 0, mos |-> NoReading],
   [loss |-> NoReading, jitter |-> 30, mos |-> NoReading],
   [loss |-> 2, jitter |-> NoReading, mos |-> 35]}

\* Before the run begins, at its first moment, and around the gap after it.
MCTimes == {-1, 0, 5, 6}

\* A capture with health reports that counts its drops, and one that does so from the
\* first drop on.
Capture ==
  INSTANCE RtpTimeline WITH CounterSupported <- TRUE, ArrivalGaps <- {1},
    MaxPackets <- 3, MaxFaults <- 2, MaxReports <- 2, MaxAdapters <- 1
LateCounter ==
  INSTANCE RtpTimeline WITH ArrivalGaps <- {1},
    MaxPackets <- 3, MaxFaults <- 1, MaxReports <- 2, MaxAdapters <- 1

mcVars == <<vars, qualityVars, subject>>

MCInit ==
  /\ \/ subject \in {"packets", "late counter", "quality"} /\ Init
     \/ subject = "capture" /\ Capture!Init
  /\ QualityInit

MCNext ==
  \/ subject = "packets" /\ Next /\ UNCHANGED <<qualityVars, subject>>
  \/ subject = "capture" /\ Capture!Next /\ UNCHANGED <<qualityVars, subject>>
  \/ subject = "late counter" /\ LateCounter!Next /\ UNCHANGED <<qualityVars, subject>>
  \/ subject = "quality" /\ QualityNext /\ UNCHANGED <<vars, subject>>

MCSpec == MCInit /\ [][MCNext]_mcVars

\* report_health and the incidents it judges, of the runs with health reports: every
\* report counts what the capture missed in its window, an incident is doubted exactly
\* if that was something, and nothing the capture missed is taken for a loss of the
\* network, but for what it missed after report_health took its time and before its
\* lock.
CaptureIsJudged ==
  subject \in {"capture", "late counter"} =>
    /\ Capture!MissesAreCountedOnce
    /\ Capture!IncidentsFollowTheCapture
    /\ Capture!CaptureLossIsNotTheNetworks

=============================================================================
