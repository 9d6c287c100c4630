---------------------------- MODULE RtpQuality ----------------------------
(***************************************************************************)
(* RTCP statistics and the quality incidents of a run's timeline.          *)
(*                                                                         *)
(* POST /v1/rtp-stats stores a statistic in the order it arrives; the AMI  *)
(* collector and the applications that post them have clocks of their own, *)
(* so that it is neither the order of their times nor, before the run's    *)
(* first moment, a time of the timeline.  The rules of the timeline order  *)
(* the statistics of a direction again, keep the degraded ones, and join   *)
(* the consecutive ones into windows, each an interval and an incident.    *)
(***************************************************************************)
EXTENDS Integers, Sequences, FiniteSets, FiniteSetsExt, SequencesExt

CONSTANTS
  Times,      \* when a statistic may be taken; the run starts at 0
  Directions, \* of the stream, some of "inbound", "outbound" and "unknown"
  Readings,   \* what a statistic may read: [loss, jitter, mos]
  LossWarning, JitterWarning, MosWarning,   \* RTP_LOSS_WARNING_PCT, ...
  WindowGap,  \* RTP_DEGRADATION_WINDOW_GAP_MS
  MaxStats    \* bound

ASSUME RtpQualityAssumption ==
  /\ Times \subseteq Int /\ {WindowGap, MaxStats} \subseteq Nat
  /\ Directions \subseteq {"unknown", "inbound", "outbound"}
  /\ {LossWarning, JitterWarning, MosWarning} \subseteq Nat

VARIABLES
  rtp_stats,  \* the run's statistics, in the order they are stored
  shown       \* history: the windows before the last statistic

qualityVars == <<rtp_stats, shown>>

NoReading == -1

-----------------------------------------------------------------------------
(* Degraded statistics. *)

Stats == DOMAIN rtp_stats
Direction(i) == rtp_stats[i].direction
RelativeTime(i) == IF rtp_stats[i].ts > 0 THEN rtp_stats[i].ts ELSE 0

Triggers(i) ==
  LET stat == rtp_stats[i]
  IN  {t \in {"loss", "jitter", "mos"} :
         CASE t = "loss"   -> stat.loss # NoReading /\ stat.loss >= LossWarning
           [] t = "jitter" -> stat.jitter # NoReading
                                /\ stat.jitter >= JitterWarning
           [] t = "mos"    -> stat.mos # NoReading /\ stat.mos <= MosWarning}

(* The order of a direction's statistics, by time and then as they came. *)
Before(i, j) ==
  /\ Direction(i) = Direction(j)
  /\ \/ rtp_stats[i].ts < rtp_stats[j].ts
     \/ rtp_stats[i].ts = rtp_stats[j].ts /\ i < j

DirectionOrdinal(i) == Cardinality({j \in Stats : Before(j, i)})

(* A missing direction sorts as the empty string. *)
Rank(direction) ==
  CASE direction = "unknown"  -> 0
    [] direction = "inbound"  -> 1
    [] direction = "outbound" -> 2

EvidenceBefore(i, j) ==
  \/ RelativeTime(i) < RelativeTime(j)
  \/ /\ RelativeTime(i) = RelativeTime(j)
     /\ \/ Rank(Direction(i)) < Rank(Direction(j))
        \/ Direction(i) = Direction(j) /\ i < j

(* Faulty variant: the statistics of one time of a direction are one. *)
QualityEvidenceByTime ==
  LET latest(i) == \A j \in Stats :
                     j > i => ~ /\ Direction(j) = Direction(i)
                                /\ rtp_stats[j].ts = rtp_stats[i].ts
  IN  SortSeq(SelectSeq([i \in Stats |-> i],
                        LAMBDA i : Triggers(i) # {} /\ latest(i)),
              EvidenceBefore)

(* The degraded statistics, as indices. *)
QualityEvidence ==
  SortSeq(SelectSeq([i \in Stats |-> i], LAMBDA i : Triggers(i) # {}),
          EvidenceBefore)

-----------------------------------------------------------------------------
(* Windows. *)

(* Faulty variant: a healthy statistic in between does not end a window. *)
InWindowAcrossHealthy(previous, i) ==
  RelativeTime(i) - RelativeTime(previous) <= WindowGap

InWindow(previous, i) ==
  /\ DirectionOrdinal(i) = DirectionOrdinal(previous) + 1
  /\ RelativeTime(i) - RelativeTime(previous) <= WindowGap

(* Adds a degraded statistic to the last window or begins one with it. *)
JoinWindow(windows, i) ==
  IF windows # <<>> /\ InWindow(Last(Last(windows)), i)
    THEN [windows EXCEPT ![Len(windows)] = Append(@, i)]
    ELSE Append(windows, <<i>>)

WindowsOf(direction) ==
  FoldLeft(JoinWindow, <<>>,
           SelectSeq(QualityEvidence, LAMBDA i : Direction(i) = direction))

Windows ==
  SortSeq(WindowsOf("unknown") \o WindowsOf("inbound") \o WindowsOf("outbound"),
          LAMBDA v, w : EvidenceBefore(v[1], w[1]))

-----------------------------------------------------------------------------
(* What the timeline shows of them. *)

WindowAlias(n, window) == <<"rtp-degradation", Direction(window[1]), n>>

EventId(i, trigger) == <<"rtp", i, trigger>>

WindowTriggers(window) == UNION {Triggers(i) : i \in Range(window)}

QualityEvents(windows) ==
  UNION {{[id |-> EventId(i, trigger), t |-> RelativeTime(i),
           alias |-> WindowAlias(n, windows[n])] :
            trigger \in Triggers(i)} :
         <<n, i>> \in {x \in (DOMAIN windows) \X Stats :
                         x[2] \in Range(windows[x[1]])}}

WindowEnd(window) ==
  Max({RelativeTime(window[1]), RelativeTime(Last(window))})

QualityIntervals(windows) ==
  {[id |-> WindowAlias(n, windows[n]), start |-> RelativeTime(windows[n][1]),
    end |-> WindowEnd(windows[n]), triggers |-> WindowTriggers(windows[n])] :
   n \in DOMAIN windows}

(* Faulty variant: two lossy statistics anywhere in a window. *)
LossBurstAnywhere(window) ==
  Cardinality({i \in Range(window) : "loss" \in Triggers(i)}) > 1

LossBurst(window) ==
  \E n \in 1..(Len(window) - 1) :
    "loss" \in Triggers(window[n]) /\ "loss" \in Triggers(window[n + 1])

Title(window) ==
  CASE LossBurst(window)                   -> "RTP loss burst suspected"
    [] WindowTriggers(window) = {"loss"}   -> "RTP packet loss elevated"
    [] WindowTriggers(window) = {"jitter"} -> "RTP jitter elevated"
    [] WindowTriggers(window) = {"mos"}    -> "RTP quality degraded"
    [] OTHER                               -> "RTP quality degradation"

(* Faulty variant: the statistic of a reference is counted within its
   direction. *)
EvidenceRefsByOrdinal(i) ==
  {EventId(DirectionOrdinal(i) + 1, trigger) : trigger \in Triggers(i)}

EvidenceRefs(i) == {EventId(i, trigger) : trigger \in Triggers(i)}

QualityIncidents(windows) ==
  {[id |-> WindowAlias(n, windows[n]), title |-> Title(windows[n]),
    direction |-> Direction(windows[n][1]),
    start |-> RelativeTime(windows[n][1]), end |-> WindowEnd(windows[n]),
    refs |-> UNION {EvidenceRefs(i) : i \in Range(windows[n])}] :
   n \in DOMAIN windows}

-----------------------------------------------------------------------------
(* Statistics arrive. *)

QualityInit == rtp_stats = <<>> /\ shown = <<>>

IngestRtpStat(ts, direction, reading) ==
  /\ Len(rtp_stats) < MaxStats
  /\ rtp_stats' =
       Append(rtp_stats, [ts |-> ts, direction |-> direction,
                          loss |-> reading.loss, jitter |-> reading.jitter,
                          mos |-> reading.mos])
  /\ shown' = Windows

QualityNext ==
  \E ts \in Times, direction \in Directions, reading \in Readings :
    IngestRtpStat(ts, direction, reading)

QualitySpec == QualityInit /\ [][QualityNext]_qualityVars

-----------------------------------------------------------------------------
(* Properties. *)

(* A statistic is followed by another one of its direction. *)
Follows(i, j) ==
  /\ Before(i, j)
  /\ \A k \in Stats : ~(Before(i, k) /\ Before(k, j))

(* Nothing healthy, and no pause longer than the gap, from i to j. *)
Together(i, j) ==
  LET between == {k \in Stats : /\ k = i \/ Before(i, k)
                                /\ k = j \/ Before(k, j)}
  IN  /\ i = j \/ Before(i, j)
      /\ \A k \in between : Triggers(k) # {}
      /\ \A k, l \in between :
           Follows(k, l) => RelativeTime(l) - RelativeTime(k) <= WindowGap

(* The timeline has one time for everything before the run's first moment. *)
InOrderBeforeTheRun ==
  \A i, j \in Stats :
    /\ i < j /\ Direction(i) = Direction(j)
    /\ RelativeTime(i) = 0 /\ RelativeTime(j) = 0
    => rtp_stats[i].ts <= rtp_stats[j].ts

(* The windows that _rtp_quality_windows finds in one pass are the longest
   series of degraded statistics of a direction without a healthy one or a
   pause in between, whatever order the statistics were stored in, if those from
   before the run were stored in order. *)
WindowsAreDegradations ==
  LET windows == Windows
      degraded == {i \in Stats : Triggers(i) # {}}
  IN  InOrderBeforeTheRun =>
      /\ {Range(windows[n]) : n \in DOMAIN windows}
           = {{j \in degraded : Together(i, j) \/ Together(j, i)} :
                i \in degraded}
      /\ \A n \in DOMAIN windows : IsInjective(windows[n])

(* A loss burst is announced exactly where two statistics that follow each
   other in time, and not only in the order they were stored or degraded, are
   both lossy. *)
BurstsAreConsecutiveLoss ==
  LET windows == Windows
      lossy(i) == "loss" \in Triggers(i)
  IN  \A n \in DOMAIN windows :
        Title(windows[n]) = "RTP loss burst suspected"
          <=> \E i, j \in Range(windows[n]) :
                Follows(i, j) /\ lossy(i) /\ lossy(j)

(* What the inspector opens for an incident is there: its interval, of the same
   id and extent, and the events its evidence names, all of them within that
   extent and of the incident's alias; and no two incidents share an id. *)
QualityEvidenceResolves ==
  LET windows == Windows
      incidents == QualityIncidents(windows)
      intervals == QualityIntervals(windows)
      events == QualityEvents(windows)
  IN  /\ Cardinality({c.id : c \in incidents}) = Len(windows)
      /\ Cardinality({e.id : e \in events}) = Cardinality(events)
      /\ \A c \in incidents :
           /\ \E v \in intervals : v.id = c.id /\ v.start = c.start
                                               /\ v.end = c.end
           /\ c.refs = {e.id : e \in {x \in events : x.alias = c.id}}
           /\ \A e \in events :
                e.alias = c.id => c.start <= e.t /\ e.t <= c.end

(* A statistic that is not older than the others of its direction extends a
   window or begins one: no incident that was shown is withdrawn, shortened or
   split by it. *)
IncidentsOnlyGrow ==
  LET windows == Windows
      new == Len(rtp_stats)
  IN  (\A i \in Stats :
         Direction(i) = Direction(new) => rtp_stats[i].ts <= rtp_stats[new].ts)
        => \A n \in DOMAIN shown :
             \E m \in DOMAIN windows : IsPrefix(shown[n], windows[m])

(* The quality incidents of the timeline are the degradations of the statistics,
   in whatever order they are stored, and what they cite is there. *)
QualityIncidentsAreTrue ==
  /\ WindowsAreDegradations
  /\ BurstsAreConsecutiveLoss
  /\ IncidentsOnlyGrow
  /\ QualityEvidenceResolves

=============================================================================
