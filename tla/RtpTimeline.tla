---------------------------- MODULE RtpTimeline ----------------------------
(***************************************************************************)
(* RTP packets from the network to the incidents of the run's timeline:    *)
(* RtpPacketTapAdapter, which turns datagrams and reported capture drops   *)
(* into events, and the rules of the timeline that compare the packets of  *)
(* a stream pairwise and judge what they find by the capture's health.     *)
(*                                                                         *)
(* The media thread is in observe_datagram, another thread may call        *)
(* record_capture_drop, and a third one report_health.  A packet has a     *)
(* number, which never wraps and which no code sees: the properties        *)
(* compare what the rules say with what became of the numbers.             *)
(***************************************************************************)
EXTENDS Integers, Sequences, FiniteSets, FiniteSetsExt, SequencesExt

CONSTANTS
  SequenceModulus,   \* 65_536
  TimestampModulus,  \* 4_294_967_296
  FirstSequence, FirstTimestamp,
  MediaStep,         \* the media time of a packet
  StallExcess,       \* RTP_ARRIVAL_STALL_EXCESS_MS
  ArrivalGaps,       \* the times between two datagrams
  CounterSupported,  \* capture_drop_counter_supported
  MaxPackets, MaxFaults, MaxReports, MaxAdapters   \* bounds

ASSUME RtpAssumption ==
  /\ {SequenceModulus, TimestampModulus, MediaStep, MaxPackets, MaxAdapters}
       \subseteq Nat \ {0}
  /\ {FirstSequence, FirstTimestamp, StallExcess, MaxFaults, MaxReports}
       \subseteq Nat
  /\ ArrivalGaps \subseteq Nat \ {0} /\ CounterSupported \in BOOLEAN

VARIABLES
  source,    \* the sender: its next packet, and its codec's clock rate
  network,   \* packets that are late
  now,       \* the clock that datagrams, drops and reports are timed by
  tap,       \* the RtpPacketTapAdapter
  media,     \* the media thread, in observe_datagram
  reporter,  \* the thread in report_health
  stored,    \* the run's timeline events, in the order they are stored
  missed,    \* history: the packets the capture dropped or could not decode
  faults, reports, adapters   \* what the bounds count

vars == <<source, network, now, tap, media, reporter, stored, missed, faults,
          reports, adapters>>

None == -1
Idle == [phase |-> "idle"]

-----------------------------------------------------------------------------
(* The sender and the network, external to the program. *)

NextPacket ==
  [number |-> source.number, stream |-> source.stream, rate |-> source.rate,
   seq |-> (FirstSequence + source.stream + source.number) % SequenceModulus,
   ts |-> source.ts]

Sent ==
  source' = [source EXCEPT
               !.number = @ + 1,
               !.ts = (@ + MediaStep * source.rate) % TimestampModulus]

Fault == faults < MaxFaults /\ faults' = faults + 1

\* Datagrams that reach the capture: the next one, a late one, or one again.
Arriving ==
  {[packet |-> p, from |-> "late"] : p \in network}
    \cup (IF source.number < MaxPackets
            THEN {[packet |-> NextPacket, from |-> "sender"]} ELSE {})

Leaves(arrival) ==
  IF arrival.from = "sender" THEN Sent /\ UNCHANGED network
  ELSE network' = network \ {arrival.packet} /\ UNCHANGED source

\* The network loses a packet, or delays it behind later ones; that the media
\* thread is idle costs no behaviour of the program.
Lose ==
  /\ media = Idle /\ source.number < MaxPackets /\ Fault /\ Sent
  /\ UNCHANGED <<network, now, tap, media, reporter, stored, missed, reports, adapters>>

Delay ==
  /\ media = Idle /\ source.number < MaxPackets /\ Fault /\ Sent
  /\ network' = network \cup {NextPacket}
  /\ UNCHANGED <<now, tap, media, reporter, stored, missed, reports, adapters>>

-----------------------------------------------------------------------------
(* RtpPacketTapAdapter *)

NewTap(stream, rate, at) ==
  [stream |-> stream, rate |-> rate, started |-> at, observed |-> 0, drops |-> 0,
   errors |-> 0, supported |-> CounterSupported]

\* observe_datagram takes its time stamp from the caller and decodes the header.
Datagram ==
  /\ media = Idle
  /\ \E arrival \in Arriving, gap \in ArrivalGaps :
       /\ now' = now + gap
       /\ Leaves(arrival)
       /\ media' = [phase |-> "decoded", at |-> now + gap, packet |-> arrival.packet]
  /\ UNCHANGED <<tap, reporter, stored, missed, faults, reports, adapters>>

\* The network delivers a packet once more.
Duplicate ==
  /\ media = Idle /\ Fault
  /\ \E i \in DOMAIN stored :
       /\ stored[i].name = "rtp.packet_arrived"
       /\ stored[i].number \in Nat /\ stored[i].stream = tap.stream
       /\ now' = now + 1
       /\ media' = [phase |-> "decoded", at |-> now + 1,
                    packet |-> [number |-> stored[i].number, stream |-> stored[i].stream,
                                rate |-> stored[i].codec, seq |-> stored[i].seq,
                                ts |-> stored[i].ts]]
  /\ UNCHANGED <<source, network, tap, reporter, stored, missed, reports, adapters>>

\* A drop is timed by its record; whether a report is between its time and its lock
\* then, and which, is history.
Missed(packet, at) ==
  missed' = missed \cup {[number |-> packet.number, stream |-> packet.stream, at |-> at,
                          during |-> IF reporter = Idle THEN None ELSE reporter.at]}

\* Faulty variant: a datagram that is no RTP packet is taken back from the packets
\* observed, among which it was never counted.
UncountDecodeError(t) == [t EXCEPT !.observed = @ - 1, !.errors = @ + 1]

\* A datagram without an RTP header is counted, and raised to the caller.
CountDecodeError(t) == [t EXCEPT !.errors = @ + 1]

DecodeError ==
  /\ media = Idle /\ Fault
  /\ \E arrival \in Arriving :
       /\ Leaves(arrival)
       /\ now' = now + 1
       /\ tap' = CountDecodeError(tap)
       /\ Missed(arrival.packet, now + 1)
  /\ UNCHANGED <<media, reporter, stored, reports, adapters>>

\* The owner's queue is full: record_capture_drop, from another thread.
RecordCaptureDrop ==
  /\ Fault
  /\ \E arrival \in Arriving :
       /\ Leaves(arrival)
       /\ now' = now + 1
       /\ tap' = [tap EXCEPT !.supported = TRUE, !.drops = @ + 1]
       /\ Missed(arrival.packet, now + 1)
  /\ UNCHANGED <<media, reporter, stored, reports, adapters>>

\* The clock rate is the adapter's; number and codec, the sender's rate, are history.
PacketEvent(packet, stream, at) ==
  [name |-> "rtp.packet_arrived", stream |-> stream, rate |-> tap.rate,
   seq |-> packet.seq, ts |-> packet.ts, number |-> packet.number,
   codec |-> packet.rate, at |-> at]

ObserveRtpPacket ==
  /\ media.phase = "decoded"
  /\ stored' = Append(stored, PacketEvent(media.packet, tap.stream, media.at))
  /\ media' = [phase |-> "stored"]
  /\ UNCHANGED <<source, network, now, tap, reporter, missed, faults, reports, adapters>>

CountObserved ==
  /\ media.phase = "stored"
  /\ tap' = [tap EXCEPT !.observed = @ + 1]
  /\ media' = Idle
  /\ UNCHANGED <<source, network, now, reporter, stored, missed, faults, reports, adapters>>

\* report_health takes the time, and then the lock.
ReportBegins ==
  /\ reporter = Idle /\ reports < MaxReports
  /\ now' = now + 1 /\ reports' = reports + 1
  /\ reporter' = [phase |-> "timed", at |-> now + 1]
  /\ UNCHANGED <<source, network, tap, media, stored, missed, faults, adapters>>

Snapshot(at) ==
  [name |-> "rtp.capture_health_reported", stream |-> tap.stream,
   observed |-> tap.observed, drops |-> tap.drops, errors |-> tap.errors,
   supported |-> tap.supported, duration |-> Max({0, at - tap.started}), at |-> at]

\* Faulty variant: the counter of packets is not reset.
NextWindowKeepsCount(at) == [tap EXCEPT !.started = at, !.drops = 0, !.errors = 0]

\* Faulty variant: the counter of drops is not reset.
NextWindowKeepsDrops(at) == [tap EXCEPT !.started = at, !.observed = 0, !.errors = 0]

NextWindow(at) ==
  [tap EXCEPT !.started = at, !.observed = 0, !.drops = 0, !.errors = 0]

ReportHealth ==
  /\ reporter.phase = "timed"
  /\ stored' = Append(stored, Snapshot(reporter.at))
  /\ tap' = NextWindow(reporter.at)
  /\ reporter' = Idle
  /\ UNCHANGED <<source, network, now, media, missed, faults, reports, adapters>>

\* The owner makes another adapter: for a new source with another stream alias,
\* or for the same stream with another clock rate.
NewAdapter ==
  /\ media = Idle /\ reporter = Idle /\ network = {} /\ adapters < MaxAdapters
  /\ adapters' = adapters + 1 /\ now' = now + 1
  /\ \/ tap' = NewTap(tap.stream + 1, tap.rate, now + 1)
     \/ tap' = NewTap(tap.stream, tap.rate + 1, now + 1)
  /\ source' = [source EXCEPT !.stream = tap'.stream, !.rate = tap'.rate]
  /\ UNCHANGED <<network, media, reporter, stored, missed, faults, reports>>

\* An event of another source: without a stream, or out of range.
ForeignEvent ==
  /\ media = Idle /\ Fault
  /\ \E stream \in {None, tap.stream} :
       stored' = Append(stored,
                   PacketEvent([rate |-> tap.rate, ts |-> 0, number |-> None,
                                seq |-> IF stream = None THEN 0 ELSE SequenceModulus],
                               stream, now))
  /\ UNCHANGED <<source, network, now, tap, media, reporter, missed, reports, adapters>>

-----------------------------------------------------------------------------
(* The rules of the timeline *)

\* The indices of the events a rule may use, ordered by time and then as stored.
ByTime(S) ==
  SortSeq(SelectSeq([i \in DOMAIN stored |-> i], LAMBDA i : i \in S),
          LAMBDA i, j : \/ stored[i].at < stored[j].at
                        \/ stored[i].at = stored[j].at /\ i < j)

\* Faulty variant: the events as they are stored, unchecked.
AllPacketEvents == {i \in DOMAIN stored : stored[i].name = "rtp.packet_arrived"}

PacketObservations ==
  {i \in DOMAIN stored : /\ stored[i].name = "rtp.packet_arrived"
                         /\ stored[i].stream # None
                         /\ stored[i].seq \in 0 .. SequenceModulus - 1
                         /\ stored[i].ts \in 0 .. TimestampModulus - 1}

Streams == {stored[i].stream : i \in PacketObservations}

\* Faulty variant: streams are not told apart.
PacketsOfAll(stream) == ByTime(PacketObservations)

PacketsOf(stream) == ByTime({i \in PacketObservations : stored[i].stream = stream})

\* pairwise, in the streams of the run
PacketPairs ==
  UNION {LET p == PacketsOf(s) IN {<<p[k], p[k + 1]>> : k \in 1 .. Len(p) - 1} :
           s \in Streams}

\* Faulty variant: the difference of the numbers as they are.
SequenceDeltaUnwrapped(p, c) == stored[c].seq - stored[p].seq

SequenceDelta(p, c) == (stored[c].seq - stored[p].seq) % SequenceModulus

SameClock(p, c) == stored[p].rate = stored[c].rate

\* Faulty variant: time stamps do not wrap.
TimestampDeltaUnwrapped(p, c) == stored[c].ts - stored[p].ts

TimestampDelta(p, c) == (stored[c].ts - stored[p].ts) % TimestampModulus

MediaAdvance(p, c) ==
  IF SameClock(p, c) THEN TimestampDelta(p, c) \div stored[c].rate ELSE 0

ArrivalGap(p, c) == Max({0, stored[c].at - stored[p].at})
ExcessArrivalDelay(p, c) == Max({0, ArrivalGap(p, c) - MediaAdvance(p, c)})

\* Faulty variant: two missing packets make a gap.
IsLongGap(p, c) ==
  LET delta == SequenceDelta(p, c)
  IN  2 < delta /\ 2 * delta < SequenceModulus

IsGap(p, c) ==
  LET delta == SequenceDelta(p, c)
  IN  1 < delta /\ 2 * delta < SequenceModulus

IsStall(p, c) ==
  SequenceDelta(p, c) = 1 /\ SameClock(p, c) /\ ExcessArrivalDelay(p, c) >= StallExcess

Discontinuities == {d \in PacketPairs : IsGap(d[1], d[2]) \/ IsStall(d[1], d[2])}

MissingPacketCount(d) ==
  IF IsGap(d[1], d[2]) THEN SequenceDelta(d[1], d[2]) - 1 ELSE 0

HealthReports ==
  {i \in DOMAIN stored : stored[i].name = "rtp.capture_health_reported"}

\* Faulty variant: only drops compromise a window.
ContinuityOfDrops(i) ==
  IF stored[i].drops > 0 THEN "compromised"
  ELSE IF stored[i].supported THEN "verified" ELSE "not independently verified"

Continuity(i) ==
  IF stored[i].drops + stored[i].errors > 0 THEN "compromised"
  ELSE IF stored[i].supported THEN "verified" ELSE "not independently verified"

\* Faulty variant: the window of the second packet is enough.
CoversCurrent(i, p, c) ==
  /\ stored[i].stream = stored[c].stream
  /\ Max({0, stored[i].at - stored[i].duration}) <= stored[c].at
  /\ stored[c].at <= stored[i].at

Covers(i, p, c) ==
  /\ stored[i].stream = stored[c].stream
  /\ Max({0, stored[i].at - stored[i].duration}) <= stored[p].at
  /\ stored[c].at <= stored[i].at

\* The first report whose window holds both packets, if there is one.
CaptureHealth(d) ==
  LET covering == ByTime({i \in HealthReports : Covers(i, d[1], d[2])})
  IN  IF covering = <<>> THEN {} ELSE {covering[1]}

CaptureContinuity(d) ==
  IF CaptureHealth(d) = {} THEN "not independently verified"
  ELSE Continuity(CHOOSE i \in CaptureHealth(d) : TRUE)

NetworkLossConfirmation(d) ==
  CASE CaptureContinuity(d) = "verified" -> "capture continuity verified"
    [] CaptureContinuity(d) = "compromised" -> "restore capture continuity"
    [] OTHER -> "capture loss must be excluded"

\* The identity of a derived event, interval and incident is its pair; that of a
\* stored event is its index.
Incident(d) ==
  LET ambiguous == CaptureContinuity(d) = "compromised"
      gap == IsGap(d[1], d[2])
  IN  [id |-> d,
       rule |-> IF gap THEN IF ambiguous THEN "rtp_sequence_gap_capture_ambiguous_v1"
                                         ELSE "rtp_sequence_gap_v1"
                ELSE IF ambiguous THEN "rtp_arrival_stall_capture_ambiguous_v1"
                                  ELSE "rtp_arrival_stall_v1",
       confidence |-> IF ambiguous THEN "low" ELSE IF gap THEN "high" ELSE "medium",
       start |-> stored[d[1]].at, end |-> stored[d[2]].at,
       missing |-> MissingPacketCount(d),
       confirmation |-> NetworkLossConfirmation(d),
       refs |-> {d} \cup {<<i>> : i \in CaptureHealth(d)}]

Incidents == {Incident(d) : d \in Discontinuities}

-----------------------------------------------------------------------------
Init ==
  /\ source = [number |-> 0, stream |-> 1, rate |-> 1, ts |-> FirstTimestamp]
  /\ network = {} /\ now = 0
  /\ tap = NewTap(1, 1, 0) /\ media = Idle /\ reporter = Idle
  /\ stored = <<>> /\ missed = {}
  /\ faults = 0 /\ reports = 0 /\ adapters = 1

Next ==
  \/ Lose \/ Delay \/ Datagram \/ Duplicate \/ DecodeError \/ RecordCaptureDrop
  \/ ObserveRtpPacket \/ CountObserved \/ ReportBegins \/ ReportHealth
  \/ NewAdapter \/ ForeignEvent

Spec == Init /\ [][Next]_vars

-----------------------------------------------------------------------------
(* Properties *)

\* Everything keeps its type: in particular what is stored of a packet fits the
\* widths of the RTP header, and its window's counters never fall below zero.
RtpTypeOK ==
  /\ source \in [number : 0 .. MaxPackets, stream : 1 .. MaxAdapters,
                 rate : 1 .. MaxAdapters, ts : 0 .. TimestampModulus - 1]
  /\ now \in Nat /\ faults \in 0 .. MaxFaults
  /\ \A f \in {"observed", "drops", "errors", "started"} : tap[f] \in Nat
  /\ tap.supported \in BOOLEAN
  /\ media.phase \in {"idle", "decoded", "stored"}
  /\ reporter.phase \in {"idle", "timed"}
  /\ \A i \in DOMAIN stored :
       CASE stored[i].name = "rtp.packet_arrived" -> stored[i].at <= now
         [] OTHER -> /\ stored[i].at - stored[i].duration >= 0
                     /\ stored[i].observed \in 0 .. Len(stored)

\* What really arrived of a stream, by time: the indices of its packets.  The next
\* definitions are of such a list.
Arrived(stream) ==
  ByTime({i \in DOMAIN stored : /\ stored[i].name = "rtp.packet_arrived"
                                /\ stored[i].stream = stream
                                /\ stored[i].number # None})
NumbersOf(a) == {stored[i].number : i \in ToSet(a)}
Jumps(a) == {stored[a[k + 1]].number - stored[a[k]].number : k \in 1 .. Len(a) - 1}

\* No two packets that follow each other are half the numbers apart; the next three
\* properties are of streams of which something arrived, with none such.
Unambiguous(a) ==
  \A j \in Jumps(a) : -SequenceModulus < 2 * j /\ 2 * j < SequenceModulus

\* _rtp_packet_discontinuity_evidence, of the discontinuities that it found in a
\* stream, and of what arrived of it: when packets arrive in order, the missing
\* packets of the incidents are exactly those that did not arrive between the first
\* and the last one, wherever the 16-bit number wraps and whatever other streams and
\* events the run holds.
LossIsCountedOnce(found, a) ==
  LET numbers == NumbersOf(a)
  IN  (\A j \in Jumps(a) : j > 0) =>
        MapThenSumSet(MissingPacketCount, found)
          = Cardinality((Min(numbers) .. Max(numbers)) \ numbers)

\* _rtp_packet_discontinuity_evidence: however packets are reordered and
\* repeated, one that never arrived is missing in some sequence gap, if a later
\* one arrived and the stream did not begin after it.
LossIsNeverHidden(found, a) ==
  LET numbers == NumbersOf(a)
  IN  \A n \in (stored[a[1]].number .. Max(numbers)) \ numbers :
        \E d \in found : /\ MissingPacketCount(d) > 0
                         /\ stored[d[1]].number < n /\ n < stored[d[2]].number

\* _rtp_packet_discontinuity_evidence: an arrival stall is a pair of consecutive
\* packets of one codec, late by the threshold in unwrapped media time, and every
\* such pair is one.  (A packet of the codec before the last change of the clock rate
\* that is delivered once more is stored with the new rate, and not judged here.)
StallsAreReal(found, a) ==
  \A k \in 1 .. Len(a) - 1 :
    LET p == a[k]
        c == a[k + 1]
    IN  stored[p].codec = stored[p].rate =>
          ((<<p, c>> \in found /\ MissingPacketCount(<<p, c>>) = 0)
            <=> /\ stored[c].number = stored[p].number + 1
                /\ stored[c].rate = stored[p].rate
                /\ stored[c].at - stored[p].at - MediaStep >= StallExcess)

WindowStart(i) == stored[i].at - stored[i].duration

\* What the capture missed since the lock of the report before and until the lock of
\* report i: by the times of the two, but for what was missed while either was
\* between its time and its lock.
MissedIn(i) ==
  {m \in missed :
     /\ m.stream = stored[i].stream
     /\ \/ m.during = stored[i].at
        \/ /\ WindowStart(i) < m.at /\ m.at <= stored[i].at
           /\ m.during # WindowStart(i)}

MissedWithin(d) ==
  {m \in missed : /\ m.stream = stored[d[2]].stream
                  /\ stored[d[1]].at < m.at /\ m.at < stored[d[2]].at}

\* The reports whose window holds both packets of a pair.
Spanning(d) ==
  {i \in HealthReports : /\ stored[i].stream = stored[d[2]].stream
                         /\ WindowStart(i) <= stored[d[1]].at
                         /\ stored[d[2]].at <= stored[i].at}

\* record_capture_drop, observe_datagram and report_health: what the capture dropped
\* or could not decode is counted in one window, that of the next report to take the
\* lock.
MissesAreCountedOnce ==
  \A i \in HealthReports : stored[i].drops + stored[i].errors = Cardinality(MissedIn(i))

\* report_health and _rtp_capture_health_for_packet_pair: an incident between two
\* packets of one window is doubtful if the capture missed anything in that window,
\* and only then; if it missed nothing, and counts its drops, the incident is the
\* network's, with its continuity verified.  It cites the report it was judged by.
IncidentsFollowTheCapture ==
  \A inc \in Incidents :
    /\ inc.confidence = "low" <=> \E i \in Spanning(inc.id) : MissedIn(i) # {}
    /\ inc.confirmation = "capture continuity verified"
         <=> \E i \in Spanning(inc.id) : MissedIn(i) = {} /\ stored[i].supported
    /\ {<<i>> : i \in Spanning(inc.id)} = inc.refs \ {inc.id}

\* The same: nothing that the capture missed between two packets of one window is
\* taken for a loss of the network, unless it was missed after the report before took
\* its time and before its lock.
CaptureLossIsNotTheNetworks ==
  \A inc \in Incidents : inc.confidence # "low" =>
    \A i \in Spanning(inc.id), m \in MissedWithin(inc.id) : m.during = WindowStart(i)

\* observe_datagram and report_health: every packet that is stored is counted in
\* exactly one window, though it is counted after it is stored and a report can
\* come in between.
PacketsAreCountedOnce ==
  adapters = 1 =>
    Cardinality({i \in DOMAIN stored : /\ stored[i].name = "rtp.packet_arrived"
                                       /\ stored[i].number # None})
      = MapThenSumSet(LAMBDA i : stored[i].observed, HealthReports)
          + tap.observed + (IF media.phase = "stored" THEN 1 ELSE 0)

\* What the timeline says of packets is what happened to them: losses, stalls, and
\* the windows they are counted in.
PacketEvidenceIsTrue ==
  LET discontinuities == Discontinuities
  IN  /\ RtpTypeOK
      /\ \A s \in 1 .. MaxAdapters :
           LET found == {d \in discontinuities : stored[d[1]].stream = s}
               arrived == Arrived(s)
           IN  (arrived # <<>> /\ Unambiguous(arrived)) =>
                 /\ LossIsNeverHidden(found, arrived)
                 /\ LossIsCountedOnce(found, arrived)
                 /\ StallsAreReal(found, arrived)
      /\ PacketsAreCountedOnce

=============================================================================
