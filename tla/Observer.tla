------------------------------ MODULE Observer ------------------------------
(***************************************************************************)
(* The delivery of observations: VoxBenchObserver queues them in memory,   *)
(* flush sends them in bounded batches through HttpObservationTransport,   *)
(* and POST /v1/observations stores each batch in the run.                 *)
(*                                                                         *)
(* The threads that observe and flush are arbitrary; ObservedCall          *)
(* restricts them to what a call session does.  The observations of a kind *)
(* are numbered in the order in which they are observed.                   *)
(*                                                                         *)
(* The control plane is one process on a Postgres repository: its handlers *)
(* run on one event loop without an await between get and save, so each is *)
(* one step.  Faults (at most MaxFaults) are lost requests, lost answers,  *)
(* requests that arrive after the client has given up, saves that fail,    *)
(* and restarts of the control plane.                                      *)
(***************************************************************************)
EXTENDS Naturals, Sequences, Functions

CONSTANTS
  Flushers,     \* threads that call flush
  Limit,        \* Limit[k]: OBSERVATION_BATCH_LIMITS
  Refused,      \* <<kind, number>> of observations the API refuses (unknown stage, ...)
  MaxItems,     \* MaxItems[k]: bound on the observations of kind k
  MaxPosts,     \* bound: points that come from no observer
  MaxFaults     \* bound on faults

\* Metrics, SIP events and RTP stats are stored as they come ("metric"), PCM
\* chunks are appended to the stage's WAV tap ("audio"), timeline events are
\* stored once per event_id ("event").
Kinds == {"metric", "audio", "event"}

ASSUME ObserverAssumption ==
  /\ Limit \in [Kinds -> Nat \ {0}]
  /\ MaxItems \in [Kinds -> Nat]
  /\ MaxPosts \in Nat
  /\ MaxFaults \in Nat

VARIABLES
  taken,      \* taken[k]: how many observations of kind k there have been
  pending,    \* pending[k]: the observer's list
  flush,      \* flush[f]: the call of flush in thread f
  late,       \* requests under way whose client has given up
  status,     \* the run's status
  rows,       \* the run's stored metrics (SIP and RTP points) and events
  buffer,     \* RunApiState.audio_buffers of the run, in memory
  wav,        \* the stage's WAV file
  drops,      \* how often the buffer of a running run was dropped
  faults

clientVars == <<taken, pending, flush>>
serverVars == <<status, rows, buffer, wav, drops>>
observerVars == <<clientVars, late, serverVars, faults>>

-----------------------------------------------------------------------------
Batch == [Kinds -> Seq(Nat)]
NoItems == [k \in Kinds |-> <<>>]

\* unsent is what the call has taken from the lists and the control plane has
\* not acknowledged yet.
Flush ==
  [pc : {"idle", "sending", "accepted", "refused"}, unsent : Batch]

IdleFlush == [pc |-> "idle", unsent |-> NoItems]

Least(m, n) == IF m <= n THEN m ELSE n

\* Faulty variant: everything in one batch.
FirstPartWhole(batch) == batch

\* The first of the bounded batches of a batch, and what the others hold.
FirstPart(batch) ==
  [k \in Kinds |-> SubSeq(batch[k], 1, Least(Limit[k], Len(batch[k])))]
OtherParts(batch) ==
  [k \in Kinds |-> SubSeq(batch[k], Limit[k] + 1, Len(batch[k]))]

Sending(f) == FirstPart(flush[f].unsent)

Fault ==
  /\ faults < MaxFaults
  /\ faults' = faults + 1

-----------------------------------------------------------------------------
(* The control plane *)

\* Faulty variant: batches are stored whatever the run's status.
AcceptsAnyStatus(batch) ==
  \A k \in Kinds : \A n \in Range(batch[k]) : <<k, n>> \notin Refused

\* Whether POST /v1/observations accepts a batch: all of it is validated
\* before any of it is stored.
Accepts(batch) ==
  /\ status = "running"
  /\ \A k \in Kinds : \A n \in Range(batch[k]) : <<k, n>> \notin Refused

\* The WAV file is written anew from the whole buffer.
WriteAudio(batch) ==
  IF batch["audio"] = <<>>
    THEN UNCHANGED <<buffer, wav>>
    ELSE /\ buffer' = buffer \o batch["audio"]
         /\ wav' = buffer'

\* Faulty variant: no look at the stored event ids.
NewEventsAll(batch) == batch["event"]

\* A sequence without the members that are in a set (SelectSeq, as a recursive
\* function so that its result can be proved about).
Without(seq, set) ==
  LET kept[i \in 0..Len(seq)] ==
        IF i = 0 THEN <<>>
        ELSE IF seq[i] \in set THEN kept[i - 1] ELSE Append(kept[i - 1], seq[i])
  IN  kept[Len(seq)]

\* Events whose id the run already has are left out.
NewEvents(batch) == Without(batch["event"], Range(rows["event"]))

SaveRows(batch) ==
  rows' = [rows EXCEPT !["metric"] = @ \o batch["metric"],
                       !["event"] = @ \o NewEvents(batch)]

\* A batch that is accepted and saved, or refused (400, 409).
Ingest(batch) ==
  IF Accepts(batch)
    THEN WriteAudio(batch) /\ SaveRows(batch) /\ UNCHANGED <<status, drops>>
    ELSE UNCHANGED serverVars

\* The save of an accepted batch fails and is rolled back (503); the audio has
\* been written.
IngestUnsaved(batch) ==
  /\ Accepts(batch)
  /\ WriteAudio(batch)
  /\ UNCHANGED <<status, rows, drops>>

\* A point that comes from no observer has this number.
Unnumbered == 0

\* What ending the run adds to its metrics: /fail a run_failed point.
EndPoints(end) == IF end = "failed" THEN <<Unnumbered>> ELSE <<>>

\* POST /runs/{id}/complete and /fail; both change nothing once the run has
\* ended.
EndRun(end) ==
  IF status = "running"
    THEN /\ status' = end
         /\ buffer' = <<>>
         /\ rows' = [rows EXCEPT !["metric"] = @ \o EndPoints(end)]
         /\ UNCHANGED <<wav, drops>>
    ELSE UNCHANGED serverVars

\* ... whose save fails (503): the buffers are deleted before it.
EndRunUnsaved ==
  /\ status = "running"
  /\ Fault
  /\ buffer' = <<>>
  /\ drops' = drops + 1
  /\ UNCHANGED <<status, rows, wav>>

\* POST /v1/sip-events and /v1/rtp-stats: a point that comes from no observer.
PostPoint ==
  /\ Len(SelectSeq(rows["metric"], LAMBDA n : n = Unnumbered)) < MaxPosts
  /\ rows' = [rows EXCEPT !["metric"] = Append(@, Unnumbered)]
  /\ UNCHANGED <<status, buffer, wav, drops, clientVars, late, faults>>

\* The control plane stops and starts again: its memory is gone.
Restart ==
  /\ Fault
  /\ drops' = drops + 1
  /\ buffer' = <<>>
  /\ UNCHANGED <<status, rows, wav, clientVars, late>>

-----------------------------------------------------------------------------
(* The observer *)

\* What one call of an observe method adds, under one lock: observe_metric,
\* observe_sip_event and observe_rtp_stats a point, observe_timeline_event,
\* observe_rtp_packet and observe_rtp_capture_health an event, and
\* observe_stage_audio metrics, with a PCM chunk if there is output to record
\* and an event if the signal jumps.
ObservedTogether ==
  {{"metric"}, {"event"}, {"metric", "event"}, {"metric", "audio"}, Kinds}

\* observe_*: one more observation of each of these kinds.
Observe(kinds) ==
  /\ taken' = [k \in Kinds |-> IF k \in kinds THEN taken[k] + 1 ELSE taken[k]]
  /\ pending' = [k \in Kinds |-> IF k \in kinds THEN Append(pending[k], taken[k] + 1)
                                                ELSE pending[k]]

\* The bounds leave room for these observations.
Room(kinds) == \A k \in kinds : taken[k] < MaxItems[k]

\* Faulty variant: the lists are not cleared.
LeftPendingAll == pending

\* The lists after flush has taken a copy of them.
LeftPending == NoItems

\* flush takes everything that is pending, under the lock.
BeginFlush(f) ==
  /\ flush[f].pc = "idle"
  /\ pending # NoItems
  /\ flush' = [flush EXCEPT ![f] = [pc |-> "sending", unsent |-> pending]]
  /\ pending' = LeftPending
  /\ UNCHANGED taken

\* The control plane handles the request of a batch.
Deliver(f) ==
  /\ flush[f].pc = "sending"
  /\ flush' = [flush EXCEPT ![f].pc = IF Accepts(Sending(f)) THEN "accepted"
                                                            ELSE "refused"]
  /\ Ingest(Sending(f))
  /\ UNCHANGED <<taken, pending, late, faults>>

\* ... and fails to save it.
DeliverUnsaved(f) ==
  /\ flush[f].pc = "sending"
  /\ flush' = [flush EXCEPT ![f].pc = "refused"]
  /\ IngestUnsaved(Sending(f))
  /\ Fault
  /\ UNCHANGED <<taken, pending, late>>

\* The last batch of a flush has been acknowledged.
LastPart(f) == OtherParts(flush[f].unsent) = NoItems

\* send returns: on to the next batch, or flush returns.
Acknowledge(f) ==
  /\ flush[f].pc = "accepted"
  /\ flush' = [flush EXCEPT ![f] =
                 IF LastPart(f) THEN IdleFlush
                 ELSE [pc |-> "sending", unsent |-> OtherParts(@.unsent)]]
  /\ UNCHANGED <<taken, pending>>

\* Faulty variant: the batch whose send failed is not restored.
RestoredOthers(f) ==
  [k \in Kinds |-> OtherParts(flush[f].unsent)[k] \o pending[k]]

\* Faulty variant: restored behind what has been observed meanwhile.
RestoredBehind(f) == [k \in Kinds |-> pending[k] \o flush[f].unsent[k]]

\* Everything unsent is put back in front of what has been observed meanwhile.
Restored(f) == [k \in Kinds |-> flush[f].unsent[k] \o pending[k]]

\* send raises, and so does flush.
Restore(f) ==
  /\ pending' = Restored(f)
  /\ flush' = [flush EXCEPT ![f] = IdleFlush]
  /\ UNCHANGED taken

\* send raises because the control plane has refused.
SendRefused(f) ==
  /\ flush[f].pc = "refused"
  /\ Restore(f)

\* send raises although the request was handled: the answer is lost, or comes
\* after the timeout.
AnswerLost(f) ==
  /\ flush[f].pc = "accepted"
  /\ Restore(f)
  /\ Fault
  /\ UNCHANGED <<late, serverVars>>

\* send raises and the request is lost or, after a timeout, arrives later.
RequestLost(f) ==
  /\ flush[f].pc = "sending"
  /\ Restore(f)
  /\ Fault
  /\ \/ UNCHANGED late
     \/ late' = late \cup {[id |-> faults, batch |-> Sending(f)]}
  /\ UNCHANGED serverVars

\* A request arrives that nobody waits for.
DeliverLate(m) ==
  /\ m \in late
  /\ late' = late \ {m}
  /\ Ingest(m.batch)
  /\ UNCHANGED <<clientVars, faults>>

-----------------------------------------------------------------------------
(* The observer with arbitrary threads *)

ObserverInit ==
  /\ taken = [k \in Kinds |-> 0]
  /\ pending = NoItems
  /\ flush = [f \in Flushers |-> IdleFlush]
  /\ late = {}
  /\ status = "running"
  /\ rows = [k \in {"metric", "event"} |-> <<>>]
  /\ buffer = <<>>
  /\ wav = <<>>
  /\ drops = 0
  /\ faults = 0

ObserverNext ==
  \/ \E kinds \in ObservedTogether :
       /\ Room(kinds)
       /\ Observe(kinds)
       /\ UNCHANGED <<flush, late, serverVars, faults>>
  \/ \E f \in Flushers :
       \/ BeginFlush(f) /\ UNCHANGED <<late, serverVars, faults>>
       \/ Deliver(f)
       \/ DeliverUnsaved(f)
       \/ Acknowledge(f) /\ UNCHANGED <<late, serverVars, faults>>
       \/ SendRefused(f) /\ UNCHANGED <<late, serverVars, faults>>
       \/ AnswerLost(f)
       \/ RequestLost(f)
  \/ \E m \in late : DeliverLate(m)
  \/ \E end \in {"completed", "failed"} :
       EndRun(end) /\ UNCHANGED <<clientVars, late, faults>>
  \/ EndRunUnsaved /\ UNCHANGED <<clientVars, late>>
  \/ PostPoint
  \/ Restart

ObserverSpec == ObserverInit /\ [][ObserverNext]_observerVars

-----------------------------------------------------------------------------
(* Properties *)

Stored(k) == IF k = "audio" THEN wav ELSE rows[k]

\* The lists, the calls of flush and the stored run have their shape, and no
\* request holds more than the API allows.
ObserverTypeOK ==
  /\ taken \in [Kinds -> Nat]
  /\ pending \in Batch
  /\ flush \in [Flushers -> Flush]
  /\ \A m \in late : m.batch \in Batch
  /\ \A m \in late, k \in Kinds : Len(m.batch[k]) <= Limit[k]
  /\ status \in {"running", "completed", "failed"}
  /\ rows \in [{"metric", "event"} -> Seq(Nat)]
  /\ buffer \in Seq(Nat) /\ wav \in Seq(Nat)
  /\ drops \in 0..MaxFaults /\ faults \in 0..MaxFaults

\* No observation disappears: it is in the observer's list, in a flush that
\* has not had its acknowledgement, or stored.  Only audio can disappear, when
\* the control plane restarts, or cannot save the end of the run, and then
\* writes the WAV file anew from what it receives afterwards.
NothingIsLost ==
  \A k \in Kinds : \A n \in 1..taken[k] :
    \/ n \in Range(pending[k])
    \/ \E f \in Flushers : n \in Range(flush[f].unsent[k])
    \/ n \in Range(Stored(k))
    \/ k = "audio" /\ drops > 0

Repeats(s) == \E i, j \in DOMAIN s : i # j /\ s[i] = s[j]

\* A retried or late batch never stores a timeline event twice, although the
\* control plane compares event ids only with those it has stored before.
EventsStoredOnce == ~Repeats(rows["event"])

\* Restoring after a failure never makes two entries of one observation: it is
\* in the observer's list or in one flush, once.
QueuedOnce ==
  \A k \in Kinds :
    /\ ~Repeats(pending[k])
    /\ \A f \in Flushers :
         /\ ~Repeats(flush[f].unsent[k])
         /\ Range(flush[f].unsent[k]) \cap Range(pending[k]) = {}
         /\ \A g \in Flushers \ {f} :
              Range(flush[f].unsent[k]) \cap Range(flush[g].unsent[k]) = {}

\* Observations exist once on their way through flushes that fail and are
\* repeated, and events once where they arrive.
DeliveredOnce == QueuedOnce /\ EventsStoredOnce

\* What has been verified stays: once a run has ended, no late, retried or new
\* batch changes its recording or its events, and no second end its status.
VerifiedRunStays ==
  [][status # "running" =>
       /\ status' = status
       /\ wav' = wav
       /\ rows'["event"] = rows["event"]]_observerVars

\* As docs/library-integration.md has it, completing a run makes it immutable.
CompletedRunIsImmutable ==
  [][status = "completed" => rows' = rows /\ status' = status]_observerVars

=============================================================================
