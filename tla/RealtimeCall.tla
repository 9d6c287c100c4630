---------------------------- MODULE RealtimeCall ----------------------------
(***************************************************************************)
(* One call of the realtime bridge: the tasks that share the fields of a   *)
(* RealtimeCallSession on one event loop.                                  *)
(*                                                                         *)
(*   producer  _produce_provider_audio: cuts the provider's audio into     *)
(*             packets, queues them and handles barge-in                   *)
(*   pump      _pump_output: writes a packet every 20 ms and keeps the     *)
(*             marks of what has been played                               *)
(*   handler   _handle_connection: reads the caller's frames, and ends the *)
(*             other two and the session                                   *)
(*                                                                         *)
(* A step goes from one suspension of a task to the next.  The lock of the *)
(* PlaybackBuffer is never held over a suspension, so put, get of a queued *)
(* frame, drain and close are part of the step that calls them.            *)
(*                                                                         *)
(* Audio is counted in units, Packet of them to a packet of 20 ms, and a   *)
(* unit is named by the provider's message it came with, by its ordinal in *)
(* chunks, and by its place in that message, so that no two of them are    *)
(* the same.  Positions (audio_end_ms) are in units too.                   *)
(***************************************************************************)
EXTENDS RealtimeProvider, FiniteSets, SequencesExt

CONSTANTS
  ProviderSessions,   \* the sessions a call may have been connected to
  Packet,             \* units in a packet
  BufferSize,         \* PlaybackBuffer.max_frames
  EvidenceLimit,      \* BARGE_IN_FRAME_EVIDENCE_LIMIT
  MaxMessages         \* messages of the provider (bound)

ASSUME CallAssumption ==
  /\ ProviderSessions \subseteq Sessions
  /\ {Packet, BufferSize} \subseteq Nat \ {0}
  /\ EvidenceLimit \in Nat \ {0, 1}   \* 32; with 1 the whole list is its tail
  /\ MaxMessages \in Nat

VARIABLES
  provider,   \* the provider's session, its service and _response_active
  producer,   \* the producer task
  queue,      \* PlaybackBuffer._frames, by ordinal
  pump,       \* the pump task
  session,    \* the fields of the session about positions and items
  playback,   \* the fields about the playback burst that is active
  speech,     \* _active_caller_speech_alias, as the number of its barge-in, and
              \* those of the speech that was started
  handler,    \* the connection handler
  chunks,     \* history: the provider's audio messages
  frames,     \* history: the packets that were queued, and what became of them
  bargeIns,   \* history: what barge-in has recorded
  bursts,     \* history: the playback bursts that were stopped
  stopped,    \* history: the caller speech that was stopped
  dropMetric  \* the sum of the metric output_frames_dropped

taskVars == <<provider, producer, pump, handler>>
stateVars == <<queue, session, playback, speech>>
historyVars == <<chunks, frames, bargeIns, bursts, stopped, dropMetric>>
vars == <<taskVars, stateVars, historyVars>>

None == [item |-> NoItem, end |-> 0]
Positions == [item : {NoItem} \cup Items, end : Nat]
NoFrame == 0

\* The number of barge-ins that have been completed.
Epoch == Len(bargeIns)

\* The producer has not ended; once it has, the PlaybackBuffer is closed.
Producing == producer.pc \in {"receive", "interrupt", "truncate"}

-----------------------------------------------------------------------------
(* Playback bursts and caller speech: the events of the timeline *)

\* Faulty variant: the next burst goes on counting.
NoBurstYet(p) == [p EXCEPT !.active = FALSE, !.idle = FALSE]

\* _end_assistant_playback: the stop event of the active burst.
NoBurst(p) == [p EXCEPT !.active = FALSE, !.written = 0, !.idle = FALSE]
StopEvent(p, reason) ==
  IF p.active THEN <<[written |-> p.written, reason |-> reason]>> ELSE <<>>

EndAssistantPlayback(reason) ==
  /\ bursts' = bursts \o StopEvent(playback, reason)
  /\ playback' = NoBurst(playback)

\* Faulty variant: speech that is superseded is stopped by what comes after it.
EndedSpeechLate == stopped

\* _end_caller_speech.
EndedSpeech ==
  IF speech.active = 0 THEN stopped ELSE Append(stopped, speech.active)

-----------------------------------------------------------------------------
(* The producer: audio *)

\* The nr-th unit of a message's audio.
Unit(chunk, nr) == [chunk |-> chunk, nr |-> nr]

\* What is buffered for the next packet, and the accounts of its sources.
NothingBuffered == [units |-> <<>>, sources |-> <<>>]

Repeat(Op(_), n, s) ==
  LET done[i \in 0..n] == IF i = 0 THEN s ELSE Op(done[i - 1])
  IN  done[n]

\* _consume_buffered_sources, a unit at a time: the chunks that a packet is
\* taken from, counted down in the order in which they came.
ConsumeUnit(c) ==
  [window |-> c.window \cup {Head(c.rest).chunk},
   rest   |-> IF Head(c.rest).left = 1 THEN Tail(c.rest)
              ELSE [c.rest EXCEPT ![1].left = @ - 1]]

\* Faulty variant: the account of the first source is closed with the packet.
ConsumeSource(sources) ==
  [window |-> {Head(sources).chunk}, rest |-> Tail(sources)]

ConsumeSources(sources) ==
  Repeat(ConsumeUnit, Packet, [window |-> {}, rest |-> sources])

\* _next_playback_position, for a packet of the current item.
NextPosition(s) ==
  IF s.item = NoItem THEN None
  ELSE [item |-> s.item,
        end |-> Packet + IF s.enqueued.item = s.item THEN s.enqueued.end ELSE 0]

\* Faulty variant: a full queue refuses the new packet.
PutOrRefuse(q, f) == IF Len(q) >= BufferSize THEN q ELSE Append(q, f)

\* Faulty variant: a queue without a limit.
PutAlways(q, f) == Append(q, f)

\* PlaybackBuffer.put: a full queue drops its oldest packet.
PutFrame(q, f) == Append(IF Len(q) >= BufferSize THEN Tail(q) ELSE q, f)

\* The producer cuts a packet from its buffer and queues it.
CutPacket(s) ==
  LET taken == ConsumeSources(s.buffered.sources)
      position == NextPosition(s.session)
      full == Len(s.queue) >= BufferSize
      kept == IF full THEN [s.frames EXCEPT ![Head(s.queue)].fate = "dropped"]
                      ELSE s.frames
  IN  [buffered |-> [units |-> SubSeq(s.buffered.units, Packet + 1,
                                      Len(s.buffered.units)),
                     sources |-> taken.rest],
       session |-> IF position = None THEN s.session
                   ELSE [s.session EXCEPT !.enqueued = position],
       frames |-> Append(kept,
                    [position |-> position, window |-> taken.window,
                     units |-> SubSeq(s.buffered.units, 1, Packet),
                     fate |-> "queued", epoch |-> 0]),
       queue |-> PutFrame(s.queue, Len(s.frames) + 1),
       dropMetric |-> s.dropMetric + IF full THEN 1 ELSE 0]

\* Faulty variant: a packet may hold the end of one answer and the beginning
\* of the next.
ItemSwitchedKeeping(item) ==
  [buffered |-> producer.buffered,
   session |-> IF item = session.item THEN session
               ELSE [session EXCEPT !.item = item, !.enqueued = None,
                                    !.resampler = 0]]

\* Audio of another item than the one before: nothing of that one is left in
\* the packet buffer, the positions and the resampler.
ItemSwitched(item) ==
  IF item = session.item
  THEN [buffered |-> producer.buffered, session |-> session]
  ELSE [buffered |-> NothingBuffered,
        session |-> [session EXCEPT !.item = item, !.enqueued = None,
                                    !.resampler = 0]]

\* The resampler goes on from the chunks since it was made; resampler is the
\* first of them.
Resampled(s, chunk) == IF s.resampler = 0 THEN [s EXCEPT !.resampler = chunk] ELSE s

ProduceAudio(message) ==
  LET chunk == Len(chunks) + 1
      switched == ItemSwitched(message.item)
      before == switched.buffered
      full == (Len(before.units) + message.size) \div Packet
      state == Repeat(CutPacket, full,
                 [buffered |->
                    IF message.size = 0 THEN before
                    ELSE [units |-> before.units \o
                                    [i \in 1..message.size |-> Unit(chunk, i)],
                          sources |-> Append(before.sources,
                             [chunk |-> chunk, left |-> message.size])],
                  session |-> Resampled(switched.session, chunk),
                  frames |-> frames, queue |-> queue,
                  dropMetric |-> dropMetric])
  IN  /\ message.type = "audio"
      /\ chunks' = Append(chunks, [item |-> message.item, epoch |-> Epoch,
                                   size |-> message.size])
      /\ producer' = [producer EXCEPT !.inbox = Tail(@),
                                      !.buffered = state.buffered]
      /\ session' = state.session
      /\ queue' = state.queue
      /\ frames' = state.frames
      /\ dropMetric' = state.dropMetric
      /\ UNCHANGED <<pump, handler, playback, speech, bargeIns, bursts, stopped>>

-----------------------------------------------------------------------------
(* The producer: barge-in *)

\* Faulty variant: the position of what was queued counts as heard.
QueuedPositions == {session.enqueued}

\* _effective_playback_position: a packet under way counts as far as the time
\* since it was started goes.
EffectivePositions ==
  LET now == session.inflight
      start == IF session.played.item = now.item THEN session.played.end
               ELSE now.end - Packet
      upTo(e) == IF start + e < now.end THEN start + e ELSE now.end
  IN  IF now = None THEN {session.played}
      ELSE {[item |-> now.item, end |-> upTo(e)] : e \in 0..now.end}

\* The position to truncate at: zero for an answer not yet heard.
PlaybackPositions ==
  {IF session.item # NoItem /\ p.item # session.item
   THEN [item |-> session.item, end |-> 0] ELSE p : p \in EffectivePositions}

\* _bounded_evidence: the first and the last of what is too much to keep.
BoundedEvidence(values, limit) ==
  LET head == (limit + 1) \div 2
      tail == limit - head
  IN  IF Len(values) <= limit THEN values
      ELSE SubSeq(values, 1, head) \o
           (IF tail = 0 THEN values
            ELSE SubSeq(values, Len(values) - tail + 1, Len(values)))

\* What barge-in leaves of the session's fields.
ForgottenPositions ==
  [session EXCEPT !.item = NoItem, !.enqueued = None, !.played = None,
                  !.inflight = None, !.resampler = 0]

\* Faulty variant: the beginning of a packet outlives the barge-in.
PartialPacketKept == producer.buffered

\* The packet buffer after barge-in.
PartialPacketCleared == NothingBuffered

\* Faulty variant: the packet that was being filled is left out.
QueuedSources == UNION {frames[f].window : f \in Range(queue)}

\* discarded_source_ordinals: the chunks that the queue and the packet buffer hold
\* audio of.
DiscardedSources ==
  (UNION {frames[f].window : f \in Range(queue)})
    \cup {source.chunk : source \in Range(producer.buffered.sources)}

\* Faulty variant: every packet of the queue is evidence.
EvidenceOfAll(position, truncated) ==
  [position |-> position, truncated |-> truncated, recorded |-> queue,
   omitted |-> 0, sources |-> DiscardedSources, item |-> session.item]

\* _observe_barge_in_audio_evidence: the events of the packets that are
\* discarded, bounded, and what is said of all of them.
BargeInEvidence(position, truncated) ==
  LET recorded == BoundedEvidence(queue, EvidenceLimit)
  IN  [position  |-> position,
       truncated |-> truncated,
       recorded  |-> recorded,
       omitted   |-> Len(queue) - Len(recorded),
       sources   |-> DiscardedSources,
       item      |-> session.item]

\* The last part of barge-in, after truncate: the fields and the packet buffer
\* are reset, the queue is drained, and what was discarded is recorded.
FinishBargeIn(position, truncated) ==
  /\ EndAssistantPlayback("barge_in")
  /\ session' = ForgottenPositions
  /\ queue' = <<>>
  /\ frames' = [f \in DOMAIN frames |->
                  IF f \in Range(queue)
                  THEN [frames[f] EXCEPT !.fate = "discarded"] ELSE frames[f]]
  /\ dropMetric' = dropMetric + Len(queue)
  /\ bargeIns' = Append(bargeIns, BargeInEvidence(position, truncated))

\* After interrupt: truncate the answer at the position heard, or, if there is
\* none or the provider has no such request, go on at once.
TruncateThenFinish(inbox, sequence) ==
  \E position \in PlaybackPositions :
    LET sends == position # None /\ TruncateSends(provider.session)
    IN  \/ /\ sends
           /\ producer' = [producer EXCEPT !.pc = "truncate", !.inbox = inbox,
                             !.sequence = sequence, !.position = position]
           /\ UNCHANGED <<queue, session, playback, frames, bargeIns, bursts,
                          dropMetric>>
        \/ /\ ~sends
           /\ producer' = [producer EXCEPT !.pc = "receive", !.inbox = inbox,
                             !.sequence = sequence,
                             !.buffered = PartialPacketCleared]
           /\ FinishBargeIn(position, FALSE)

\* input_speech_started or interrupted.
BeginBargeIn(message) ==
  LET started == message.type = "input_speech_started"
      sequence == producer.sequence + 1
      asks == /\ started
              /\ ~provider.session.auto
              /\ InterruptSends(provider.session, provider.active)
  IN  /\ message.type \in {"input_speech_started", "interrupted"}
      /\ speech' = IF started
                   THEN [active |-> sequence, started |-> speech.started \cup {sequence}]
                   ELSE speech
      /\ stopped' = IF started THEN EndedSpeech ELSE stopped
      /\ \/ /\ asks
            /\ producer' = [producer EXCEPT !.pc = "interrupt",
                              !.inbox = Tail(@), !.sequence = sequence]
            /\ UNCHANGED <<queue, session, playback, frames, bargeIns, bursts,
                           dropMetric>>
         \/ /\ ~asks
            /\ TruncateThenFinish(Tail(producer.inbox), sequence)
      /\ UNCHANGED <<provider, pump, handler, chunks>>

\* The awaited request has been sent.
InterruptSent ==
  /\ producer.pc = "interrupt"
  /\ handler.pc # "closed"
  /\ provider' = [provider EXCEPT !.active = FALSE]
  /\ TruncateThenFinish(producer.inbox, producer.sequence)
  /\ UNCHANGED <<pump, handler, speech, chunks, stopped>>

TruncateSent ==
  /\ producer.pc = "truncate"
  /\ handler.pc # "closed"
  /\ producer' = [producer EXCEPT !.pc = "receive", !.position = None,
                                  !.buffered = PartialPacketCleared]
  /\ FinishBargeIn(producer.position, TRUE)
  /\ UNCHANGED <<provider, pump, handler, speech, chunks, stopped>>

-----------------------------------------------------------------------------
(* The producer: other messages, and the end of the stream *)

\* A message comes from the provider.  The dry run's session has one at most.
Receive ==
  /\ producer.pc = "receive"
  /\ producer.inbox = <<>>
  /\ handler.pc # "closed"
  /\ provider.messages < IF provider.session = DryRun THEN 1 ELSE MaxMessages
  /\ \E inbox \in Yields(provider.session, provider.item) :
       /\ producer' = [producer EXCEPT !.inbox = inbox]
       /\ provider' =
            [provider EXCEPT
               !.messages = @ + 1,
               !.item = IF inbox # <<>> /\ Head(inbox).item # NoItem
                        THEN Head(inbox).item ELSE @,
               !.active = IF inbox = <<>> THEN @
                          ELSE ResponseActive(@, Head(inbox))]
  /\ UNCHANGED <<pump, handler, stateVars, historyVars>>

\* input_speech_stopped ends the caller's speech; the events of a response are
\* counted by a metric only.
HandleEvent(message) ==
  /\ message.type \in {"input_speech_stopped", "response_started", "response_done"}
  /\ IF message.type = "input_speech_stopped"
     THEN speech' = [speech EXCEPT !.active = 0] /\ stopped' = EndedSpeech
     ELSE UNCHANGED <<speech, stopped>>
  /\ producer' = [producer EXCEPT !.inbox = Tail(@)]
  /\ UNCHANGED <<provider, pump, handler, queue, session, playback, chunks,
                 frames, bargeIns, bursts, dropMetric>>

HandleMessage ==
  /\ producer.pc = "receive"
  /\ producer.inbox # <<>>
  /\ LET message == Head(producer.inbox)
     IN  \/ ProduceAudio(message) /\ UNCHANGED provider
         \/ BeginBargeIn(message)
         \/ HandleEvent(message)

ProducerEnds(pc) ==
  /\ producer' = [producer EXCEPT !.pc = pc]
  /\ UNCHANGED <<provider, pump, handler, stateVars, historyVars>>

\* The stream ends.  For a persistent one that is ProviderStreamEndedError.
StreamEnds ==
  /\ producer.pc = "receive"
  /\ producer.inbox = <<>>
  /\ ProducerEnds(IF provider.session.persistent THEN "ended" ELSE "done")

\* The stream, or a request that is being sent, raises: ProviderSessionError.
StreamFails ==
  /\ Producing
  /\ producer.pc = "receive" => producer.inbox = <<>>
  /\ ProducerEnds("failed")

-----------------------------------------------------------------------------
(* The pump *)

\* A packet is taken from the queue and written to the caller's socket, in one
\* step; the pump then waits for the socket to drain.
PumpWrites ==
  /\ pump.pc = "get"
  /\ queue # <<>>
  /\ pump' = [pc |-> "drain", frame |-> Head(queue)]
  /\ queue' = Tail(queue)
  /\ frames' = [frames EXCEPT ![Head(queue)].fate = "written",
                              ![Head(queue)].epoch = Epoch]
  /\ UNCHANGED <<provider, producer, handler, session, playback, speech, chunks,
                 bargeIns, bursts, stopped, dropMetric>>

\* mark_output_started: a gap longer than the last packet ends the burst; a
\* packet without a burst starts one.
Bursts(gap) ==
  IF gap THEN NoBurst(playback) ELSE playback

MarkOutputStarted ==
  /\ pump.pc = "drain"
  /\ \E gap \in {FALSE, playback.active /\ playback.idle} :
       /\ bursts' = IF gap THEN bursts \o StopEvent(playback, "media_gap") ELSE bursts
       /\ playback' = [Bursts(gap) EXCEPT !.active = TRUE, !.written = @ + 1]
  /\ LET position == frames[pump.frame].position
     IN  session' = IF position = None THEN session
                    ELSE [session EXCEPT !.inflight = position]
  /\ pump' = [pump EXCEPT !.pc = "sleep"]
  /\ UNCHANGED <<provider, producer, handler, queue, speech, chunks, frames,
                 bargeIns, stopped, dropMetric>>

\* mark_output_played: only a packet of the current item moves the position.
PlayedPosition(position) ==
  IF position = None \/ session.item = NoItem \/ position.item # session.item
  THEN session
  ELSE [session EXCEPT !.played = position,
                       !.inflight = IF @ = position THEN None ELSE @]

MarkOutputPlayed ==
  /\ pump.pc = "sleep"
  /\ session' = PlayedPosition(frames[pump.frame].position)
  /\ playback' = [playback EXCEPT !.idle = playback.active]
  /\ pump' = [pc |-> "get", frame |-> NoFrame]
  /\ UNCHANGED <<provider, producer, handler, queue, speech, historyVars>>

\* The queue is closed and empty.  An exception of the producer leaves the pump
\* before mark_output_ended.
PumpEnds ==
  /\ pump.pc = "get"
  /\ queue = <<>>
  /\ ~Producing
  /\ pump' = [pump EXCEPT !.pc = producer.pc]
  /\ IF producer.pc = "done" THEN EndAssistantPlayback("stream_ended")
                             ELSE UNCHANGED <<playback, bursts>>
  /\ UNCHANGED <<provider, producer, handler, queue, session, speech, chunks,
                 frames, bargeIns, stopped, dropMetric>>

\* The caller's socket breaks while it drains.
PumpBreaks ==
  /\ pump.pc = "drain"
  /\ pump' = [pump EXCEPT !.pc = "broken"]
  /\ UNCHANGED <<provider, producer, handler, stateVars, historyVars>>

PumpStep == PumpWrites \/ MarkOutputStarted \/ MarkOutputPlayed \/ PumpEnds

-----------------------------------------------------------------------------
(* The handler *)

\* Faulty variant: a pump that came to its end is not noticed.
PumpRaised == pump.pc \in {"ended", "failed", "broken"}

PumpDone == pump.pc \in {"done", "ended", "failed", "broken"}

\* The failure alias that the end of the pump stands for.
PumpAlias ==
  CASE pump.pc = "ended" -> "provider-stream-ended"
    [] pump.pc = "failed" -> "provider-session-error"
    [] pump.pc = "broken" -> "realtime-bridge-error"
    [] OTHER -> "none"

\* The loop is left.
LeaveLoop(alias) ==
  /\ handler.pc = "reading"
  /\ handler' = [pc |-> "stopping", alias |-> alias]
  /\ UNCHANGED <<provider, producer, pump, stateVars, historyVars>>

\* After each of the caller's frames the handler looks whether the pump has
\* ended.  (Frames it forwards and digits it observes change nothing here.)
NoticePump == PumpDone /\ LeaveLoop(PumpAlias)

\* The caller hangs up, sends an error or a malformed frame.
CallerLeaves == LeaveLoop("none")

\* The socket breaks in the middle of a frame.
CallerBreaks == LeaveLoop("realtime-bridge-error")

\* Forwarding a frame to the provider fails.
SendAudioFails == LeaveLoop("provider-session-error")

\* Faulty variant: the end of the pump is seen by the loop alone.
AliasOfLoop(alias) == alias

\* The alias of a pump that had ended by itself, unless there is one already.
AliasAfterPump(alias) == IF alias = "none" THEN PumpAlias ELSE alias

\* The pump is cancelled, if it still runs, and awaited; close begins.  A pump
\* cancelled in get takes the producer along: it waits inside the generator
\* whose finally cancels the producer.
StopPump ==
  /\ handler.pc = "stopping"
  /\ handler' = [handler EXCEPT !.pc = "closing", !.alias = AliasAfterPump(@)]
  /\ pump' = IF PumpDone THEN pump ELSE [pump EXCEPT !.pc = "cancelled"]
  /\ producer' = IF pump.pc = "get" /\ Producing
                 THEN [producer EXCEPT !.pc = "cancelled"] ELSE producer
  /\ UNCHANGED <<provider, stateVars, historyVars>>

\* A pump cancelled elsewhere drops the generator: the event loop closes it, and
\* only that cancels the producer.
FinaliseGenerator ==
  /\ pump.pc = "cancelled"
  /\ Producing
  /\ ProducerEnds("cancelled")

\* The provider's session has been closed.  That takes a round trip on the
\* network, in which the event loop gets to the generator and to messages that
\* had arrived.  Speech and playback end.
ProviderClosed ==
  /\ handler.pc = "closing"
  /\ producer.inbox = <<>> \/ ~Producing
  /\ pump.pc = "cancelled" => ~Producing
  /\ \E alias \in {handler.alias,
                   IF handler.alias = "none" THEN "provider-close-error"
                                             ELSE handler.alias} :
       handler' = [handler EXCEPT !.pc = "closed", !.alias = alias]
  /\ speech' = [speech EXCEPT !.active = 0]
  /\ stopped' = EndedSpeech
  /\ EndAssistantPlayback("call_closed")
  /\ UNCHANGED <<provider, producer, pump, queue, session, chunks, frames,
                 bargeIns, dropMetric>>

-----------------------------------------------------------------------------
Init ==
  /\ \E s \in ProviderSessions :
       provider = [session |-> s, messages |-> 0, item |-> NoItem,
                   active |-> FALSE]
  /\ producer = [pc |-> "receive", inbox |-> <<>>, buffered |-> NothingBuffered,
                 sequence |-> 0, position |-> None]
  /\ queue = <<>>
  /\ pump = [pc |-> "get", frame |-> NoFrame]
  /\ session = [item |-> NoItem, enqueued |-> None, played |-> None,
                inflight |-> None, resampler |-> 0]
  /\ playback = [active |-> FALSE, written |-> 0, idle |-> FALSE]
  /\ speech = [active |-> 0, started |-> {}]
  /\ handler = [pc |-> "reading", alias |-> "none"]
  /\ chunks = <<>>
  /\ frames = <<>>
  /\ bargeIns = <<>>
  /\ bursts = <<>>
  /\ stopped = <<>>
  /\ dropMetric = 0

ProducerStep == HandleMessage \/ InterruptSent \/ TruncateSent

HandlerStep == StopPump \/ FinaliseGenerator \/ ProviderClosed

Next ==
  \/ Receive \/ ProducerStep \/ StreamEnds \/ StreamFails
  \/ PumpStep \/ PumpBreaks
  \/ NoticePump \/ CallerLeaves \/ CallerBreaks \/ SendAudioFails
  \/ HandlerStep

Spec == Init /\ [][Next]_vars

\* The tasks of the event loop go on when they can, requests to the provider
\* end, and the caller's telephone sends a frame every 20 ms, so that the
\* handler goes round its loop.  Nobody has to hang up or to end the stream.
Fairness ==
  /\ WF_vars(ProducerStep)
  /\ WF_vars(PumpStep)
  /\ WF_vars(NoticePump)
  /\ WF_vars(HandlerStep)

LiveSpec == Spec /\ Fairness

-----------------------------------------------------------------------------
(* Properties *)

\* Every variable has its type.
RealtimeTypeOK ==
  /\ provider \in [session : ProviderSessions, messages : Nat,
                   item : {NoItem} \cup Items, active : BOOLEAN]
  /\ producer.pc \in {"receive", "interrupt", "truncate", "done", "ended",
                      "failed", "cancelled"}
  /\ producer.position \in Positions
  /\ Range(producer.inbox) \subseteq Messages
  /\ Range(queue) \subseteq DOMAIN frames
  /\ Len(queue) <= BufferSize
  /\ pump.pc \in {"get", "drain", "sleep", "done", "ended", "failed", "broken",
                  "cancelled"}
  /\ pump.frame \in {NoFrame} \cup DOMAIN frames
  /\ {session.enqueued, session.played, session.inflight} \subseteq Positions
  /\ playback \in [active : BOOLEAN, written : Nat, idle : BOOLEAN]
  /\ speech.active \in 0..producer.sequence
  /\ handler.pc \in {"reading", "stopping", "closing", "closed"}

\* The evidence of a packet names the provider's messages that its audio came
\* with, no more and no fewer, and the accounts of the buffered sources are those
\* of the audio that is buffered, the rest of each message, in the order in which
\* they came (_consume_buffered_sources).
SourcesMatchAudio ==
  LET buffered == producer.buffered
      Rest(source) == LET size == chunks[source.chunk].size
                      IN  {Unit(source.chunk, nr) : nr \in (size - source.left + 1)..size}
  IN  /\ \A f \in DOMAIN frames :
           frames[f].window = {unit.chunk : unit \in Range(frames[f].units)}
      /\ Range(buffered.units) = UNION {Rest(source) : source \in Range(buffered.sources)}
      /\ \A i, j \in DOMAIN buffered.sources :
           i < j => buffered.sources[i].chunk < buffered.sources[j].chunk

\* Unit a of the provider's audio is before unit b.
Precedes(a, b) == a.chunk < b.chunk \/ (a.chunk = b.chunk /\ a.nr < b.nr)

\* Packets hold the provider's audio in its order, and no unit of it twice, however
\* it is cut, dropped and discarded; what is buffered comes after all of them.
AudioIsInOrder ==
  LET buffered == producer.buffered.units
  IN  /\ \A f, g \in DOMAIN frames : f <= g =>
           \A i \in DOMAIN frames[f].units, j \in DOMAIN frames[g].units :
             f < g \/ i < j => Precedes(frames[f].units[i], frames[g].units[j])
      /\ \A f \in DOMAIN frames :
           \A a \in Range(frames[f].units), b \in Range(buffered) : Precedes(a, b)
      /\ \A i, j \in DOMAIN buffered : i < j => Precedes(buffered[i], buffered[j])

\* No packet mixes two answers of the provider, or audio from before and after a
\* barge-in, in the packet buffer or through the memory of the resampler.
AudioNeverMixes ==
  LET Together(S) == \A c, d \in S : /\ chunks[c].item = chunks[d].item
                                     /\ chunks[c].epoch = chunks[d].epoch
      Sources(units) == {unit.chunk : unit \in Range(units)}
  IN  /\ \A f \in DOMAIN frames : Together(Sources(frames[f].units))
      /\ Together(Sources(producer.buffered.units) \cup ({session.resampler} \ {0}))

\* Once barge-in is completed the caller hears nothing of the audio that had
\* arrived before, queued or not (the packet under way at that moment is already
\* written).
InterruptedAudioIsSilent ==
  \A f \in DOMAIN frames :
    frames[f].fate = "written" =>
      \A unit \in Range(frames[f].units) : chunks[unit.chunk].epoch = frames[f].epoch

\* Each packet is queued, written, or counted by output_frames_dropped, once,
\* and written in the order in which it was queued.
FramesAreAccountedFor ==
  LET Fate(fate) == {f \in DOMAIN frames : frames[f].fate = fate}
  IN  /\ Fate("queued") = Range(queue)
      /\ Cardinality(Range(queue)) = Len(queue)
      /\ dropMetric = Cardinality(Fate("dropped") \cup Fate("discarded"))
      /\ \A f \in Fate("written"), g \in Fate("queued") : f < g

\* The bursts of the timeline hold all audio that was written, except a packet
\* that is still draining or was when the call ended: written_audio_ms is the
\* time of the PCM written to Asterisk, whatever ended the bursts.
BurstsHoldWhatWasWritten ==
  LET written == Cardinality({f \in DOMAIN frames : frames[f].fate = "written"})
      inBursts == UNION {{b} \X (1..bursts[b].written) : b \in DOMAIN bursts}
      counted == Cardinality(inBursts) + playback.written
  IN  counted \in {written, written - 1}
      /\ (pump.pc \in {"get", "sleep"} => counted = written)
      /\ \A b \in DOMAIN bursts : bursts[b].written > 0

\* Evidence of discarded packets names only packets of the queue, each once, and
\* says how many it leaves out.
EvidenceIsOfDiscarded ==
  \A b \in DOMAIN bargeIns :
    LET recorded == bargeIns[b].recorded
    IN  /\ Cardinality(Range(recorded)) = Len(recorded)
        /\ \A i \in DOMAIN recorded : frames[recorded[i]].fate = "discarded"
        /\ bargeIns[b].omitted >= 0
        /\ Len(recorded) <= EvidenceLimit

\* The chunks that barge-in reports as discarded are those the caller has not
\* heard in full: a unit of each of them was neither written nor dropped before,
\* and of the answer that is interrupted no such chunk is missing.
DiscardedChunksAreUnheard ==
  LET Gone(unit) == \E f \in DOMAIN frames : /\ frames[f].fate \in {"written", "dropped"}
                                             /\ unit \in Range(frames[f].units)
      Short(c) == \E nr \in 1..chunks[c].size : ~Gone(Unit(c, nr))
  IN  \A b \in DOMAIN bargeIns :
        LET short == {c \in DOMAIN chunks : chunks[c].epoch = b - 1 /\ Short(c)}
        IN  /\ bargeIns[b].sources \subseteq short
            /\ {c \in short : chunks[c].item = bargeIns[b].item}
                 \subseteq bargeIns[b].sources

\* An answer is truncated at most at the end of the last of its packets that was
\* written to the caller, although packets are written, played and dropped while
\* the request is on its way.
TruncatedWithinHeard ==
  \A b \in DOMAIN bargeIns :
    LET p == bargeIns[b].position
    IN  bargeIns[b].truncated /\ p.end > 0 =>
          \E f \in DOMAIN frames :
            /\ frames[f].fate = "written"
            /\ frames[f].position.item = p.item
            /\ frames[f].position.end >= p.end

\* Every speech of the caller that was started is open or was stopped, once,
\* however barge-ins, stops and the end of the call meet; and a call that is
\* over has no open speech and no open burst on its timeline.
TimelineIsClosed ==
  /\ Cardinality(Range(stopped)) = Len(stopped)
  /\ speech.started \ Range(stopped) = {speech.active} \ {0}
  /\ handler.pc = "closed" => ~playback.active /\ speech.active = 0

\* If the pump has ended because of the provider, the run fails, whoever
\* notices it: the loop, or the end of the call.
PumpFailureFailsRun ==
  handler.pc = "closed" /\ pump.pc \in {"ended", "failed", "broken"} =>
    handler.alias # "none"

\* When the provider is gone the call comes to its end, after the queue has been
\* played.
StreamEndEndsCall ==
  producer.pc \in {"done", "ended", "failed"} ~> handler.pc = "closed"

\* What the tasks of a call agree on about its audio, wherever each of them is
\* suspended: what a packet consists of, what became of it, and what the timeline
\* says was played and spoken.
PlaybackInv ==
  /\ RealtimeTypeOK
  /\ SourcesMatchAudio
  /\ AudioIsInOrder
  /\ AudioNeverMixes
  /\ FramesAreAccountedFor
  /\ BurstsHoldWhatWasWritten
  /\ TimelineIsClosed

\* What barge-in promises, whatever the pump does while it is under way: silence,
\* evidence of exactly what was not heard, and no truncation beyond what was.
BargeInInv ==
  /\ InterruptedAudioIsSilent
  /\ DiscardedChunksAreUnheard
  /\ EvidenceIsOfDiscarded
  /\ TruncatedWithinHeard

=============================================================================
