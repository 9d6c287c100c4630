-------------------------- MODULE RealtimeProvider --------------------------
(***************************************************************************)
(* The realtime provider sessions as the bridge sees them: what their      *)
(* receive loops make of the messages on the wire, and which of interrupt  *)
(* and truncate_audio really send something.  The services behind the      *)
(* connections are external: they may send any message at any time.        *)
(*                                                                         *)
(* The audio of a message is abstracted to its item and to the number of   *)
(* units it has after resampling to the telephone's rate.  Item 0 stands   *)
(* for None: an answer without item_id or content_index.                   *)
(***************************************************************************)
EXTENDS Integers, Sequences

CONSTANTS
  MaxItems,     \* answers of one session that have an item of their own
  ChunkSizes    \* units of audio in one message

NoItem == 0
Items == 1..MaxItems

ASSUME ProviderAssumption ==
  /\ MaxItems \in Nat \ {0}
  /\ ChunkSizes \subseteq Nat

\* What receive() yields: an AudioChunk or a ProviderEvent.
AudioChunk(item, size) == [type |-> "audio", item |-> item, size |-> size]
ProviderEvent(type) == [type |-> type, item |-> NoItem, size |-> 0]

EventTypes ==
  {"input_speech_started", "input_speech_stopped", "interrupted",
   "response_started", "response_done"}

Messages ==
  [type : {"audio"}, item : {NoItem} \cup Items, size : ChunkSizes]
    \cup [type : EventTypes, item : {NoItem}, size : {0}]

\* The attributes of the session classes that the bridge looks at, and the
\* wire they read.
OpenAI == [wire |-> "openai", auto |-> TRUE, persistent |-> TRUE]
Gemini == [wire |-> "gemini", auto |-> TRUE, persistent |-> TRUE]
DryRun == [wire |-> "dryrun", auto |-> FALSE, persistent |-> FALSE]

\* An adapter whose provider has to be told to stop talking.
Manual == [wire |-> "openai", auto |-> FALSE, persistent |-> TRUE]

Sessions == {OpenAI, Gemini, DryRun, Manual}

-----------------------------------------------------------------------------
(* receive *)

\* An event of the OpenAI websocket: audio, by item and size, or one of the
\* others that mean something to the session; the rest is passed over.
OpenAIAudio(items) ==
  [type : {"response.output_audio.delta"}, item : items, size : ChunkSizes]

OpenAIOther ==
  [type : {"input_audio_buffer.speech_started",
           "input_audio_buffer.speech_stopped", "response.created",
           "response.done"}]

\* What OpenAIRealtimeWebSocketSession.receive yields for one event.
OpenAIYields(raw) ==
  CASE raw.type = "response.output_audio.delta" ->
         <<AudioChunk(raw.item, raw.size)>>
    [] raw.type = "input_audio_buffer.speech_started" ->
         <<ProviderEvent("input_speech_started")>>
    [] raw.type = "input_audio_buffer.speech_stopped" ->
         <<ProviderEvent("input_speech_stopped")>>
    [] raw.type = "response.created" -> <<ProviderEvent("response_started")>>
    [] raw.type = "response.done" -> <<ProviderEvent("response_done")>>

\* A response of the Gemini SDK may hold all three at once.  A turn that ends
\* begins the next one, and only an empty turn ends the stream.
GeminiResponse ==
  [size : {0} \cup ChunkSizes, interrupted : BOOLEAN, turn_complete : BOOLEAN]

GeminiYields(response) ==
  (IF response.size > 0 THEN <<AudioChunk(NoItem, response.size)>> ELSE <<>>)
    \o (IF response.interrupted THEN <<ProviderEvent("interrupted")>> ELSE <<>>)
    \o (IF response.turn_complete THEN <<ProviderEvent("response_done")>> ELSE <<>>)

\* DryRunRealtimeProviderSession.receive echoes the last chunk sent, once.
DryRunYields == {<<AudioChunk(NoItem, size)>> : size \in ChunkSizes}

\* The sequences of messages that one message on a session's wire can become.
\* The service numbers its answers: audio is of the item it was of before, or of
\* the next one.
Yields(session, item) ==
  CASE session.wire = "openai" ->
         {OpenAIYields(raw) :
            raw \in OpenAIAudio(Items \cap {item, item + 1}) \cup OpenAIOther}
    [] session.wire = "gemini" -> {GeminiYields(r) : r \in GeminiResponse}
    [] session.wire = "dryrun" -> DryRunYields

\* _response_active after a message was yielded.
ResponseActive(active, message) ==
  CASE message.type = "response_started" -> TRUE
    [] message.type = "response_done" -> FALSE
    [] OTHER -> active

-----------------------------------------------------------------------------
(* interrupt and truncate_audio *)

\* interrupt() sends response.cancel, for an active response only.
InterruptSends(session, active) == session.wire = "openai" /\ active

\* truncate_audio() sends conversation.item.truncate.
TruncateSends(session) == session.wire = "openai"

=============================================================================
