------------------------- MODULE RealtimeCallProofs -------------------------
(***************************************************************************)
(* Proofs about RealtimeCall, for any sessions, sizes and numbers of       *)
(* messages: how the call ends, and what its timeline then says of the     *)
(* caller's speech and of playback; and, from an invariant of every unit   *)
(* of audio (CallAudioInv), that playback and barge-in are right.          *)
(***************************************************************************)
EXTENDS RealtimeCall, FiniteSetTheorems, SequenceTheorems, TLAPS

-----------------------------------------------------------------------------
(* The invariant *)

(* The records of the tasks; what the properties do not ask for is left open. *)
CallShape ==
  /\ producer \in [pc : {"receive", "interrupt", "truncate", "done", "ended", "failed",
                         "cancelled"},
                   inbox : {producer.inbox}, buffered : {producer.buffered},
                   sequence : Nat, position : {producer.position}]
  /\ pump \in [pc : {"get", "drain", "sleep", "done", "ended", "failed", "broken",
                     "cancelled"}, frame : {pump.frame}]
  /\ handler \in [pc : {"reading", "stopping", "closing", "closed"}, alias : {handler.alias}]
  /\ playback \in [active : BOOLEAN, written : Nat, idle : BOOLEAN]

(* Speech is numbered by its barge-in; what was started and is not open was
   stopped, once. *)
SpeechInv ==
  /\ speech \in [active : Nat, started : SUBSET (1..producer.sequence)]
  /\ stopped \in Seq(Nat) /\ IsFiniteSet(Range(stopped))
  /\ Cardinality(Range(stopped)) = Len(stopped)
  /\ Range(stopped) \subseteq speech.started
  /\ speech.started \ Range(stopped) = {speech.active} \ {0}

(* From the beginning of close on no pump writes, and its failure is known; when
   close has ended no message is left that could begin anything. *)
ClosingInv ==
  /\ handler.pc \in {"closing", "closed"} =>
       /\ pump.pc \in {"done", "ended", "failed", "broken", "cancelled"}
       /\ pump.pc \in {"ended", "failed", "broken"} => handler.alias # "none"
  /\ handler.pc = "closed" =>
       /\ ~playback.active /\ speech.active = 0
       /\ producer.inbox = <<>> \/ ~Producing

EndInv == CallShape /\ SpeechInv /\ ClosingInv

-----------------------------------------------------------------------------
(* Speech *)

(* _end_caller_speech stops the speech that is open, if there is any. *)
LEMMA EndedSpeechStops ==
  ASSUME SpeechInv
  PROVE  /\ EndedSpeech \in Seq(Nat) /\ IsFiniteSet(Range(EndedSpeech))
         /\ Cardinality(Range(EndedSpeech)) = Len(EndedSpeech)
         /\ Range(EndedSpeech) = speech.started
  <1>1. /\ speech.active \in Nat /\ stopped \in Seq(Nat) /\ IsFiniteSet(Range(stopped))
        /\ Cardinality(Range(stopped)) = Len(stopped) /\ Range(stopped) \subseteq speech.started
        /\ speech.started \ Range(stopped) = {speech.active} \ {0}
    BY DEF SpeechInv
  <1>2. CASE speech.active = 0
    <2>1. EndedSpeech = stopped /\ Range(stopped) = speech.started
      BY <1>1, <1>2 DEF EndedSpeech
    <2> QED
      BY <1>1, <2>1
  <1>3. CASE speech.active # 0
    <2>1. PICK a \in Nat : a = speech.active
      BY <1>1
    <2>2. PICK s \in Seq(Nat) : s = stopped
      BY <1>1
    <2>3. PICK m \in Nat : m = Len(s) /\ DOMAIN s = 1..m
      OBVIOUS
    <2>4. PICK u \in Seq(Nat) : u = Append(s, a)
      <3>1. Append(s, a) \in Seq(Nat)
        OBVIOUS
      <3> QED
        BY <3>1
    <2>5. Len(u) = m + 1 /\ DOMAIN u = 1..(m + 1)
      BY <2>3, <2>4
    <2>6. (\A i \in 1..m : u[i] = s[i]) /\ u[m + 1] = a
      BY <2>3, <2>4
    <2>7. 1..(m + 1) = 1..m \cup {m + 1}
      BY <2>3
    <2>8. Range(u) = Range(s) \cup {a}
      BY <2>3, <2>5, <2>6, <2>7 DEF Range
    <2>9. a \notin Range(s) /\ Range(s) \cup {a} = speech.started
      BY <1>1, <1>3, <2>1, <2>2
    <2>10. IsFiniteSet(Range(u)) /\ Cardinality(Range(u)) = m + 1
      <3>1. IsFiniteSet(Range(s)) /\ Cardinality(Range(s)) = m
        BY <1>1, <2>2, <2>3
      <3>2. /\ IsFiniteSet(Range(s) \cup {a})
            /\ Cardinality(Range(s) \cup {a}) = Cardinality(Range(s)) + 1
        BY <2>9, <3>1, FS_AddElement
      <3> QED
        BY <2>8, <3>1, <3>2
    <2>11. EndedSpeech = u
      BY <1>3, <2>1, <2>2, <2>4 DEF EndedSpeech
    <2> QED
      BY <2>5, <2>8, <2>9, <2>10, <2>11
  <1> QED
    BY <1>2, <1>3

(* A step that has to do with no speech. *)
LEMMA SpeechGoesOn ==
  ASSUME EndInv, UNCHANGED <<speech, stopped>>,
         producer'.sequence \in Nat, producer'.sequence >= producer.sequence
  PROVE  SpeechInv'
  <1>1. producer.sequence \in Nat
    BY DEF EndInv, CallShape
  <1>2. 1..producer.sequence \subseteq 1..producer'.sequence
    BY <1>1
  <1> QED
    BY <1>2 DEF EndInv, SpeechInv

(* Speech ends, and perhaps another begins: the one of this barge-in. *)
LEMMA SpeechEnds ==
  ASSUME EndInv, stopped' = EndedSpeech,
         \/ /\ speech' = [speech EXCEPT !.active = 0]
            /\ producer'.sequence = producer.sequence
         \/ /\ producer'.sequence = producer.sequence + 1
            /\ speech' = [active |-> producer.sequence + 1,
                          started |-> speech.started \cup {producer.sequence + 1}]
  PROVE  SpeechInv'
  <1>1. PICK n \in Nat : n = producer.sequence
    BY DEF EndInv, CallShape
  <1>2. speech \in [active : Nat, started : SUBSET (1..n)]
    BY <1>1 DEF EndInv, SpeechInv
  <1>3. /\ stopped' \in Seq(Nat) /\ IsFiniteSet(Range(stopped'))
        /\ Cardinality(Range(stopped')) = Len(stopped') /\ Range(stopped') = speech.started
    BY EndedSpeechStops DEF EndInv
  <1>4. CASE /\ speech' = [speech EXCEPT !.active = 0]
             /\ producer'.sequence = producer.sequence
    <2>1. /\ speech' \in [active : Nat, started : SUBSET (1..n)]
          /\ speech'.active = 0 /\ speech'.started = speech.started
      BY <1>2, <1>4
    <2> QED
      BY <1>1, <1>3, <1>4, <2>1 DEF SpeechInv
  <1>5. CASE /\ producer'.sequence = producer.sequence + 1
             /\ speech' = [active |-> producer.sequence + 1,
                           started |-> speech.started \cup {producer.sequence + 1}]
    <2>1. PICK S \in SUBSET (1..n) : S = speech.started
      BY <1>2
    <2>2. speech'.active = n + 1 /\ speech'.started = S \cup {n + 1}
      BY <1>1, <1>5, <2>1
    <2>3. speech' \in [active : Nat, started : SUBSET (1..(n + 1))]
      BY <1>1, <1>5, <2>1
    <2>4. (S \cup {n + 1}) \ S = {n + 1} \ {0}
      BY <2>1
    <2> QED
      BY <1>1, <1>3, <1>5, <2>1, <2>2, <2>3, <2>4 DEF SpeechInv
  <1> QED
    BY <1>4, <1>5

-----------------------------------------------------------------------------
(* The tasks *)

(* What is left of a burst that is stopped. *)
LEMMA NoBurstIsIdle ==
  ASSUME CallShape
  PROVE  /\ NoBurst(playback) \in [active : BOOLEAN, written : Nat, idle : BOOLEAN]
         /\ NoBurst(playback).active = FALSE
  BY DEF CallShape, NoBurst

(* After the answer of an interrupt the producer truncates or goes on. *)
LEMMA TruncateLeaves ==
  ASSUME CallShape, NEW inbox, NEW sequence \in Nat, TruncateThenFinish(inbox, sequence),
         UNCHANGED <<pump, handler>>
  PROVE  /\ CallShape' /\ producer'.inbox = inbox /\ producer'.sequence = sequence
         /\ producer'.pc \in {"truncate", "receive"}
         /\ playback' = playback \/ playback' = NoBurst(playback)
  <1>1. \/ \E position :
             producer' = [producer EXCEPT !.pc = "truncate", !.inbox = inbox,
                            !.sequence = sequence, !.position = position]
        \/ producer' = [producer EXCEPT !.pc = "receive", !.inbox = inbox,
                          !.sequence = sequence, !.buffered = PartialPacketCleared]
    BY DEF TruncateThenFinish
  <1>2. playback' = playback \/ playback' = NoBurst(playback)
    BY DEF TruncateThenFinish, FinishBargeIn, EndAssistantPlayback
  <1>3. /\ producer' \in [pc : {"receive", "interrupt", "truncate", "done", "ended", "failed",
                                "cancelled"},
                          inbox : {producer'.inbox}, buffered : {producer'.buffered},
                          sequence : Nat, position : {producer'.position}]
        /\ producer'.inbox = inbox /\ producer'.sequence = sequence
        /\ producer'.pc \in {"truncate", "receive"}
    BY <1>1 DEF CallShape
  <1> QED
    BY <1>2, <1>3, NoBurstIsIdle DEF CallShape

(* Messages of the provider, which are handled before close has ended. *)
LEMMA HandleMessageKeepsInv ==
  ASSUME EndInv, HandleMessage
  PROVE  EndInv'
  <1>1. /\ CallShape /\ producer.pc = "receive" /\ producer.inbox # <<>>
        /\ UNCHANGED <<pump, handler>>
    BY DEF EndInv, HandleMessage, ProduceAudio, BeginBargeIn, HandleEvent
  <1>2. handler.pc # "closed"
    BY <1>1 DEF EndInv, ClosingInv, Producing
  <1>3. ClosingInv'
    BY <1>1, <1>2 DEF EndInv, ClosingInv
  <1>4. PICK n \in Nat : n = producer.sequence
    BY <1>1 DEF CallShape
  <1>5. PICK message : message = Head(producer.inbox)
    OBVIOUS
  <1>6. CASE ProduceAudio(message)
    <2>1. /\ UNCHANGED <<playback, speech, stopped>>
          /\ \E b : producer' = [producer EXCEPT !.inbox = Tail(@), !.buffered = b]
      BY <1>6 DEF ProduceAudio
    <2>2. CallShape' /\ producer'.sequence = n
      BY <1>1, <1>4, <2>1 DEF CallShape
    <2>3. SpeechInv'
      BY <1>4, <2>1, <2>2, SpeechGoesOn
    <2> QED
      BY <1>3, <2>2, <2>3 DEF EndInv
  <1>7. CASE BeginBargeIn(message)
    <2>1. CallShape' /\ producer'.sequence = n + 1
      <3>1. CASE /\ producer' = [producer EXCEPT !.pc = "interrupt", !.inbox = Tail(@),
                                   !.sequence = producer.sequence + 1]
                 /\ UNCHANGED playback
        <4>1. PICK k \in Nat : k = producer.sequence + 1
          BY <1>4
        <4>2. PICK rest : rest = Tail(producer.inbox)
          OBVIOUS
        <4>3. producer' = [producer EXCEPT !.pc = "interrupt", !.inbox = rest, !.sequence = k]
          BY <3>1, <4>1, <4>2
        <4> QED
          BY <1>1, <1>4, <3>1, <4>1, <4>3 DEF CallShape
      <3>2. CASE TruncateThenFinish(Tail(producer.inbox), producer.sequence + 1)
        <4>1. producer.sequence + 1 \in Nat
          BY <1>4
        <4> QED
          BY <1>1, <1>4, <3>2, <4>1, TruncateLeaves
      <3> QED
        BY <1>7, <3>1, <3>2 DEF BeginBargeIn
    <2>2. \/ /\ speech' = [active |-> producer.sequence + 1,
                           started |-> speech.started \cup {producer.sequence + 1}]
             /\ stopped' = EndedSpeech
          \/ UNCHANGED <<speech, stopped>>
      BY <1>7 DEF BeginBargeIn
    <2>3. SpeechInv'
      BY <1>4, <2>1, <2>2, SpeechEnds, SpeechGoesOn
    <2> QED
      BY <1>3, <2>1, <2>3 DEF EndInv
  <1>8. CASE HandleEvent(message)
    <2>1. /\ UNCHANGED playback /\ producer' = [producer EXCEPT !.inbox = Tail(@)]
          /\ \/ speech' = [speech EXCEPT !.active = 0] /\ stopped' = EndedSpeech
             \/ UNCHANGED <<speech, stopped>>
      BY <1>8 DEF HandleEvent
    <2>2. CallShape' /\ producer'.sequence = n
      BY <1>1, <1>4, <2>1 DEF CallShape
    <2>3. SpeechInv'
      BY <1>4, <2>1, <2>2, SpeechEnds, SpeechGoesOn
    <2> QED
      BY <1>3, <2>2, <2>3 DEF EndInv
  <1> QED
    BY <1>5, <1>6, <1>7, <1>8 DEF HandleMessage

(* The producer's other steps. *)
LEMMA ProducerKeepsInv ==
  ASSUME EndInv, Receive \/ InterruptSent \/ TruncateSent \/ StreamEnds \/ StreamFails
                   \/ FinaliseGenerator
  PROVE  EndInv'
  <1>1. CallShape /\ UNCHANGED <<pump, handler, speech, stopped>>
    BY DEF EndInv, Receive, InterruptSent, TruncateSent, StreamEnds, StreamFails,
       FinaliseGenerator, ProducerEnds, stateVars, historyVars
  <1>2. PICK n \in Nat : n = producer.sequence
    BY <1>1 DEF CallShape
  <1>3. /\ CallShape' /\ producer'.sequence = n
        /\ \/ handler.pc # "closed"
           \/ /\ producer'.inbox = producer.inbox /\ playback' = playback
              /\ Producing' => Producing
    <2>1. CASE Receive
      <3>1. /\ handler.pc # "closed" /\ playback' = playback
            /\ \E inbox : producer' = [producer EXCEPT !.inbox = inbox]
        BY <2>1 DEF Receive, stateVars
      <3> QED
        BY <1>1, <1>2, <3>1 DEF CallShape
    <2>2. CASE InterruptSent
      BY <1>1, <1>2, <2>2, TruncateLeaves DEF InterruptSent
    <2>3. CASE TruncateSent
      <3>1. /\ handler.pc # "closed" /\ playback' = NoBurst(playback)
            /\ producer' = [producer EXCEPT !.pc = "receive", !.position = None,
                                            !.buffered = PartialPacketCleared]
        BY <2>3 DEF TruncateSent, FinishBargeIn, EndAssistantPlayback
      <3> QED
        BY <1>1, <1>2, <3>1, NoBurstIsIdle DEF CallShape
    <2>4. CASE StreamEnds \/ StreamFails \/ FinaliseGenerator
      <3>1. PICK pc \in {"done", "ended", "failed", "cancelled"} : ProducerEnds(pc)
        BY <2>4 DEF StreamEnds, StreamFails, FinaliseGenerator
      <3>2. playback' = playback /\ producer' = [producer EXCEPT !.pc = pc]
        BY <3>1 DEF ProducerEnds, stateVars
      <3>3. producer'.inbox = producer.inbox /\ producer'.pc = pc
        BY <1>1, <3>2 DEF CallShape
      <3> QED
        BY <1>1, <1>2, <3>2, <3>3 DEF CallShape, Producing
    <2> QED
      BY <2>1, <2>2, <2>3, <2>4
  <1>4. SpeechInv'
    BY <1>1, <1>2, <1>3, SpeechGoesOn
  <1>5. ClosingInv'
    BY <1>1, <1>3 DEF EndInv, ClosingInv
  <1> QED
    BY <1>3, <1>4, <1>5 DEF EndInv

(* The pump runs only before close. *)
LEMMA PumpKeepsInv ==
  ASSUME EndInv, PumpStep \/ PumpBreaks
  PROVE  EndInv'
  <1>1. /\ CallShape /\ pump.pc \in {"get", "drain", "sleep"}
        /\ UNCHANGED <<producer, handler, speech, stopped>>
    BY DEF EndInv, PumpStep, PumpWrites, MarkOutputStarted, MarkOutputPlayed, PumpEnds,
       PumpBreaks, stateVars, historyVars
  <1>2. handler.pc \notin {"closing", "closed"}
    BY <1>1 DEF EndInv, ClosingInv
  <1>3. pump' \in [pc : {"get", "drain", "sleep", "done", "ended", "failed", "broken",
                         "cancelled"}, frame : {pump'.frame}]
    <2>1. CASE PumpWrites \/ MarkOutputPlayed
      BY <2>1 DEF PumpWrites, MarkOutputPlayed
    <2>2. CASE MarkOutputStarted \/ PumpBreaks
      BY <1>1, <2>2 DEF MarkOutputStarted, PumpBreaks, CallShape
    <2>3. CASE PumpEnds
      BY <1>1, <2>3 DEF PumpEnds, Producing, CallShape
    <2> QED
      BY <2>1, <2>2, <2>3 DEF PumpStep
  <1>4. playback' \in [active : BOOLEAN, written : Nat, idle : BOOLEAN]
    <2>1. playback \in [active : BOOLEAN, written : Nat, idle : BOOLEAN]
      BY <1>1 DEF CallShape
    <2>2. CASE PumpWrites \/ PumpBreaks
      BY <2>1, <2>2 DEF PumpWrites, PumpBreaks, stateVars
    <2>3. CASE MarkOutputStarted
      <3>1. PICK p \in [active : BOOLEAN, written : Nat, idle : BOOLEAN] :
              playback' = [p EXCEPT !.active = TRUE, !.written = @ + 1]
        BY <1>1, <2>1, <2>3, NoBurstIsIdle DEF MarkOutputStarted, Bursts
      <3>2. PICK k \in Nat : k = p.written + 1
        OBVIOUS
      <3>3. playback' = [p EXCEPT !.active = TRUE, !.written = k]
        BY <3>1, <3>2
      <3> QED
        BY <3>3
    <2>4. CASE MarkOutputPlayed
      BY <2>1, <2>4 DEF MarkOutputPlayed
    <2>5. CASE PumpEnds
      BY <1>1, <2>1, <2>5, NoBurstIsIdle DEF PumpEnds, EndAssistantPlayback
    <2> QED
      BY <2>2, <2>3, <2>4, <2>5 DEF PumpStep
  <1>5. CallShape'
    BY <1>1, <1>3, <1>4 DEF CallShape
  <1>6. SpeechInv'
    BY <1>1, SpeechGoesOn DEF CallShape
  <1>7. ClosingInv'
    BY <1>1, <1>2 DEF ClosingInv
  <1> QED
    BY <1>5, <1>6, <1>7 DEF EndInv

(* The handler leaves its loop, stops the pump and closes the session. *)
LEMMA HandlerKeepsInv ==
  ASSUME EndInv,
         NoticePump \/ CallerLeaves \/ CallerBreaks \/ SendAudioFails \/ StopPump
           \/ ProviderClosed
  PROVE  EndInv'
  <1>1. CallShape /\ SpeechInv /\ ClosingInv
    BY DEF EndInv
  <1>2. CASE NoticePump \/ CallerLeaves \/ CallerBreaks \/ SendAudioFails
    <2>1. PICK alias : LeaveLoop(alias)
      BY <1>2 DEF NoticePump, CallerLeaves, CallerBreaks, SendAudioFails
    <2>2. /\ handler' = [pc |-> "stopping", alias |-> alias]
          /\ UNCHANGED <<producer, pump, playback, speech, stopped>>
      BY <2>1 DEF LeaveLoop, stateVars, historyVars
    <2>3. CallShape'
      BY <1>1, <2>2 DEF CallShape
    <2>4. SpeechInv'
      BY <1>1, <2>2, SpeechGoesOn DEF CallShape
    <2>5. ClosingInv'
      BY <2>2 DEF ClosingInv
    <2> QED
      BY <2>3, <2>4, <2>5 DEF EndInv
  <1>3. CASE StopPump
    <2>1. /\ handler' = [handler EXCEPT !.pc = "closing", !.alias = AliasAfterPump(@)]
          /\ pump' = IF PumpDone THEN pump ELSE [pump EXCEPT !.pc = "cancelled"]
          /\ producer' = producer \/ producer' = [producer EXCEPT !.pc = "cancelled"]
          /\ UNCHANGED <<playback, speech, stopped>>
      BY <1>3 DEF StopPump, stateVars, historyVars
    <2>2. CallShape' /\ producer'.sequence = producer.sequence /\ producer.sequence \in Nat
      BY <1>1, <2>1 DEF CallShape
    <2>3. SpeechInv'
      BY <2>1, <2>2, SpeechGoesOn
    <2>4. /\ handler'.pc = "closing" /\ handler'.alias = AliasAfterPump(handler.alias)
          /\ pump'.pc = IF PumpDone THEN pump.pc ELSE "cancelled"
      BY <1>1, <2>1 DEF CallShape
    <2>5. pump.pc \in {"ended", "failed", "broken"} => AliasAfterPump(handler.alias) # "none"
      BY DEF AliasAfterPump, PumpAlias
    <2>6. ClosingInv'
      BY <2>4, <2>5 DEF ClosingInv, PumpDone
    <2> QED
      BY <2>2, <2>3, <2>6 DEF EndInv
  <1>4. CASE ProviderClosed
    <2>1. /\ handler.pc = "closing" /\ UNCHANGED <<producer, pump>>
          /\ producer.inbox = <<>> \/ ~Producing
          /\ \E alias \in {handler.alias,
                           IF handler.alias = "none" THEN "provider-close-error"
                                                     ELSE handler.alias} :
               handler' = [handler EXCEPT !.pc = "closed", !.alias = alias]
          /\ speech' = [speech EXCEPT !.active = 0] /\ stopped' = EndedSpeech
          /\ playback' = NoBurst(playback)
      BY <1>4 DEF ProviderClosed, EndAssistantPlayback
    <2>2. CallShape' /\ ~playback'.active
      BY <1>1, <2>1, NoBurstIsIdle DEF CallShape
    <2>3. SpeechInv'
      BY <2>1, SpeechEnds
    <2>4. speech'.active = 0
      BY <1>1, <2>1 DEF SpeechInv
    <2>5. handler'.pc = "closed" /\ (handler.alias # "none" => handler'.alias # "none")
      BY <1>1, <2>1 DEF CallShape
    <2>6. ClosingInv'
      BY <1>1, <2>1, <2>2, <2>4, <2>5 DEF ClosingInv, Producing
    <2> QED
      BY <2>2, <2>3, <2>6 DEF EndInv
  <1> QED
    BY <1>2, <1>3, <1>4

-----------------------------------------------------------------------------
(* The call *)

(* The invariant holds of every call. *)
LEMMA CallKeepsEndInv == Spec => []EndInv
  <1>1. Init => EndInv
    <2> SUFFICES ASSUME Init PROVE EndInv
      OBVIOUS
    <2>1. Range(<<>>) = {} /\ Len(<<>>) = 0 /\ <<>> \in Seq(Nat)
      BY DEF Range
    <2>2. CallShape
      BY DEF Init, CallShape
    <2>3. SpeechInv
      BY <2>1, FS_EmptySet DEF Init, SpeechInv
    <2>4. ClosingInv
      BY DEF Init, ClosingInv
    <2> QED
      BY <2>2, <2>3, <2>4 DEF EndInv
  <1>2. EndInv /\ [Next]_vars => EndInv'
    <2> SUFFICES ASSUME EndInv, [Next]_vars PROVE EndInv'
      OBVIOUS
    <2>1. CASE HandleMessage
      BY <2>1, HandleMessageKeepsInv
    <2>2. CASE Receive \/ InterruptSent \/ TruncateSent \/ StreamEnds \/ StreamFails
                 \/ FinaliseGenerator
      BY <2>2, ProducerKeepsInv
    <2>3. CASE PumpStep \/ PumpBreaks
      BY <2>3, PumpKeepsInv
    <2>4. CASE NoticePump \/ CallerLeaves \/ CallerBreaks \/ SendAudioFails \/ StopPump
                 \/ ProviderClosed
      BY <2>4, HandlerKeepsInv
    <2>5. CASE UNCHANGED vars
      <3>1. UNCHANGED <<producer, pump, handler, playback, speech, stopped>>
        BY <2>5 DEF vars, taskVars, stateVars, historyVars
      <3> QED
        BY <3>1 DEF EndInv, CallShape, SpeechInv, ClosingInv, Producing
    <2> QED
      BY <2>1, <2>2, <2>3, <2>4, <2>5 DEF Next, ProducerStep, HandlerStep
  <1> QED
    BY <1>1, <1>2, PTL DEF Spec

(* If the pump has ended because of the provider or of the caller's socket, close
   ends the run as failed, whether the loop of _handle_connection has noticed it,
   the caller has hung up first or both happen at once. *)
THEOREM PumpFailuresAreKnown == Spec => []PumpFailureFailsRun
  <1>1. EndInv => PumpFailureFailsRun
    BY DEF EndInv, ClosingInv, PumpFailureFailsRun
  <1> QED
    BY <1>1, CallKeepsEndInv, PTL

(* However barge-ins, stops, a cancelled pump and the end of the call meet, every
   speech of the caller is open or was stopped once, and nothing is open on the
   timeline of a call that is over. *)
THEOREM TimelineCloses == Spec => []TimelineIsClosed
  <1>1. EndInv => TimelineIsClosed
    BY DEF EndInv, SpeechInv, ClosingInv, TimelineIsClosed
  <1> QED
    BY <1>1, CallKeepsEndInv, PTL


-----------------------------------------------------------------------------
(* The invariant of the audio *)

Units == [chunk : Nat, nr : Nat]
Accounts == [chunk : Nat, left : Nat]
Fates == {"queued", "written", "dropped", "discarded"}

(* The position that a packet carries is past the whole of it. *)
PacketPositions == {None} \cup [item : Items, end : {n \in Nat : n >= Packet}]

Frames ==
  [position : PacketPositions, window : SUBSET Nat, units : Seq(Units),
   fate : Fates, epoch : Nat]

Chunks == [item : {NoItem} \cup Items, epoch : Nat, size : Nat]

CallFields ==
  [item : {NoItem} \cup Items, enqueued : Positions, played : Positions,
   inflight : Positions, resampler : Nat]

(* The packets F that were lost to the caller. *)
Lost(F) == {f \in 1..Len(F) : F[f].fate \in {"dropped", "discarded"}}

(* The queue q holds the youngest of the packets F, and they alone are queued. *)
QueueInv(F, q, d) ==
  /\ Len(q) <= Len(F) /\ Len(q) <= BufferSize
  /\ \A i \in 1..Len(q) : q[i] = Len(F) - Len(q) + i
  /\ \A f \in 1..Len(F) : F[f].fate = "queued" <=> f > Len(F) - Len(q)
  /\ d = Cardinality(Lost(F))

(* The units B of a packet, or of the packet buffer, are in order. *)
InOrder(B) == \A i, j \in 1..Len(B) : i < j => Precedes(B[i], B[j])

OrderInv(F, B) ==
  /\ \A f \in 1..Len(F) : InOrder(F[f].units)
  /\ \A f, g \in 1..Len(F) :
       f < g => \A a \in Range(F[f].units), b \in Range(F[g].units) : Precedes(a, b)
  /\ \A f \in 1..Len(F) : \A a \in Range(F[f].units), b \in Range(B) : Precedes(a, b)
  /\ InOrder(B)

(* The accounts A are of the units of B from k + 1 on. *)
Covers(a, ch, u) ==
  /\ a.chunk = u.chunk
  /\ u.nr > ch[u.chunk].size - a.left /\ u.nr <= ch[u.chunk].size

Accounted(A, ch, u) == \E i \in 1..Len(A) : Covers(A[i], ch, u)

AccountsOpen(A, ch) ==
  /\ \A i \in 1..Len(A) : /\ A[i].chunk \in 1..Len(ch)
                          /\ A[i].left >= 1 /\ A[i].left <= ch[A[i].chunk].size
  /\ \A i, j \in 1..Len(A) : i < j => A[i].chunk < A[j].chunk

AccountInv(k, B, A, ch) ==
  /\ AccountsOpen(A, ch)
  /\ \A i \in 1..Len(B) : i > k => Accounted(A, ch, B[i])
  /\ \A u \in Units : Accounted(A, ch, u) => \E i \in 1..Len(B) : i > k /\ B[i] = u

(* What is known of the units of packets and of the buffer: which answer and which
   barge-ins they are between. *)
Known(ch, u) == u.chunk \in 1..Len(ch) /\ u.nr \in 1..ch[u.chunk].size

FrameIs(x, ch, e) ==
  /\ x.window = {u.chunk : u \in Range(x.units)}
  /\ \A u \in Range(x.units) :
       /\ Known(ch, u)
       /\ x.fate = "queued" => ch[u.chunk].epoch = e
       /\ x.fate = "written" => ch[u.chunk].epoch = x.epoch
       /\ x.fate = "discarded" => ch[u.chunk].epoch < e
  /\ \A u, v \in Range(x.units) : /\ ch[u.chunk].item = ch[v.chunk].item
                                 /\ ch[u.chunk].epoch = ch[v.chunk].epoch

FrameInv(F, ch, e) == \A f \in 1..Len(F) : FrameIs(F[f], ch, e)

BufferInv(B, s, ch, e) ==
  /\ \A u \in Range(B) : /\ Known(ch, u)
                         /\ ch[u.chunk].item = s.item /\ ch[u.chunk].epoch = e
  /\ s.resampler # 0 => /\ s.resampler \in 1..Len(ch)
                        /\ ch[s.resampler].item = s.item /\ ch[s.resampler].epoch = e
  /\ \A c \in 1..Len(ch) : /\ ch[c].epoch <= e
                           /\ ch[c].epoch = e => ch[c].item <= s.item

(* Packet f of F keeps unit u for the caller, or has. *)
Holds(F, f, u) == F[f].fate # "discarded" /\ u \in Range(F[f].units)

(* Of the answer that is going on nothing is lost before a barge-in. *)
WholeInv(F, B, item, ch, e) ==
  \A c \in 1..Len(ch) : ch[c].epoch = e /\ ch[c].item = item =>
    \A nr \in 1..ch[c].size :
      \/ Unit(c, nr) \in Range(B)
      \/ \E f \in 1..Len(F) : Holds(F, f, Unit(c, nr))

AudioShape(s) ==
  /\ s.buffered \in [units : Seq(Units), sources : Seq(Accounts)]
  /\ s.session \in CallFields
  /\ s.frames \in Seq(Frames)
  /\ s.queue \in Seq(Nat)
  /\ s.dropMetric \in Nat

AudioInv(s, ch, e) ==
  /\ AudioShape(s)
  /\ QueueInv(s.frames, s.queue, s.dropMetric)
  /\ OrderInv(s.frames, s.buffered.units)
  /\ AccountInv(0, s.buffered.units, s.buffered.sources, ch)
  /\ FrameInv(s.frames, ch, e)
  /\ BufferInv(s.buffered.units, s.session, ch, e)
  /\ WholeInv(s.frames, s.buffered.units, s.session.item, ch, e)

(* From packets F to G: only packets that were queued have changed, and all of these,
   and those that are new, are of the audio since the last barge-in. *)
Recent(x, ch, e) == \A u \in Range(x.units) : ch[u.chunk].epoch = e

Proceeds(F, G, ch, e) ==
  /\ Len(F) <= Len(G)
  /\ \A f \in 1..Len(F) : F[f].fate # "queued" => G[f] = F[f]
  /\ \A g \in 1..Len(G) : g > Len(F) \/ F[g].fate = "queued" => Recent(G[g], ch, e)

(* The fields that a cut changes. *)
Audio ==
  [buffered |-> producer.buffered, session |-> session, frames |-> frames,
   queue |-> queue, dropMetric |-> dropMetric]

(* Some packet was written at least up to position p. *)
Heard(F, p) ==
  p.end > 0 => \E f \in 1..Len(F) : /\ F[f].fate = "written"
                                    /\ F[f].position.item = p.item
                                    /\ F[f].position.end >= p.end

HeardInv ==
  /\ pump.frame \in 0..Len(frames)
  /\ pump.pc \in {"drain", "sleep"} => /\ pump.frame # 0
                                       /\ frames[pump.frame].fate = "written"
  /\ Heard(frames, session.played) /\ Heard(frames, session.inflight)
  /\ session.inflight \in PacketPositions
  /\ producer.position \in Positions /\ Heard(frames, producer.position)

(* What barge-in number b has recorded, ev, is true of the packets F. *)
GoneIn(F, u) == \E f \in 1..Len(F) : /\ F[f].fate \in {"written", "dropped"}
                                     /\ u \in Range(F[f].units)

EvidenceTrue(b, ev, F, ch) ==
  /\ Heard(F, ev.position)
  /\ Cardinality(Range(ev.recorded)) = Len(ev.recorded)
  /\ \A i \in 1..Len(ev.recorded) : /\ ev.recorded[i] \in 1..Len(F)
                                    /\ F[ev.recorded[i]].fate = "discarded"
  /\ ev.omitted >= 0 /\ Len(ev.recorded) <= EvidenceLimit
  /\ \A c \in ev.sources : /\ c \in 1..Len(ch) /\ ch[c].epoch = b - 1
                           /\ \E nr \in 1..ch[c].size : ~GoneIn(F, Unit(c, nr))
  /\ \A c \in 1..Len(ch) : ch[c].epoch = b - 1 /\ ch[c].item = ev.item =>
       \A nr \in 1..ch[c].size : GoneIn(F, Unit(c, nr)) \/ c \in ev.sources

Evidence ==
  [position : Positions, truncated : BOOLEAN, recorded : Seq(Nat), omitted : Int,
   sources : SUBSET Nat, item : {NoItem} \cup Items]

EvidenceInv ==
  /\ bargeIns \in Seq(Evidence)
  /\ \A b \in 1..Len(bargeIns) : EvidenceTrue(b, bargeIns[b], frames, chunks)

(* The service numbers its answers. *)
ItemsInv ==
  /\ provider \in [session : ProviderSessions, messages : Nat,
                   item : {NoItem} \cup Items, active : BOOLEAN]
  /\ provider.session.wire # "openai" => provider.item = NoItem
  /\ session.item <= provider.item
  /\ producer.inbox \in Seq(Messages)
  /\ \A i \in 1..Len(producer.inbox) :
       producer.inbox[i].type = "audio" => producer.inbox[i].item = provider.item

(* The bursts count what was written, but for a packet under way. *)
InBursts(bs) == UNION {{b} \X (1..bs[b].written) : b \in 1..Len(bs)}
Written(F) == {f \in 1..Len(F) : F[f].fate = "written"}

Bursting == [written : Nat \ {0}, reason : {"barge_in", "media_gap", "stream_ended", "call_closed"}]

BurstInv ==
  LET counted == Cardinality(InBursts(bursts)) + playback.written
      written == Cardinality(Written(frames))
  IN  /\ bursts \in Seq(Bursting) /\ IsFiniteSet(InBursts(bursts))
      /\ playback.active <=> playback.written > 0
      /\ pump.pc \in {"drain", "broken"} => counted = written - 1
      /\ pump.pc \in {"get", "sleep", "done", "ended", "failed"} => counted = written
      /\ pump.pc = "cancelled" => counted \in {written - 1, written}

CallAudioInv ==
  /\ chunks \in Seq(Chunks)
  /\ AudioInv(Audio, chunks, Epoch)
  /\ HeardInv /\ EvidenceInv /\ ItemsInv /\ BurstInv

-----------------------------------------------------------------------------
(* Induction.  A least counterexample stands for the library's induction
   theorems, which take the hypothesis as an operator. *)

NatLess == {p \in Nat \X Nat : p[1] < p[2]}

(* What holds for 0 and passes from n - 1 to n holds up to N. *)
LEMMA InductionUpTo ==
  ASSUME NEW N \in Nat, NEW Good, 0 \in Good,
         \A n \in 1..N : n - 1 \in Good => n \in Good
  PROVE  \A n \in 0..N : n \in Good
  <1> DEFINE Bad == {n \in 0..N : n \notin Good}
  <1> SUFFICES ASSUME Bad # {} PROVE FALSE
    OBVIOUS
  <1>1. Bad \in SUBSET Nat
    OBVIOUS
  <1> HIDE DEF Bad
  <1>2. IsWellFoundedOn(NatLess, Nat)
    BY NatLessThanWellFounded, Zenon DEF OpToRel, NatLess
  <1>3. PICK n \in Bad : \A m \in Bad : ~ (<<m, n>> \in NatLess)
    BY <1>1, <1>2, WFMin
  <1>4. n \in 1..N /\ n - 1 \in 0..N /\ n \notin Good
    BY <1>3 DEF Bad
  <1>5. n - 1 \in Bad
    BY <1>4 DEF Bad
  <1>6. <<n - 1, n>> \in NatLess
    BY <1>4 DEF NatLess
  <1> QED
    BY <1>3, <1>5, <1>6

-----------------------------------------------------------------------------
(* Repeating *)

(* What ConsumeSources repeats: the accounts after each unit. *)
LEMMA ConsumeSourcesUnfolds ==
  ASSUME NEW A
  PROVE  \E done : /\ done[0] = [window |-> {}, rest |-> A]
                   /\ \A i \in 1..Packet : done[i] = ConsumeUnit(done[i - 1])
                   /\ ConsumeSources(A) = done[Packet]
  <1> DEFINE first == [window |-> {}, rest |-> A]
             Value(g, i) == IF i = 0 THEN first ELSE ConsumeUnit(g[i - 1])
             Solves(g, n) == g = [i \in 0..n |-> Value(g, i)]
             Good == {n \in Nat : \E g : Solves(g, n)}
  <1> HIDE DEF Value
  <1>0. Packet \in Nat
    BY CallAssumption
  <1>1. 0 \in Good
    <2>1. Solves([i \in 0..0 |-> first], 0)
      BY DEF Value
    <2> QED
      BY <2>1
  <1>2. ASSUME NEW n \in 1..Packet, n - 1 \in Good PROVE n \in Good
    <2>1. PICK g : Solves(g, n - 1)
      BY <1>2
    <2> DEFINE h == [i \in 0..n |-> Value(g, i)]
    <2>2. \A i \in 0..(n - 1) : h[i] = g[i]
      <3>1. \A i \in 0..(n - 1) : g[i] = Value(g, i)
        BY <2>1, Zenon
      <3> QED
        BY <1>0, <3>1
    <2>3. \A i \in 0..n : Value(h, i) = Value(g, i)
      <3> HIDE DEF h
      <3> QED
        BY <1>0, <2>2 DEF Value
    <2>4. Solves(h, n) /\ n \in Nat
      BY <1>0, <2>3
    <2> HIDE DEF h, Solves
    <2> QED
      BY <2>4
  <1>3. Packet \in Good
    <2> HIDE DEF Good
    <2>1. \A n \in 0..Packet : n \in Good
      BY <1>0, <1>1, <1>2, InductionUpTo
    <2> QED
      BY <1>0, <2>1
  <1> DEFINE done == CHOOSE g : Solves(g, Packet)
  <1>4. Solves(done, Packet)
    BY <1>3, Zenon
  <1>5. ConsumeSources(A) = done[Packet]
    BY Zenon DEF ConsumeSources, Repeat, Value
  <1> HIDE DEF done
  <1>6. \A i \in 0..Packet : done[i] = Value(done, i)
    BY <1>4, Zenon
  <1>7. done[0] = first
    <2>1. 0 \in 0..Packet
      BY <1>0
    <2>2. done[0] = Value(done, 0)
      BY <1>6, <2>1, Zenon
    <2> QED
      BY <2>2, Zenon DEF Value
  <1>8. \A i \in 1..Packet : done[i] = ConsumeUnit(done[i - 1])
    <2> SUFFICES ASSUME NEW i \in 1..Packet PROVE done[i] = ConsumeUnit(done[i - 1])
      OBVIOUS
    <2>1. i \in 0..Packet /\ i # 0
      BY <1>0
    <2>2. done[i] = Value(done, i)
      BY <1>6, <2>1, Zenon
    <2> QED
      BY <2>1, <2>2, Zenon DEF Value
  <1> QED
    BY <1>5, <1>7, <1>8

(* What ProduceAudio repeats: the call after each packet that is cut. *)
Cuts(n, s) == Repeat(CutPacket, n, s)

(* _produce_provider_audio's loop: what n rounds of it leave is the last of a row of
   calls, each the one before it with one packet cut. *)
LEMMA CutsUnfold ==
  ASSUME NEW n \in Nat, NEW s
  PROVE  \E done : /\ done[0] = s
                   /\ \A i \in 1..n : done[i] = CutPacket(done[i - 1])
                   /\ Cuts(n, s) = done[n]
  <1> DEFINE Value(g, i) == IF i = 0 THEN s ELSE CutPacket(g[i - 1])
             Solves(g, m) == g = [i \in 0..m |-> Value(g, i)]
             Good == {m \in Nat : \E g : Solves(g, m)}
  <1> HIDE DEF Value
  <1>1. 0 \in Good
    <2>1. Solves([i \in 0..0 |-> s], 0)
      BY DEF Value
    <2> QED
      BY <2>1
  <1>2. ASSUME NEW m \in 1..n, m - 1 \in Good PROVE m \in Good
    <2>1. PICK g : Solves(g, m - 1)
      BY <1>2
    <2> DEFINE h == [i \in 0..m |-> Value(g, i)]
    <2>2. \A i \in 0..(m - 1) : h[i] = g[i]
      <3>1. \A i \in 0..(m - 1) : g[i] = Value(g, i)
        BY <2>1, Zenon
      <3> QED
        BY <3>1
    <2>3. \A i \in 0..m : Value(h, i) = Value(g, i)
      <3> HIDE DEF h
      <3> QED
        BY <2>2 DEF Value
    <2>4. Solves(h, m) /\ m \in Nat
      BY <2>3
    <2> HIDE DEF h, Solves
    <2> QED
      BY <2>4
  <1>3. n \in Good
    <2> HIDE DEF Good
    <2>1. \A m \in 0..n : m \in Good
      BY <1>1, <1>2, InductionUpTo
    <2> QED
      BY <2>1
  <1> DEFINE done == CHOOSE g : Solves(g, n)
  <1>4. Solves(done, n)
    BY <1>3, Zenon
  <1>5. Cuts(n, s) = done[n]
    BY Zenon DEF Cuts, Repeat, Value
  <1> HIDE DEF done
  <1>6. \A i \in 0..n : done[i] = Value(done, i)
    BY <1>4, Zenon
  <1>7. done[0] = s
    <2>1. done[0] = Value(done, 0)
      BY <1>6
    <2> QED
      BY <2>1, Zenon DEF Value
  <1>8. \A i \in 1..n : done[i] = CutPacket(done[i - 1])
    <2> SUFFICES ASSUME NEW i \in 1..n PROVE done[i] = CutPacket(done[i - 1])
      OBVIOUS
    <2>1. i \in 0..n /\ i # 0
      OBVIOUS
    <2>2. done[i] = Value(done, i)
      BY <1>6, <2>1, Zenon
    <2> QED
      BY <2>1, <2>2, Zenon DEF Value
  <1> QED
    BY <1>5, <1>7, <1>8

-----------------------------------------------------------------------------
(* Accounts *)

(* Precedes is irreflexive and asymmetric. *)
LEMMA PrecedesIsStrict ==
  ASSUME NEW a \in Units, NEW b \in Units, Precedes(a, b)
  PROVE  ~Precedes(b, a) /\ a # b
  BY DEF Precedes, Units

(* A unit is its message and its place there. *)
LEMMA UnitFields ==
  ASSUME NEW c \in Nat, NEW n \in Nat
  PROVE  Unit(c, n) \in Units /\ Unit(c, n).chunk = c /\ Unit(c, n).nr = n
  BY DEF Unit, Units

(* A unit of audio is known by its chunk and its place in it. *)
LEMMA UnitIs ==
  ASSUME NEW u \in Units
  PROVE  u.chunk \in Nat /\ u.nr \in Nat /\ u = Unit(u.chunk, u.nr)
  BY DEF Unit, Units

(* One unit is taken from the account of the message it came with: the first of
   the accounts. *)
LEMMA FirstUnitIsOfFirstAccount ==
  ASSUME NEW B \in Seq(Units), NEW A \in Seq(Accounts), NEW ch \in Seq(Chunks),
         NEW k \in Nat, k < Len(B), InOrder(B), AccountInv(k, B, A, ch)
  PROVE  /\ Len(A) \in Nat \ {0}
         /\ B[k + 1] = Unit(A[1].chunk, ch[A[1].chunk].size - A[1].left + 1)
  <1>1. PICK L \in Nat : L = Len(B) /\ k + 1 \in 1..L
    OBVIOUS
  <1>2. B[k + 1] \in Units
    BY <1>1
  <1>3. PICK u \in Units : u = B[k + 1]
    BY <1>2
  <1>4. Accounted(A, ch, u)
    BY <1>1, <1>3 DEF AccountInv
  <1>5. PICK i \in 1..Len(A) : /\ A[i].chunk = u.chunk
                               /\ u.nr > ch[u.chunk].size - A[i].left
                               /\ u.nr <= ch[u.chunk].size
    BY <1>4 DEF Accounted, Covers
  <1>6. Len(A) \in Nat \ {0} /\ 1 \in 1..Len(A)
    BY <1>5
  <1>7. A[1] \in Accounts /\ A[1].chunk \in 1..Len(ch) /\ A[1].left >= 1 /\ A[1].left <= ch[A[1].chunk].size
    BY <1>6 DEF AccountInv, AccountsOpen
  <1>8. PICK c \in Nat, l \in Nat, z \in Nat :
          c = A[1].chunk /\ l = A[1].left /\ z = ch[c].size /\ 1 <= l /\ l <= z
    <2>1. ch[A[1].chunk] \in Chunks
      BY <1>7
    <2> QED
      BY <1>7, <2>1 DEF Chunks, Accounts
  <1>9. PICK m \in Units : m = Unit(c, z - l + 1) /\ m.chunk = c /\ m.nr = z - l + 1
    <2>1. c \in Nat /\ z - l + 1 \in Nat
      BY <1>8, SMTT(30)
    <2> QED
      BY <2>1, UnitFields
  <1>10. Accounted(A, ch, m)
    <2>3. z - l + 1 > z - l /\ z - l + 1 <= z
      BY <1>8, SMTT(30)
    <2>1. m.nr > ch[m.chunk].size - A[1].left /\ m.nr <= ch[m.chunk].size
      BY <1>8, <1>9, <2>3, Zenon
    <2> QED
      BY <1>6, <1>8, <1>9, <2>1 DEF Accounted, Covers
  <1>11. PICK j \in 1..L : j > k /\ B[j] = m
    BY <1>1, <1>9, <1>10 DEF AccountInv
  <1>12. CASE j = k + 1
    BY <1>6, <1>7, <1>8, <1>9, <1>11, <1>12
  <1>13. CASE j # k + 1
    <2>1. Precedes(u, m)
      BY <1>1, <1>3, <1>11, <1>13 DEF InOrder
    <2>2. CASE i = 1
      <3>1. u.chunk = c /\ ch[u.chunk].size = z /\ A[i].left = l /\ u.nr \in Nat
        BY <1>5, <1>8, <2>2, UnitIs
      <3>2. u.nr > z - l
        BY <1>5, <3>1
      <3>3. PICK nr \in Nat : nr = u.nr
        BY <3>1
      <3>4. c < c \/ nr < z - l + 1
        BY <1>9, <2>1, <3>1, <3>3 DEF Precedes
      <3>5. nr > z - l
        BY <3>2, <3>3
      <3> QED
        BY <3>4, <3>5
    <2>3. CASE i # 1
      <3>1. A[1].chunk < A[i].chunk
        BY <1>5, <1>6, <2>3 DEF AccountInv, AccountsOpen
      <3> QED
        BY <1>5, <1>8, <1>9, <2>1, <3>1 DEF Precedes, Units
    <2> QED
      BY <2>2, <2>3
  <1> QED
    BY <1>12, <1>13

(* The accounts that are left when a unit is taken from the first of them. *)
TakenFrom(A) == IF A[1].left = 1 THEN Tail(A) ELSE [A EXCEPT ![1].left = @ - 1]

(* Where the accounts R that are left come from. *)
Shifted(R, A) == Len(R) = Len(A) - 1 /\ \A i \in 1..Len(R) : R[i] = A[i + 1]
CountedDown(R, A) ==
  /\ Len(R) = Len(A) /\ R[1].chunk = A[1].chunk /\ R[1].left = A[1].left - 1
  /\ \A i \in 2..Len(A) : R[i] = A[i]

(* Taking one unit from the first account counts it down, or closes it with its
   last unit. *)
LEMMA TakenFields ==
  ASSUME NEW A \in Seq(Accounts), Len(A) # 0, A[1].left >= 1
  PROVE  /\ TakenFrom(A) \in Seq(Accounts)
         /\ \/ A[1].left = 1 /\ Shifted(TakenFrom(A), A)
            \/ A[1].left # 1 /\ CountedDown(TakenFrom(A), A)
  <1>1. PICK n \in Nat : n = Len(A) /\ n >= 1
    OBVIOUS
  <1>2. PICK a \in Accounts : a = A[1]
    BY <1>1
  <1>3. a.left \in Nat
    BY DEF Accounts
  <1>4. CASE a.left = 1
    <2>1. TakenFrom(A) = Tail(A)
      BY <1>2, <1>4 DEF TakenFrom
    <2>2. Tail(A) \in Seq(Accounts) /\ Len(Tail(A)) = n - 1
      BY <1>1
    <2>3. \A i \in 1..(n - 1) : Tail(A)[i] = A[i + 1]
      BY <1>1
    <2> QED
      BY <1>1, <1>2, <1>4, <2>1, <2>2, <2>3 DEF Shifted
  <1>5. CASE a.left # 1
    <2>1. PICK x \in Accounts : x = [a EXCEPT !.left = @ - 1]
      <3>1. PICK l \in Nat : l = a.left - 1
        BY <1>2, <1>3
      <3>2. [a EXCEPT !.left = l] \in Accounts
        BY DEF Accounts
      <3> QED
        BY <3>1, <3>2
    <2>2. x.chunk = a.chunk /\ x.left = a.left - 1
      BY <2>1 DEF Accounts
    <2>3. TakenFrom(A) = [A EXCEPT ![1] = x]
      BY <1>1, <1>2, <1>5, <2>1 DEF TakenFrom
    <2>4. [A EXCEPT ![1] = x] \in Seq(Accounts) /\ Len([A EXCEPT ![1] = x]) = n
      BY <1>1
    <2>5. [A EXCEPT ![1] = x][1] = x /\ \A i \in 2..n : [A EXCEPT ![1] = x][i] = A[i]
      BY <1>1
    <2> QED
      BY <1>1, <1>2, <1>5, <2>2, <2>3, <2>4, <2>5 DEF CountedDown
  <1> QED
    BY <1>4, <1>5

(* What the first account covers before and after. *)
LEMMA CoversLess ==
  ASSUME NEW a \in Accounts, NEW r \in Accounts, NEW ch \in Seq(Chunks), NEW u \in Units,
         a.chunk \in 1..Len(ch), a.left >= 1, a.left <= ch[a.chunk].size
  PROVE  LET m == Unit(a.chunk, ch[a.chunk].size - a.left + 1)
         IN  /\ a.left = 1 => (Covers(a, ch, u) <=> u = m)
             /\ r.chunk = a.chunk /\ r.left = a.left - 1 =>
                  (Covers(r, ch, u) <=> Covers(a, ch, u) /\ u # m)
  <1>1. ch[a.chunk] \in Chunks
    OBVIOUS
  <1>2. PICK c \in Nat, l \in Nat, z \in Nat :
          c = a.chunk /\ l = a.left /\ z = ch[c].size /\ 1 <= l /\ l <= z
    BY <1>1 DEF Accounts, Chunks
  <1>3. PICK x \in Nat, nr \in Nat : x = u.chunk /\ nr = u.nr /\ u = Unit(x, nr)
    BY UnitIs
  <1>4. PICK k \in Nat : k = z - l + 1
    BY <1>2
  <1>5. u = Unit(c, k) <=> x = c /\ nr = k
    BY <1>3, UnitFields
  <1>6. Covers(a, ch, u) <=> c = x /\ nr > z - l /\ nr <= z
    BY <1>2, <1>3, Zenon DEF Covers
  <1>7. ASSUME r.chunk = a.chunk, r.left = a.left - 1
        PROVE  Covers(r, ch, u) <=> c = x /\ nr > z - (l - 1) /\ nr <= z
    <2>1. r.chunk = c /\ r.left = l - 1
      BY <1>2, <1>7
    <2> QED
      BY <1>2, <1>3, <2>1, Zenon DEF Covers
  <1>8. Unit(a.chunk, ch[a.chunk].size - a.left + 1) = Unit(c, k)
    BY <1>2, <1>4, Zenon
  <1>9. l = 1 => (nr > z - l /\ nr <= z <=> nr = k)
    BY <1>2, <1>4
  <1>10. nr > z - (l - 1) /\ nr <= z <=> nr > z - l /\ nr <= z /\ nr # k
    <2>1. nr > z - (l - 1) <=> nr > k
      BY <1>4
    <2>2. nr > z - l <=> nr >= k
      BY <1>4
    <2>3. nr > k <=> nr >= k /\ nr # k
      OBVIOUS
    <2> QED
      BY <2>1, <2>2, <2>3
  <1>11. a.left = 1 <=> l = 1
    BY <1>2
  <1> HIDE DEF Covers
  <1> QED
    BY <1>5, <1>6, <1>7, <1>8, <1>9, <1>10, <1>11, Zenon

(* The accounts that are left cover every unit but the one that was taken. *)
LEMMA TakenAccounts ==
  ASSUME NEW A \in Seq(Accounts), NEW ch \in Seq(Chunks), Len(A) # 0, AccountsOpen(A, ch),
         NEW R \in Seq(Accounts),
         \/ A[1].left = 1 /\ Shifted(R, A)
         \/ A[1].left # 1 /\ CountedDown(R, A)
  PROVE  /\ AccountsOpen(R, ch)
         /\ \A u \in Units :
              Accounted(R, ch, u) <=>
                /\ Accounted(A, ch, u)
                /\ u # Unit(A[1].chunk, ch[A[1].chunk].size - A[1].left + 1)
  <1> DEFINE m == Unit(A[1].chunk, ch[A[1].chunk].size - A[1].left + 1)
  <1>1. PICK n \in Nat : n = Len(A) /\ n >= 1
    OBVIOUS
  <1>2. PICK a \in Accounts : a = A[1]
    BY <1>1
  <1>3. a.chunk \in 1..Len(ch) /\ a.left >= 1 /\ a.left <= ch[a.chunk].size
    BY <1>1, <1>2 DEF AccountsOpen
  <1>4. \A i \in 2..n : A[i] \in Accounts /\ A[i].chunk # a.chunk
    <2> TAKE i \in 2..n
    <2>1. A[i] \in Accounts /\ a.chunk < A[i].chunk
      BY <1>1, <1>2 DEF AccountsOpen
    <2> QED
      BY <2>1 DEF Accounts
  <1>5. \A u \in Units, i \in 2..n : Covers(A[i], ch, u) => u # m
    <2> TAKE u \in Units, i \in 2..n
    <2>1. m.chunk = a.chunk
      BY <1>2 DEF Unit
    <2> HIDE DEF m
    <2> QED
      BY <1>4, <2>1 DEF Covers
  <1>6. CASE A[1].left = 1 /\ Shifted(R, A)
    <2>1. Len(R) = n - 1 /\ \A i \in 1..(n - 1) : R[i] = A[i + 1] /\ i + 1 \in 2..n
      BY <1>1, <1>6 DEF Shifted
    <2>2. AccountsOpen(R, ch)
      <3>1. \A i \in 1..n : /\ A[i].chunk \in 1..Len(ch)
                             /\ A[i].left >= 1 /\ A[i].left <= ch[A[i].chunk].size
        BY <1>1 DEF AccountsOpen
      <3>2. \A i, j \in 1..n : i < j => A[i].chunk < A[j].chunk
        BY <1>1 DEF AccountsOpen
      <3>3. \A i \in 1..(n - 1) : /\ R[i].chunk \in 1..Len(ch)
                                   /\ R[i].left >= 1 /\ R[i].left <= ch[R[i].chunk].size
        <4> TAKE i \in 1..(n - 1)
        <4>1. i + 1 \in 1..n /\ R[i] = A[i + 1]
          BY <2>1
        <4> QED
          BY <3>1, <4>1
      <3>4. ASSUME NEW i \in 1..(n - 1), NEW j \in 1..(n - 1), i < j
            PROVE  R[i].chunk < R[j].chunk
        <4>1. i + 1 \in 1..n /\ j + 1 \in 1..n /\ i + 1 < j + 1
          BY <3>4
        <4>2. R[i] = A[i + 1] /\ R[j] = A[j + 1]
          BY <2>1
        <4> QED
          BY <3>2, <4>1, <4>2
      <3> QED
        BY <2>1, <3>3, <3>4 DEF AccountsOpen
    <2>3. \A u \in Units : Covers(a, ch, u) <=> u = m
      BY <1>2, <1>3, <1>6, CoversLess
    <2> HIDE DEF m
    <2>4. \A u \in Units : Accounted(A, ch, u) <=> Covers(a, ch, u) \/ \E i \in 2..n : Covers(A[i], ch, u)
      <3>1. \A i \in 1..n : i = 1 \/ i \in 2..n
        OBVIOUS
      <3> QED
        BY <1>1, <1>2, <3>1 DEF Accounted
    <2>5. \A u \in Units : Accounted(R, ch, u) <=> \E i \in 2..n : Covers(A[i], ch, u)
      <3>1. \A i \in 2..n : i - 1 \in 1..(n - 1) /\ R[i - 1] = A[i]
        <4> TAKE i \in 2..n
        <4>1. i - 1 \in 1..(n - 1) /\ (i - 1) + 1 = i
          OBVIOUS
        <4> QED
          BY <2>1, <4>1
      <3> QED
        BY <2>1, <3>1 DEF Accounted
    <2> QED
      BY <1>5, <2>2, <2>3, <2>4, <2>5 DEF m
  <1>7. CASE A[1].left # 1 /\ CountedDown(R, A)
    <2>1. PICK r \in Accounts : r = R[1]
      BY <1>1, <1>7 DEF CountedDown
    <2>2. /\ Len(R) = n /\ r.chunk = a.chunk /\ r.left = a.left - 1
          /\ \A i \in 2..n : R[i] = A[i]
      BY <1>1, <1>2, <1>7, <2>1 DEF CountedDown
    <2>3. AccountsOpen(R, ch)
      <3>1. \A i \in 1..n : /\ A[i].chunk \in 1..Len(ch)
                             /\ A[i].left >= 1 /\ A[i].left <= ch[A[i].chunk].size
        BY <1>1 DEF AccountsOpen
      <3>2. \A i, j \in 1..n : i < j => A[i].chunk < A[j].chunk
        BY <1>1 DEF AccountsOpen
      <3>3. \A i \in 1..n : R[i].chunk = A[i].chunk
        <4> TAKE i \in 1..n
        <4>1. i = 1 \/ i \in 2..n
          OBVIOUS
        <4> QED
          BY <1>2, <2>1, <2>2, <4>1
      <3>4. r.left >= 1 /\ r.left <= ch[r.chunk].size
        <4>1. ch[a.chunk] \in Chunks
          BY <1>3
        <4>2. PICK l \in Nat, z \in Nat : l = a.left /\ z = ch[a.chunk].size
          BY <4>1 DEF Accounts, Chunks
        <4>3. l >= 1 /\ l # 1 /\ l <= z
          BY <1>2, <1>3, <1>7, <4>2
        <4>4. l - 1 >= 1 /\ l - 1 <= z
          BY <4>3
        <4> QED
          BY <2>2, <4>2, <4>4
      <3>5. \A i \in 1..n : /\ R[i].chunk \in 1..Len(ch)
                             /\ R[i].left >= 1 /\ R[i].left <= ch[R[i].chunk].size
        <4> TAKE i \in 1..n
        <4>1. i = 1 \/ i \in 2..n
          OBVIOUS
        <4> QED
          BY <2>1, <2>2, <3>1, <3>3, <3>4, <4>1
      <3>6. \A i, j \in 1..n : i < j => R[i].chunk < R[j].chunk
        BY <3>2, <3>3
      <3> QED
        BY <2>2, <3>5, <3>6 DEF AccountsOpen
    <2>4. \A u \in Units : Covers(r, ch, u) <=> Covers(a, ch, u) /\ u # m
      BY <1>2, <1>3, <2>2, CoversLess
    <2> HIDE DEF m
    <2>5. \A i \in 1..n : i = 1 \/ i \in 2..n
      OBVIOUS
    <2>6. \A u \in Units : Accounted(A, ch, u) <=> Covers(a, ch, u) \/ \E i \in 2..n : Covers(A[i], ch, u)
      BY <1>1, <1>2, <2>5 DEF Accounted
    <2>7. \A u \in Units : Accounted(R, ch, u) <=> Covers(r, ch, u) \/ \E i \in 2..n : Covers(A[i], ch, u)
      BY <1>1, <2>1, <2>2, <2>5 DEF Accounted
    <2> QED
      BY <1>5, <2>3, <2>4, <2>6, <2>7 DEF m
  <1> QED
    BY <1>6, <1>7

(* A unit less to be accounted for. *)
LEMMA ConsumeUnitTakes ==
  ASSUME NEW B \in Seq(Units), NEW A \in Seq(Accounts), NEW ch \in Seq(Chunks),
         NEW k \in Nat, k < Len(B), InOrder(B), AccountInv(k, B, A, ch)
  PROVE  TakenFrom(A) \in Seq(Accounts) /\ AccountInv(k + 1, B, TakenFrom(A), ch)
  <1>1. PICK n \in Nat : n = Len(B) /\ k + 1 \in 1..n
    OBVIOUS
  <1>2. /\ Len(A) \in Nat \ {0} /\ AccountsOpen(A, ch)
        /\ B[k + 1] = Unit(A[1].chunk, ch[A[1].chunk].size - A[1].left + 1)
    BY FirstUnitIsOfFirstAccount DEF AccountInv
  <1>3. A[1].left >= 1
    BY <1>2 DEF AccountsOpen
  <1>4. /\ TakenFrom(A) \in Seq(Accounts)
        /\ \/ A[1].left = 1 /\ Shifted(TakenFrom(A), A)
           \/ A[1].left # 1 /\ CountedDown(TakenFrom(A), A)
    BY <1>2, <1>3, TakenFields
  <1>5. PICK R \in Seq(Accounts) : R = TakenFrom(A)
    BY <1>4
  <1>6. /\ AccountsOpen(R, ch)
        /\ \A u \in Units : Accounted(R, ch, u) <=> Accounted(A, ch, u) /\ u # B[k + 1]
    BY <1>2, <1>4, <1>5, TakenAccounts
  <1>7. \A i \in 1..n : B[i] \in Units
    BY <1>1
  <1>8. \A i \in 1..n : i > k + 1 => B[i] # B[k + 1]
    BY <1>1, <1>7, PrecedesIsStrict DEF InOrder
  <1>9. \A i \in 1..n : i > k + 1 => Accounted(R, ch, B[i])
    <2>1. \A i \in 1..n : i > k => Accounted(A, ch, B[i])
      BY <1>1 DEF AccountInv
    <2>2. \A i \in 1..n : i > k + 1 => i > k
      OBVIOUS
    <2> QED
      BY <1>6, <1>7, <1>8, <2>1, <2>2
  <1>10. ASSUME NEW u \in Units, Accounted(R, ch, u)
         PROVE  \E i \in 1..n : i > k + 1 /\ B[i] = u
    <2>1. Accounted(A, ch, u) /\ u # B[k + 1]
      BY <1>6, <1>10
    <2>2. PICK i \in 1..n : i > k /\ B[i] = u
      BY <1>1, <2>1 DEF AccountInv
    <2>3. i # k + 1
      BY <2>1, <2>2
    <2> QED
      BY <2>2, <2>3
  <1> QED
    BY <1>1, <1>4, <1>5, <1>6, <1>9, <1>10 DEF AccountInv

(* _consume_buffered_sources leaves the accounts of what is not in the packet, and
   names the messages of what is. *)
LEMMA ConsumeSourcesTakes ==
  ASSUME NEW B \in Seq(Units), NEW A \in Seq(Accounts), NEW ch \in Seq(Chunks),
         Packet <= Len(B), InOrder(B), AccountInv(0, B, A, ch)
  PROVE  /\ ConsumeSources(A).rest \in Seq(Accounts)
         /\ AccountInv(Packet, B, ConsumeSources(A).rest, ch)
         /\ ConsumeSources(A).window = {B[i].chunk : i \in 1..Packet}
  <1>0. Packet \in Nat
    BY CallAssumption
  <1>1. PICK done : /\ done[0] = [window |-> {}, rest |-> A]
                    /\ \A i \in 1..Packet : done[i] = ConsumeUnit(done[i - 1])
                    /\ ConsumeSources(A) = done[Packet]
    BY ConsumeSourcesUnfolds
  <1> DEFINE First(k) == {B[i].chunk : i \in 1..k}
             Right(k) == /\ done[k].rest \in Seq(Accounts)
                         /\ AccountInv(k, B, done[k].rest, ch)
                         /\ done[k].window = First(k)
             Good == {k \in Nat : Right(k)}
  <1>2. 0 \in Good
    <2>1. done[0].rest = A /\ done[0].window = {}
      BY <1>1
    <2>2. First(0) = {}
      OBVIOUS
    <2> HIDE DEF First
    <2> QED
      BY <2>1, <2>2
  <1>3. ASSUME NEW k \in 1..Packet, k - 1 \in Good PROVE k \in Good
    <2>1. Right(k - 1) /\ k - 1 \in Nat /\ k \in Nat
      BY <1>0, <1>3
    <2>2. PICK j \in Nat : j = k - 1 /\ j < Len(B) /\ k = j + 1
      BY <1>0, <2>1
    <2>3. PICK R \in Seq(Accounts) : R = done[k - 1].rest
      BY <2>1
    <2>4. AccountInv(j, B, R, ch)
      BY <2>1, <2>2, <2>3
    <2>5. TakenFrom(R) \in Seq(Accounts) /\ AccountInv(j + 1, B, TakenFrom(R), ch)
      BY <2>2, <2>4, ConsumeUnitTakes
    <2>6. Len(R) \in Nat \ {0} /\ B[j + 1] = Unit(R[1].chunk, ch[R[1].chunk].size - R[1].left + 1)
      BY <2>2, <2>4, FirstUnitIsOfFirstAccount
    <2>7. Head(R) = R[1] /\ B[k].chunk = R[1].chunk
      BY <2>2, <2>6 DEF Unit
    <2>8. done[k] = ConsumeUnit(done[k - 1])
      BY <1>1
    <2>9. /\ done[k].window = done[k - 1].window \cup {B[k].chunk}
          /\ done[k].rest = TakenFrom(R)
      BY <2>3, <2>7, <2>8 DEF ConsumeUnit, TakenFrom
    <2>10. First(k) = First(k - 1) \cup {B[k].chunk}
      BY <2>2
    <2> HIDE DEF First
    <2> QED
      BY <2>1, <2>2, <2>5, <2>9, <2>10
  <1>4. Packet \in Good
    <2> HIDE DEF Good
    <2>1. \A k \in 0..Packet : k \in Good
      BY <1>0, <1>2, <1>3, InductionUpTo
    <2> QED
      BY <1>0, <2>1
  <1> QED
    BY <1>1, <1>4

-----------------------------------------------------------------------------
(* The packet buffer is cut *)

IsCut(B, k, P, Q) ==
  /\ Len(P) = k /\ \A i \in 1..k : P[i] = B[i]
  /\ Len(Q) = Len(B) - k /\ \A i \in 1..(Len(B) - k) : Q[i] = B[i + k]

(* del buffer[:n] after buffer[:n]: a cut splits the units into the packet and the
   rest, in their order. *)
LEMMA CutParts ==
  ASSUME NEW B \in Seq(Units), NEW k \in Nat, k <= Len(B)
  PROVE  /\ SubSeq(B, 1, k) \in Seq(Units) /\ SubSeq(B, k + 1, Len(B)) \in Seq(Units)
         /\ IsCut(B, k, SubSeq(B, 1, k), SubSeq(B, k + 1, Len(B)))
  <1>1. PICK n \in Nat : n = Len(B) /\ k <= n
    OBVIOUS
  <1>2. SubSeq(B, 1, k) \in Seq(Units) /\ Len(SubSeq(B, 1, k)) = k
    BY <1>1
  <1>3. \A i \in 1..k : SubSeq(B, 1, k)[i] = B[i]
    BY <1>1
  <1>4. SubSeq(B, k + 1, n) \in Seq(Units) /\ Len(SubSeq(B, k + 1, n)) = n - k
    BY <1>1
  <1>5. \A i \in 1..(n - k) : SubSeq(B, k + 1, n)[i] = B[i + k]
    BY <1>1
  <1> QED
    BY <1>1, <1>2, <1>3, <1>4, <1>5 DEF IsCut

(* The units of the two parts are those of the whole, in order. *)
LEMMA CutUnits ==
  ASSUME NEW B \in Seq(Units), NEW k \in Nat, k <= Len(B), NEW P \in Seq(Units),
         NEW Q \in Seq(Units), IsCut(B, k, P, Q)
  PROVE  /\ Range(B) = Range(P) \cup Range(Q)
         /\ Range(P) = {B[i] : i \in 1..k}
         /\ InOrder(B) => /\ InOrder(P) /\ InOrder(Q)
                          /\ \A a \in Range(P), b \in Range(Q) : Precedes(a, b)
  <1>1. PICK n \in Nat : n = Len(B) /\ k <= n
    OBVIOUS
  <1>2. /\ DOMAIN P = 1..k /\ DOMAIN Q = 1..(n - k) /\ DOMAIN B = 1..n
        /\ Len(P) = k /\ Len(Q) = n - k
    BY <1>1 DEF IsCut
  <1>3. /\ \A i \in 1..k : P[i] = B[i] /\ i \in 1..n
        /\ \A i \in 1..(n - k) : Q[i] = B[i + k] /\ i + k \in 1..n /\ i + k > k
    BY <1>1 DEF IsCut
  <1>4. \A i \in 1..n : i \in 1..k \/ (i - k \in 1..(n - k) /\ (i - k) + k = i)
    BY <1>1
  <1>5. Range(P) = {B[i] : i \in 1..k}
    BY <1>2, <1>3 DEF Range
  <1>6. Range(B) = Range(P) \cup Range(Q)
    <2>1. Range(P) \cup Range(Q) \subseteq Range(B)
      <3>1. \A i \in 1..n : B[i] \in Range(B)
        BY <1>2 DEF Range
      <3>2. \A i \in 1..k : P[i] \in Range(B)
        BY <1>3, <3>1
      <3>3. \A i \in 1..(n - k) : Q[i] \in Range(B)
        BY <1>3, <3>1
      <3>4. Range(P) = {P[i] : i \in 1..k} /\ Range(Q) = {Q[i] : i \in 1..(n - k)}
        BY <1>2 DEF Range
      <3> QED
        BY <3>2, <3>3, <3>4
    <2>2. ASSUME NEW i \in 1..n PROVE B[i] \in Range(P) \cup Range(Q)
      <3>1. CASE i \in 1..k
        BY <1>2, <1>3, <3>1 DEF Range
      <3>2. CASE i - k \in 1..(n - k) /\ (i - k) + k = i
        <4>1. Q[i - k] = B[i]
          BY <1>3, <3>2
        <4> QED
          BY <1>2, <3>2, <4>1 DEF Range
      <3> QED
        BY <1>4, <3>1, <3>2
    <2> QED
      BY <1>2, <2>1, <2>2 DEF Range
  <1>7. ASSUME InOrder(B)
        PROVE  /\ InOrder(P) /\ InOrder(Q)
               /\ \A a \in Range(P), b \in Range(Q) : Precedes(a, b)
    <2>1. \A i, j \in 1..n : i < j => Precedes(B[i], B[j])
      BY <1>1, <1>7 DEF InOrder
    <2>2. InOrder(P)
      BY <1>2, <1>3, <2>1 DEF InOrder
    <2>3. InOrder(Q)
      <3> SUFFICES ASSUME NEW i \in 1..(n - k), NEW j \in 1..(n - k), i < j
                   PROVE  Precedes(Q[i], Q[j])
        BY <1>2 DEF InOrder
      <3>1. i + k < j + k
        OBVIOUS
      <3> QED
        BY <1>3, <2>1, <3>1
    <2>4. ASSUME NEW i \in 1..k, NEW j \in 1..(n - k) PROVE Precedes(P[i], Q[j])
      <3>1. i < j + k
        BY <1>3
      <3> QED
        BY <1>3, <2>1, <3>1
    <2> QED
      BY <1>2, <2>2, <2>3, <2>4 DEF Range
  <1> QED
    BY <1>5, <1>6, <1>7

(* What the accounts after the k-th unit are of. *)
LEMMA CutAccounts ==
  ASSUME NEW B \in Seq(Units), NEW k \in Nat, k <= Len(B), NEW P \in Seq(Units),
         NEW Q \in Seq(Units), IsCut(B, k, P, Q), NEW R, NEW ch, AccountInv(k, B, R, ch)
  PROVE  AccountInv(0, Q, R, ch)
  <1>1. PICK n \in Nat : n = Len(B) /\ k <= n
    OBVIOUS
  <1>2. Len(Q) = n - k /\ \A i \in 1..(n - k) : Q[i] = B[i + k] /\ i + k \in 1..n /\ i + k > k
    BY <1>1 DEF IsCut
  <1>3. \A i \in 1..(n - k) : Accounted(R, ch, Q[i])
    BY <1>1, <1>2 DEF AccountInv
  <1>4. ASSUME NEW u \in Units, Accounted(R, ch, u)
        PROVE  \E i \in 1..(n - k) : i > 0 /\ Q[i] = u
    <2>1. PICK i \in 1..n : i > k /\ B[i] = u
      BY <1>1, <1>4 DEF AccountInv
    <2>2. i - k \in 1..(n - k) /\ (i - k) + k = i /\ i - k > 0
      BY <1>1, <2>1
    <2> QED
      BY <1>2, <2>1, <2>2
  <1>5. AccountsOpen(R, ch)
    BY DEF AccountInv
  <1> QED
    BY <1>2, <1>3, <1>4, <1>5 DEF AccountInv

-----------------------------------------------------------------------------
(* Packets change their fate, and a packet is queued *)

SamePackets(F, G) ==
  /\ Len(G) = Len(F)
  /\ \A f \in 1..Len(F) : /\ G[f].position = F[f].position /\ G[f].window = F[f].window
                          /\ G[f].units = F[f].units

(* The packets in S are of another fate, and no others. *)
Refated(F, G, S, fate) ==
  /\ SamePackets(F, G)
  /\ \A f \in 1..Len(F) : IF f \in S THEN G[f].fate = fate ELSE G[f] = F[f]

(* Their order has nothing to do with it. *)
LEMMA OrderStays ==
  ASSUME NEW F, NEW G, NEW B, SamePackets(F, G), OrderInv(F, B)
  PROVE  OrderInv(G, B)
  BY DEF SamePackets, OrderInv

(* Packets that are dropped, written or, all that are queued, discarded. *)
LEMMA FateIsRight ==
  ASSUME NEW F, NEW G, NEW S, NEW fate, NEW ch \in Seq(Chunks), NEW e \in Nat,
         Refated(F, G, S, fate), FrameInv(F, ch, e),
         \/ fate = "dropped"
         \/ fate = "written" /\ \A f \in 1..Len(F) : f \in S => F[f].fate = "queued" /\ G[f].epoch = e
  PROVE  FrameInv(G, ch, e)
  <1> SUFFICES ASSUME NEW f \in 1..Len(F) PROVE FrameIs(G[f], ch, e)
    BY DEF FrameInv, Refated, SamePackets
  <1>1. FrameIs(F[f], ch, e)
    BY DEF FrameInv
  <1>2. CASE f \notin S
    BY <1>1, <1>2 DEF Refated
  <1>3. CASE f \in S
    <2>1. G[f].window = F[f].window /\ G[f].units = F[f].units /\ G[f].fate = fate
      BY <1>3 DEF Refated, SamePackets
    <2>2. CASE fate = "dropped"
      BY <1>1, <2>1, <2>2 DEF FrameIs
    <2>3. CASE fate = "written" /\ F[f].fate = "queued" /\ G[f].epoch = e
      BY <1>1, <2>1, <2>3 DEF FrameIs
    <2> QED
      BY <1>3, <2>2, <2>3
  <1> QED
    BY <1>2, <1>3

(* After clear, what is known of the packets is known of them at the next barge-in
   number. *)
LEMMA DiscardedIsRight ==
  ASSUME NEW F, NEW G, NEW S, NEW ch \in Seq(Chunks), NEW e \in Nat,
         Refated(F, G, S, "discarded"), FrameInv(F, ch, e),
         \A f \in 1..Len(F) : f \in S <=> F[f].fate = "queued"
  PROVE  FrameInv(G, ch, e + 1)
  <1> SUFFICES ASSUME NEW f \in 1..Len(F) PROVE FrameIs(G[f], ch, e + 1)
    BY DEF FrameInv, Refated, SamePackets
  <1>1. FrameIs(F[f], ch, e)
    BY DEF FrameInv
  <1>2. \A u \in Range(F[f].units) : ch[u.chunk].epoch \in Nat
    <2> TAKE u \in Range(F[f].units)
    <2>1. u.chunk \in 1..Len(ch)
      BY <1>1 DEF FrameIs, Known
    <2>2. ch[u.chunk] \in Chunks
      BY <2>1
    <2> QED
      BY <2>2 DEF Chunks
  <1>3. CASE f \notin S
    <2>1. G[f] = F[f] /\ F[f].fate # "queued"
      BY <1>3 DEF Refated
    <2>2. \A u \in Range(F[f].units) : F[f].fate = "discarded" => ch[u.chunk].epoch < e + 1
      <3> TAKE u \in Range(F[f].units)
      <3>1. PICK n \in Nat : n = ch[u.chunk].epoch
        BY <1>2
      <3>2. F[f].fate = "discarded" => n < e
        BY <1>1, <3>1 DEF FrameIs
      <3>3. n < e => n < e + 1
        OBVIOUS
      <3> QED
        BY <3>1, <3>2, <3>3
    <2> QED
      BY <1>1, <2>1, <2>2 DEF FrameIs
  <1>4. CASE f \in S
    <2>1. /\ G[f].window = F[f].window /\ G[f].units = F[f].units /\ G[f].fate = "discarded"
          /\ F[f].fate = "queued"
      BY <1>4 DEF Refated, SamePackets
    <2>2. \A u \in Range(F[f].units) : ch[u.chunk].epoch < e + 1
      BY <1>1, <2>1 DEF FrameIs
    <2> QED
      BY <1>1, <2>1, <2>2 DEF FrameIs
  <1> QED
    BY <1>3, <1>4

(* As long as nothing is discarded the answer is whole. *)
LEMMA WholeStays ==
  ASSUME NEW F, NEW G, NEW S, NEW fate, NEW B, NEW item, NEW ch, NEW e,
         Refated(F, G, S, fate), fate # "discarded", WholeInv(F, B, item, ch, e)
  PROVE  WholeInv(G, B, item, ch, e)
  <1>1. ASSUME NEW f \in 1..Len(F), F[f].fate # "discarded"
        PROVE  f \in 1..Len(G) /\ G[f].fate # "discarded" /\ G[f].units = F[f].units
    BY <1>1 DEF Refated, SamePackets
  <1> QED
    BY <1>1 DEF WholeInv, Holds

-----------------------------------------------------------------------------
(* The queue *)

(* The packets that were lost can be counted. *)
LEMMA LostIsFinite ==
  ASSUME NEW F \in Seq(Frames)
  PROVE  IsFiniteSet(Lost(F)) /\ Cardinality(Lost(F)) \in Nat
  <1>1. IsFiniteSet(1..Len(F))
    BY FS_Interval
  <1>2. Lost(F) \subseteq 1..Len(F)
    BY DEF Lost
  <1> QED
    BY <1>1, <1>2, FS_Subset, FS_CardinalityType

(* The members of the queue are the youngest packets. *)
LEMMA QueueIsInterval ==
  ASSUME NEW F \in Seq(Frames), NEW q \in Seq(Nat), NEW d, QueueInv(F, q, d)
  PROVE  /\ Range(q) = (Len(F) - Len(q) + 1)..Len(F)
         /\ IsFiniteSet(Range(q)) /\ Cardinality(Range(q)) = Len(q)
         /\ \A f \in 1..Len(F) : f \in Range(q) <=> F[f].fate = "queued"
         /\ Range(q) \subseteq 1..Len(F)
  <1>1. PICK n \in Nat, m \in Nat : n = Len(F) /\ m = Len(q) /\ m <= n /\ DOMAIN q = 1..m
    BY DEF QueueInv
  <1>2. \A i \in 1..m : q[i] = n - m + i
    BY <1>1 DEF QueueInv
  <1>3. \A f \in 1..n : F[f].fate = "queued" <=> f > n - m
    BY <1>1 DEF QueueInv
  <1>4. Range(q) = (n - m + 1)..n
    <2>1. \A i \in 1..m : q[i] \in (n - m + 1)..n
      BY <1>1, <1>2
    <2>2. ASSUME NEW f \in (n - m + 1)..n PROVE f \in Range(q)
      <3>1. f - (n - m) \in 1..m /\ n - m + (f - (n - m)) = f
        BY <1>1
      <3>2. q[f - (n - m)] = f
        BY <1>2, <3>1
      <3> QED
        BY <1>1, <3>1, <3>2 DEF Range
    <2> QED
      BY <1>1, <2>1, <2>2 DEF Range
  <1>5. IsFiniteSet((n - m + 1)..n) /\ Cardinality((n - m + 1)..n) = m
    <2>1. PICK a \in Int : a = n - m + 1
      OBVIOUS
    <2>2. IsFiniteSet(a..n) /\ Cardinality(a..n) = IF a > n THEN 0 ELSE n - a + 1
      BY FS_Interval
    <2> QED
      BY <1>1, <2>1, <2>2
  <1>6. \A f \in 1..n : f \in (n - m + 1)..n <=> f > n - m
    BY <1>1
  <1>7. (n - m + 1)..n \subseteq 1..n
    BY <1>1
  <1> QED
    BY <1>1, <1>3, <1>4, <1>5, <1>6, <1>7

(* The oldest packet leaves the queue. *)
LEMMA HeadLeaves ==
  ASSUME NEW F \in Seq(Frames), NEW G \in Seq(Frames), NEW q \in Seq(Nat), NEW d \in Nat,
         NEW fate \in {"dropped", "written"}, QueueInv(F, q, d), q # <<>>,
         Refated(F, G, {Head(q)}, fate)
  PROVE  /\ Head(q) \in 1..Len(F) /\ F[Head(q)].fate = "queued"
         /\ Tail(q) \in Seq(Nat) /\ Len(Tail(q)) = Len(q) - 1
         /\ QueueInv(G, Tail(q), IF fate = "dropped" THEN d + 1 ELSE d)
  <1>1. PICK n \in Nat, m \in Nat : n = Len(F) /\ m = Len(q) /\ m <= n /\ m <= BufferSize
    BY DEF QueueInv
  <1>2. m >= 1
    BY <1>1
  <1>3. \A i \in 1..m : q[i] = n - m + i
    BY <1>1 DEF QueueInv
  <1>4. PICK h \in Nat : h = n - m + 1 /\ h = Head(q) /\ h \in 1..n
    <2>1. Head(q) = q[1] /\ 1 \in 1..m
      BY <1>1, <1>2
    <2> QED
      BY <1>1, <1>2, <1>3, <2>1
  <1>5. Tail(q) \in Seq(Nat) /\ Len(Tail(q)) = m - 1
    BY <1>1, <1>2
  <1>6. \A i \in 1..(m - 1) : Tail(q)[i] = n - (m - 1) + i
    <2> TAKE i \in 1..(m - 1)
    <2>1. Tail(q)[i] = q[i + 1] /\ i + 1 \in 1..m
      BY <1>1, <1>2
    <2>2. q[i + 1] = n - m + (i + 1)
      BY <1>3, <2>1
    <2>3. n - m + (i + 1) = n - (m - 1) + i
      BY <1>1
    <2> QED
      BY <2>1, <2>2, <2>3
  <1>7. \A f \in 1..n : F[f].fate = "queued" <=> f > n - m
    BY <1>1 DEF QueueInv
  <1>8. F[h].fate = "queued"
    BY <1>4, <1>7
  <1>9. Len(G) = n /\ G[h].fate = fate /\ \A f \in 1..n : f # h => G[f] = F[f]
    BY <1>1, <1>4 DEF Refated, SamePackets
  <1>10. \A f \in 1..n : G[f].fate = "queued" <=> f > n - (m - 1)
    <2> TAKE f \in 1..n
    <2>1. CASE f = h
      BY <1>4, <1>9, <2>1
    <2>2. CASE f # h
      BY <1>4, <1>7, <1>9, <2>2
    <2> QED
      BY <2>1, <2>2
  <1>11. (IF fate = "dropped" THEN d + 1 ELSE d) = Cardinality(Lost(G))
    <2>1. d = Cardinality(Lost(F)) /\ h \notin Lost(F)
      BY <1>8 DEF QueueInv, Lost
    <2>2. CASE fate = "dropped"
      <3>1. Lost(G) = Lost(F) \cup {h}
        BY <1>1, <1>4, <1>9, <2>2 DEF Lost
      <3>2. Cardinality(Lost(F) \cup {h}) = Cardinality(Lost(F)) + 1
        BY <2>1, LostIsFinite, FS_AddElement
      <3> QED
        BY <2>1, <2>2, <3>1, <3>2
    <2>3. CASE fate = "written"
      <3>1. Lost(G) = Lost(F)
        BY <1>1, <1>4, <1>8, <1>9, <2>3 DEF Lost
      <3> QED
        BY <2>1, <2>3, <3>1
    <2> QED
      BY <2>2, <2>3
  <1>12. m - 1 <= n /\ m - 1 <= BufferSize
    BY <1>1, <1>2, CallAssumption
  <1> QED
    BY <1>1, <1>4, <1>5, <1>6, <1>8, <1>9, <1>10, <1>11, <1>12 DEF QueueInv

(* A packet is put into the queue. *)
LEMMA PacketIsQueued ==
  ASSUME NEW F \in Seq(Frames), NEW q \in Seq(Nat), NEW d, QueueInv(F, q, d),
         Len(q) < BufferSize, NEW x \in Frames, x.fate = "queued"
  PROVE  /\ Append(q, Len(F) + 1) \in Seq(Nat) /\ Append(F, x) \in Seq(Frames)
         /\ QueueInv(Append(F, x), Append(q, Len(F) + 1), d)
  <1>1. PICK n \in Nat, m \in Nat : n = Len(F) /\ m = Len(q) /\ m <= n /\ m < BufferSize
    BY DEF QueueInv
  <1>2. \A i \in 1..m : q[i] = n - m + i
    BY <1>1 DEF QueueInv
  <1>3. \A f \in 1..n : F[f].fate = "queued" <=> f > n - m
    BY <1>1 DEF QueueInv
  <1>4. PICK p \in Seq(Nat) : p = Append(q, n + 1)
    <2>1. Append(q, n + 1) \in Seq(Nat)
      BY <1>1
    <2> QED
      BY <2>1
  <1>5. PICK G \in Seq(Frames) : G = Append(F, x)
    <2>1. Append(F, x) \in Seq(Frames)
      OBVIOUS
    <2> QED
      BY <2>1
  <1>6. Len(p) = m + 1 /\ (\A i \in 1..m : p[i] = q[i]) /\ p[m + 1] = n + 1
    BY <1>1, <1>4
  <1>7. Len(G) = n + 1 /\ (\A f \in 1..n : G[f] = F[f]) /\ G[n + 1] = x
    BY <1>1, <1>5
  <1>8. \A i \in 1..(m + 1) : p[i] = (n + 1) - (m + 1) + i
    <2> TAKE i \in 1..(m + 1)
    <2>1. CASE i = m + 1
      BY <1>1, <1>6, <2>1
    <2>2. CASE i \in 1..m
      BY <1>2, <1>6, <2>2
    <2> QED
      BY <2>1, <2>2
  <1>9. \A f \in 1..(n + 1) : G[f].fate = "queued" <=> f > (n + 1) - (m + 1)
    <2> TAKE f \in 1..(n + 1)
    <2>1. CASE f = n + 1
      BY <1>1, <1>7, <2>1
    <2>2. CASE f \in 1..n
      BY <1>3, <1>7, <2>2, SMTT(30)
    <2> QED
      BY <2>1, <2>2
  <1>10. Lost(G) = Lost(F)
    <2>1. \A f \in 1..(n + 1) : f = n + 1 \/ f \in 1..n
      OBVIOUS
    <2> QED
      BY <1>1, <1>7, <2>1 DEF Lost
  <1>11. m + 1 <= n + 1 /\ m + 1 <= BufferSize
    BY <1>1, CallAssumption
  <1> QED
    BY <1>1, <1>4, <1>5, <1>6, <1>7, <1>8, <1>9, <1>10, <1>11 DEF QueueInv

(* The queue is drained. *)
LEMMA QueueIsDrained ==
  ASSUME NEW F \in Seq(Frames), NEW G \in Seq(Frames), NEW q \in Seq(Nat), NEW d \in Nat,
         QueueInv(F, q, d), Refated(F, G, Range(q), "discarded")
  PROVE  QueueInv(G, <<>>, d + Len(q))
  <1>1. /\ IsFiniteSet(Range(q)) /\ Cardinality(Range(q)) = Len(q)
        /\ \A f \in 1..Len(F) : f \in Range(q) <=> F[f].fate = "queued"
        /\ Range(q) \subseteq 1..Len(F)
    BY QueueIsInterval
  <1>2. PICK n \in Nat : n = Len(F) /\ n = Len(G)
    BY DEF Refated, SamePackets
  <1>3. \A f \in 1..n : IF f \in Range(q) THEN G[f].fate = "discarded" ELSE G[f] = F[f]
    BY <1>2 DEF Refated
  <1>4. \A f \in 1..n : G[f].fate # "queued"
    BY <1>1, <1>2, <1>3
  <1>5. Lost(G) = Lost(F) \cup Range(q) /\ Lost(F) \cap Range(q) = {}
    BY <1>1, <1>2, <1>3 DEF Lost
  <1>6. Cardinality(Lost(G)) = d + Len(q)
    <2>1. d = Cardinality(Lost(F)) /\ IsFiniteSet(Lost(F))
      BY LostIsFinite DEF QueueInv
    <2>2. Cardinality(Lost(F) \cup Range(q))
            = Cardinality(Lost(F)) + Cardinality(Range(q)) - Cardinality(Lost(F) \cap Range(q))
      BY <1>1, <2>1, FS_Union
    <2>3. Cardinality(Lost(F) \cap Range(q)) = 0
      BY <1>5, FS_EmptySet
    <2>4. PICK m \in Nat : m = Len(q)
      OBVIOUS
    <2> QED
      BY <1>1, <1>5, <2>1, <2>2, <2>3, <2>4
  <1>7. Len(<<>>) = 0 /\ BufferSize \in Nat
    BY CallAssumption
  <1>8. \A f \in 1..n : ~(f > n - 0)
    OBVIOUS
  <1>9. \A i \in 1..0 : FALSE
    OBVIOUS
  <1> QED
    BY <1>2, <1>4, <1>6, <1>7, <1>8, <1>9 DEF QueueInv

-----------------------------------------------------------------------------
(* A packet is cut and queued *)

(* The packet takes the first units of the buffer. *)
LEMMA PacketJoins ==
  ASSUME NEW G \in Seq(Frames), NEW x \in Frames, NEW B \in Seq(Units), NEW Q \in Seq(Units),
         NEW t, NEW ch \in Seq(Chunks), NEW e \in Nat, NEW k \in Nat, k <= Len(B),
         IsCut(B, k, x.units, Q), x.fate = "queued",
         x.window = {B[i].chunk : i \in 1..k},
         OrderInv(G, B), FrameInv(G, ch, e), BufferInv(B, t, ch, e),
         WholeInv(G, B, t.item, ch, e)
  PROVE  /\ OrderInv(Append(G, x), Q) /\ FrameInv(Append(G, x), ch, e)
         /\ BufferInv(Q, t, ch, e) /\ WholeInv(Append(G, x), Q, t.item, ch, e)
  <1>1. PICK n \in Nat : n = Len(G)
    OBVIOUS
  <1>2. PICK P \in Seq(Units) : P = x.units
    BY DEF Frames
  <1>3. /\ Range(B) = Range(P) \cup Range(Q) /\ Range(P) = {B[i] : i \in 1..k}
        /\ InOrder(P) /\ InOrder(Q)
        /\ \A a \in Range(P), b \in Range(Q) : Precedes(a, b)
    BY <1>2, CutUnits DEF OrderInv
  <1>4. PICK H \in Seq(Frames) : H = Append(G, x)
    <2>1. Append(G, x) \in Seq(Frames)
      OBVIOUS
    <2> QED
      BY <2>1
  <1>5. Len(H) = n + 1 /\ (\A f \in 1..n : H[f] = G[f]) /\ H[n + 1] = x
    BY <1>1, <1>4
  <1>6. \A f \in 1..(n + 1) : f = n + 1 \/ f \in 1..n
    OBVIOUS
  <1>7. OrderInv(H, Q)
    <2>1. \A f \in 1..(n + 1) : InOrder(H[f].units)
      BY <1>1, <1>2, <1>3, <1>5, <1>6 DEF OrderInv
    <2>2. ASSUME NEW f \in 1..(n + 1), NEW g \in 1..(n + 1), f < g,
                 NEW a \in Range(H[f].units), NEW b \in Range(H[g].units)
          PROVE  Precedes(a, b)
      <3>1. f \in 1..n /\ H[f] = G[f]
        BY <1>5, <2>2
      <3>2. CASE g \in 1..n
        BY <1>1, <1>5, <2>2, <3>1, <3>2 DEF OrderInv
      <3>3. CASE g = n + 1
        <4>1. b \in Range(B)
          BY <1>2, <1>3, <1>5, <2>2, <3>3
        <4> QED
          BY <1>1, <2>2, <3>1, <4>1 DEF OrderInv
      <3> QED
        BY <1>6, <3>2, <3>3
    <2>3. ASSUME NEW f \in 1..(n + 1), NEW a \in Range(H[f].units), NEW b \in Range(Q)
          PROVE  Precedes(a, b)
      <3>1. CASE f \in 1..n
        <4>1. H[f] = G[f] /\ b \in Range(B)
          BY <1>3, <1>5, <3>1
        <4> QED
          BY <1>1, <3>1, <4>1 DEF OrderInv
      <3>2. CASE f = n + 1
        BY <1>2, <1>3, <1>5, <3>2
      <3> QED
        BY <1>6, <3>1, <3>2
    <2> QED
      BY <1>3, <1>5, <2>1, <2>2, <2>3 DEF OrderInv
  <1>8. FrameInv(H, ch, e)
    <2>1. FrameIs(x, ch, e)
      <3>1. \A u \in Range(P) : Known(ch, u) /\ ch[u.chunk].item = t.item /\ ch[u.chunk].epoch = e
        BY <1>3 DEF BufferInv
      <3>2. x.window = {u.chunk : u \in Range(P)}
        BY <1>3
      <3> QED
        BY <1>2, <3>1, <3>2 DEF FrameIs
    <2> QED
      BY <1>1, <1>5, <1>6, <2>1 DEF FrameInv
  <1>9. BufferInv(Q, t, ch, e)
    BY <1>3 DEF BufferInv
  <1>10. WholeInv(H, Q, t.item, ch, e)
    <2> SUFFICES ASSUME NEW c \in 1..Len(ch), ch[c].epoch = e, ch[c].item = t.item,
                        NEW nr \in 1..ch[c].size, Unit(c, nr) \notin Range(Q)
                 PROVE  \E f \in 1..(n + 1) : Holds(H, f, Unit(c, nr))
      BY <1>5 DEF WholeInv, Holds
    <2>1. CASE Unit(c, nr) \in Range(B)
      <3>1. Unit(c, nr) \in Range(H[n + 1].units) /\ H[n + 1].fate # "discarded"
        BY <1>2, <1>3, <1>5, <2>1
      <3>2. n + 1 \in 1..(n + 1)
        OBVIOUS
      <3> QED
        BY <3>1, <3>2 DEF Holds
    <2>2. CASE Unit(c, nr) \notin Range(B)
      <3>1. PICK f \in 1..n : Holds(G, f, Unit(c, nr))
        BY <1>1, <2>2 DEF WholeInv, Holds
      <3>2. f \in 1..(n + 1)
        OBVIOUS
      <3>3. H[f] = G[f]
        BY <1>5
      <3> QED
        BY <3>1, <3>2, <3>3 DEF Holds
    <2> QED
      BY <2>1, <2>2
  <1> QED
    BY <1>4, <1>7, <1>8, <1>9, <1>10

(* Of packets that proceed twice. *)
LEMMA ProceedsOn ==
  ASSUME NEW F \in Seq(Frames), NEW G \in Seq(Frames), NEW H \in Seq(Frames), NEW ch, NEW e,
         Proceeds(F, G, ch, e), Proceeds(G, H, ch, e)
  PROVE  Proceeds(F, H, ch, e)
  <1>1. PICK n \in Nat, m \in Nat, l \in Nat : n = Len(F) /\ m = Len(G) /\ l = Len(H)
    OBVIOUS
  <1>2. n <= m /\ m <= l
    BY <1>1 DEF Proceeds
  <1>3. ASSUME NEW f \in 1..n, F[f].fate # "queued" PROVE H[f] = F[f]
    <2>1. G[f] = F[f] /\ f \in 1..m
      BY <1>1, <1>2, <1>3 DEF Proceeds
    <2> QED
      BY <1>1, <1>3, <2>1 DEF Proceeds
  <1>4. ASSUME NEW g \in 1..l, g > n \/ F[g].fate = "queued" PROVE Recent(H[g], ch, e)
    <2>1. CASE g > m \/ G[g].fate = "queued"
      BY <1>1, <2>1 DEF Proceeds
    <2>2. CASE g \in 1..m /\ G[g].fate # "queued"
      <3>1. H[g] = G[g]
        BY <1>1, <2>2 DEF Proceeds
      <3>2. Recent(G[g], ch, e)
        BY <1>1, <1>4, <2>2 DEF Proceeds
      <3> QED
        BY <3>1, <3>2
    <2>3. g > m \/ g \in 1..m
      OBVIOUS
    <2> QED
      BY <2>1, <2>2, <2>3
  <1>5. n <= l
    BY <1>2
  <1> QED
    BY <1>1, <1>3, <1>4, <1>5 DEF Proceeds

(* Of packets of which queued ones are of another fate. *)
LEMMA RefatedProceeds ==
  ASSUME NEW F \in Seq(Frames), NEW G \in Seq(Frames), NEW ch, NEW e, NEW S, NEW fate,
         Refated(F, G, S, fate), FrameInv(F, ch, e),
         \A f \in 1..Len(F) : f \in S => F[f].fate = "queued"
  PROVE  Proceeds(F, G, ch, e)
  <1>1. PICK n \in Nat : n = Len(F) /\ n = Len(G)
    BY DEF Refated, SamePackets
  <1>2. \A f \in 1..n : F[f].fate # "queued" => G[f] = F[f]
    BY <1>1 DEF Refated
  <1>3. ASSUME NEW f \in 1..n, F[f].fate = "queued" PROVE Recent(G[f], ch, e)
    <2>1. G[f].units = F[f].units
      BY <1>1 DEF Refated, SamePackets
    <2> QED
      BY <1>1, <1>3, <2>1 DEF FrameInv, FrameIs, Recent
  <1>4. \A g \in 1..n : ~(g > n)
    OBVIOUS
  <1> QED
    BY <1>1, <1>2, <1>3, <1>4 DEF Proceeds

(* Of a packet that is queued. *)
LEMMA AppendProceeds ==
  ASSUME NEW F \in Seq(Frames), NEW x \in Frames, NEW ch, NEW e, FrameInv(F, ch, e),
         Recent(x, ch, e)
  PROVE  Proceeds(F, Append(F, x), ch, e)
  <1>1. PICK n \in Nat : n = Len(F)
    OBVIOUS
  <1>2. PICK H \in Seq(Frames) : H = Append(F, x)
    <2>1. Append(F, x) \in Seq(Frames)
      OBVIOUS
    <2> QED
      BY <2>1
  <1>3. Len(H) = n + 1 /\ (\A f \in 1..n : H[f] = F[f]) /\ H[n + 1] = x
    BY <1>1, <1>2
  <1>4. \A f \in 1..n : F[f].fate = "queued" => Recent(F[f], ch, e)
    BY <1>1 DEF FrameInv, FrameIs, Recent
  <1>5. \A g \in 1..(n + 1) : g > n \/ F[g].fate = "queued" => Recent(H[g], ch, e)
    <2> TAKE g \in 1..(n + 1)
    <2>1. CASE g = n + 1
      BY <1>3, <2>1
    <2>2. CASE g \in 1..n
      BY <1>3, <1>4, <2>2
    <2> QED
      BY <2>1, <2>2
  <1>6. n <= n + 1
    OBVIOUS
  <1> QED
    BY <1>1, <1>2, <1>3, <1>5, <1>6 DEF Proceeds

(* PlaybackBuffer.put makes room for a packet. *)
Room(F, q) ==
  IF Len(q) >= BufferSize THEN [F EXCEPT ![Head(q)].fate = "dropped"] ELSE F

(* PlaybackBuffer.put drops the oldest packet of a full queue, counts it, and has
   room for the new one. *)
LEMMA RoomIsMade ==
  ASSUME NEW F \in Seq(Frames), NEW q \in Seq(Nat), NEW d \in Nat, QueueInv(F, q, d)
  PROVE  /\ Room(F, q) \in Seq(Frames) /\ Len(Room(F, q)) = Len(F)
         /\ \E S \in SUBSET Nat :
              /\ Refated(F, Room(F, q), S, "dropped")
              /\ \A f \in 1..Len(F) : f \in S => F[f].fate = "queued"
         /\ \E p \in Seq(Nat) :
              /\ p = IF Len(q) >= BufferSize THEN Tail(q) ELSE q
              /\ Len(p) < BufferSize
              /\ QueueInv(Room(F, q), p, d + IF Len(q) >= BufferSize THEN 1 ELSE 0)
  <1>1. PICK n \in Nat, m \in Nat : n = Len(F) /\ m = Len(q) /\ m <= n /\ m <= BufferSize
    BY DEF QueueInv
  <1>2. BufferSize \in Nat /\ BufferSize >= 1
    BY CallAssumption
  <1>3. CASE m >= BufferSize
    <2>1. q # <<>> /\ m >= 1
      BY <1>1, <1>2, <1>3
    <2>2. Head(q) \in 1..n
      <3>1. Head(q) = q[1] /\ q[1] = n - m + 1
        BY <1>1, <2>1, SMTT(30) DEF QueueInv
      <3> QED
        BY <1>1, <2>1, <3>1
    <2>3. PICK h \in 1..n : h = Head(q)
      BY <2>2
    <2>4. PICK x \in Frames : x = [F[h] EXCEPT !.fate = "dropped"]
      <3>1. F[h] \in Frames
        BY <1>1
      <3>2. [F[h] EXCEPT !.fate = "dropped"] \in Frames
        BY <3>1 DEF Frames, Fates
      <3> QED
        BY <3>2
    <2>5. /\ x.fate = "dropped" /\ x.position = F[h].position /\ x.window = F[h].window
          /\ x.units = F[h].units
      <3>1. F[h] \in Frames
        BY <1>1
      <3> QED
        BY <2>4, <3>1 DEF Frames
    <2>6. Room(F, q) = [F EXCEPT ![h] = x]
      BY <1>1, <1>3, <2>3, <2>4 DEF Room
    <2>7. PICK G \in Seq(Frames) : G = [F EXCEPT ![h] = x] /\ Len(G) = n
      <3>1. [F EXCEPT ![h] = x] \in Seq(Frames) /\ Len([F EXCEPT ![h] = x]) = n
        BY <1>1
      <3> QED
        BY <3>1
    <2>8. G[h] = x /\ \A f \in 1..n : f # h => G[f] = F[f]
      BY <1>1, <2>7
    <2>9. Refated(F, G, {h}, "dropped")
      BY <1>1, <2>5, <2>7, <2>8 DEF Refated, SamePackets
    <2>10. /\ F[h].fate = "queued" /\ Tail(q) \in Seq(Nat) /\ Len(Tail(q)) = m - 1
           /\ QueueInv(G, Tail(q), d + 1)
      BY <1>1, <2>1, <2>3, <2>9, HeadLeaves
    <2>11. m - 1 < BufferSize
      BY <1>1, <1>2
    <2>12. {h} \in SUBSET Nat
      OBVIOUS
    <2> QED
      BY <1>1, <1>3, <2>6, <2>7, <2>9, <2>10, <2>11, <2>12
  <1>4. CASE ~(m >= BufferSize)
    <2>1. Room(F, q) = F
      BY <1>1, <1>4 DEF Room
    <2>2. Refated(F, F, {}, "dropped")
      BY DEF Refated, SamePackets
    <2>3. m < BufferSize /\ d + 0 = d
      BY <1>1, <1>2, <1>4
    <2>4. {} \in SUBSET Nat
      OBVIOUS
    <2> QED
      BY <1>1, <1>4, <2>1, <2>2, <2>3, <2>4
  <1> QED
    BY <1>3, <1>4
(* Packets that are queued or dropped are not written. *)
LEMMA WrittenStays ==
  ASSUME NEW F \in Seq(Frames), NEW G \in Seq(Frames), NEW S, NEW fate, Refated(F, G, S, fate),
         fate # "written", \A f \in 1..Len(F) : f \in S => F[f].fate = "queued"
  PROVE  Written(G) = Written(F)
  BY DEF Written, Refated, SamePackets

(* A packet that is put in the queue is not yet written. *)
LEMMA WrittenAfter ==
  ASSUME NEW F \in Seq(Frames), NEW x \in Frames, x.fate = "queued"
  PROVE  Written(Append(F, x)) = Written(F)
  <1>1. PICK l \in Nat : l = Len(F)
    OBVIOUS
  <1>2. PICK G \in Seq(Frames) : G = Append(F, x)
    <2>1. Append(F, x) \in Seq(Frames)
      OBVIOUS
    <2> QED
      BY <2>1
  <1>3. Len(G) = l + 1 /\ G[l + 1] = x /\ \A f \in 1..l : G[f] = F[f]
    BY <1>1, <1>2
  <1>4. \A f \in 1..(l + 1) : f = l + 1 \/ f \in 1..l
    OBVIOUS
  <1>5. \A f \in 1..l : f \in 1..(l + 1)
    OBVIOUS
  <1> QED
    BY <1>1, <1>2, <1>3, <1>4, <1>5 DEF Written

(* _next_playback_position, and what becomes of the fields. *)
AtPosition(t, p) == IF p = None THEN t ELSE [t EXCEPT !.enqueued = p]

SameItem(t, s) == /\ s.item = t.item /\ s.resampler = t.resampler
                  /\ s.played = t.played /\ s.inflight = t.inflight

(* The position of a new packet is past the whole of it, and only the enqueued
   position of the call moves. *)
LEMMA PositionOfPacket ==
  ASSUME NEW t \in CallFields
  PROVE  /\ NextPosition(t) \in PacketPositions
         /\ AtPosition(t, NextPosition(t)) \in CallFields
         /\ SameItem(t, AtPosition(t, NextPosition(t)))
  <1>1. Packet \in Nat
    BY CallAssumption
  <1>2. t.enqueued \in Positions /\ t.item \in {NoItem} \cup Items
    BY DEF CallFields
  <1>3. t.enqueued.end \in Nat
    BY <1>2 DEF Positions
  <1>4. PICK k \in Nat :
          k = Packet + (IF t.enqueued.item = t.item THEN t.enqueued.end ELSE 0) /\ k >= Packet
    BY <1>1, <1>3
  <1>5. CASE t.item = NoItem
    <2>1. NextPosition(t) = None
      BY <1>5 DEF NextPosition
    <2>2. AtPosition(t, None) = t
      BY DEF AtPosition
    <2> QED
      BY <2>1, <2>2 DEF PacketPositions, SameItem
  <1>6. CASE t.item # NoItem
    <2>1. NextPosition(t) = [item |-> t.item, end |-> k]
      BY <1>4, <1>6 DEF NextPosition
    <2>2. PICK p \in [item : Items, end : {n \in Nat : n >= Packet}] :
            p = [item |-> t.item, end |-> k]
      BY <1>2, <1>4, <1>6
    <2>3. p \in Positions
      BY DEF Positions
    <2>4. [t EXCEPT !.enqueued = p] \in CallFields
      BY <2>3 DEF CallFields
    <2>5. SameItem(t, [t EXCEPT !.enqueued = p])
      BY DEF SameItem, CallFields
    <2>6. AtPosition(t, p) = t \/ AtPosition(t, p) = [t EXCEPT !.enqueued = p]
      BY DEF AtPosition
    <2>7. SameItem(t, t)
      BY DEF SameItem
    <2> QED
      BY <2>1, <2>2, <2>4, <2>5, <2>6, <2>7 DEF PacketPositions
  <1> QED
    BY <1>5, <1>6

(* One packet is cut. *)
CutOK(s, c, ch, e) ==
  /\ AudioInv(c, ch, e)
  /\ Proceeds(s.frames, c.frames, ch, e)
  /\ Written(c.frames) = Written(s.frames)
  /\ SameItem(s.session, c.session)

(* One round of _produce_provider_audio's loop keeps the audio right. *)
LEMMA CutPacketKeeps ==
  ASSUME NEW ch \in Seq(Chunks), NEW e \in Nat, NEW s, AudioInv(s, ch, e),
         Len(s.buffered.units) >= Packet
  PROVE  /\ CutOK(s, CutPacket(s), ch, e)
         /\ Len(CutPacket(s).buffered.units) = Len(s.buffered.units) - Packet
  <1>1. PICK B \in Seq(Units), A \in Seq(Accounts) : B = s.buffered.units /\ A = s.buffered.sources
    BY DEF AudioInv, AudioShape
  <1>2. PICK F \in Seq(Frames), q \in Seq(Nat), d \in Nat, t \in CallFields :
          F = s.frames /\ q = s.queue /\ d = s.dropMetric /\ t = s.session
    BY DEF AudioInv, AudioShape
  <1>3. /\ QueueInv(F, q, d) /\ OrderInv(F, B) /\ AccountInv(0, B, A, ch)
        /\ FrameInv(F, ch, e) /\ BufferInv(B, t, ch, e) /\ WholeInv(F, B, t.item, ch, e)
    BY <1>1, <1>2 DEF AudioInv
  <1>4. PICK k \in Nat : k = Packet /\ k <= Len(B)
    BY <1>1, CallAssumption
  <1>5. PICK P \in Seq(Units), Q \in Seq(Units) :
          /\ P = SubSeq(B, 1, Packet) /\ Q = SubSeq(B, Packet + 1, Len(B))
          /\ IsCut(B, k, P, Q)
    BY <1>4, CutParts
  <1>6. InOrder(B)
    BY <1>3 DEF OrderInv
  <1>7. PICK R \in Seq(Accounts) : R = ConsumeSources(A).rest /\ AccountInv(k, B, R, ch)
    BY <1>3, <1>4, <1>6, ConsumeSourcesTakes
  <1>27. PICK W : W = ConsumeSources(A).window /\ W = {B[i].chunk : i \in 1..k}
    BY <1>3, <1>4, <1>6, ConsumeSourcesTakes
  <1>25. k <= Len(B) /\ IsCut(B, k, P, Q)
    BY <1>4, <1>5
  <1>8. AccountInv(0, Q, R, ch)
    <2>1. AccountInv(k, B, R, ch)
      BY <1>7
    <2> QED
      BY <1>25, <2>1, CutAccounts
  <1>9. PICK p \in PacketPositions, r \in CallFields :
          p = NextPosition(t) /\ r = AtPosition(t, p) /\ SameItem(t, r)
    BY PositionOfPacket
  <1>10. PICK G \in Seq(Frames) : G = Room(F, q) /\ Len(G) = Len(F)
    BY <1>3, RoomIsMade
  <1>11. PICK S \in SUBSET Nat : /\ Refated(F, G, S, "dropped")
                                 /\ \A f \in 1..Len(F) : f \in S => F[f].fate = "queued"
    BY <1>3, <1>10, RoomIsMade
  <1>12. PICK v \in Seq(Nat) :
           /\ v = (IF Len(q) >= BufferSize THEN Tail(q) ELSE q) /\ Len(v) < BufferSize
           /\ QueueInv(G, v, d + IF Len(q) >= BufferSize THEN 1 ELSE 0)
    BY <1>3, <1>10, RoomIsMade
  <1>13. PICK x \in Frames : x = [position |-> p, window |-> W, units |-> P,
                                  fate |-> "queued", epoch |-> 0]
    <2>1. W \in SUBSET Nat
      <3>1. \A i \in 1..k : B[i] \in Units
        BY <1>4
      <3> QED
        BY <1>27, <3>1 DEF Units
    <2> QED
      BY <2>1 DEF Frames, Fates
  <1>14. x.units = P /\ x.fate = "queued" /\ x.window = W /\ x.position = p
    BY <1>13
  <1>15. PICK z \in Nat : z = d + IF Len(q) >= BufferSize THEN 1 ELSE 0
    OBVIOUS
  <1>16. /\ CutPacket(s).buffered = [units |-> Q, sources |-> R]
         /\ CutPacket(s).session = r /\ CutPacket(s).frames = Append(G, x)
         /\ CutPacket(s).queue = Append(v, Len(G) + 1) /\ CutPacket(s).dropMetric = z
    <2>1. PutFrame(q, Len(F) + 1) = Append(v, Len(G) + 1)
      BY <1>10, <1>12 DEF PutFrame
    <2>2. CutPacket(s) =
            [buffered |-> [units |-> SubSeq(B, Packet + 1, Len(B)), sources |-> ConsumeSources(A).rest],
             session |-> AtPosition(t, NextPosition(t)),
             frames |-> Append(Room(F, q),
                          [position |-> NextPosition(t), window |-> ConsumeSources(A).window,
                           units |-> SubSeq(B, 1, Packet), fate |-> "queued", epoch |-> 0]),
             queue |-> PutFrame(q, Len(F) + 1),
             dropMetric |-> d + IF Len(q) >= BufferSize THEN 1 ELSE 0]
      BY <1>1, <1>2, Zenon DEF CutPacket, AtPosition, Room
    <2>3. CutPacket(s) = [buffered |-> [units |-> Q, sources |-> R], session |-> r,
                          frames |-> Append(G, x), queue |-> Append(v, Len(G) + 1),
                          dropMetric |-> z]
      BY <1>5, <1>7, <1>9, <1>10, <1>13, <1>15, <1>27, <2>1, <2>2, Zenon
    <2>4. PICK b, f, w : b = [units |-> Q, sources |-> R] /\ f = Append(G, x)
                         /\ w = Append(v, Len(G) + 1)
      OBVIOUS
    <2>5. CutPacket(s) = [buffered |-> b, session |-> r, frames |-> f, queue |-> w,
                          dropMetric |-> z]
      BY <2>3, <2>4, Zenon
    <2>6. /\ CutPacket(s).buffered = b /\ CutPacket(s).session = r /\ CutPacket(s).frames = f
          /\ CutPacket(s).queue = w /\ CutPacket(s).dropMetric = z
      BY <2>5
    <2> QED
      BY <2>4, <2>6, Zenon
  <1>17. OrderInv(G, B) /\ FrameInv(G, ch, e) /\ WholeInv(G, B, t.item, ch, e)
    BY <1>3, <1>11, OrderStays, FateIsRight, WholeStays DEF Refated
  <1>18. /\ OrderInv(Append(G, x), Q) /\ FrameInv(Append(G, x), ch, e)
         /\ BufferInv(Q, t, ch, e) /\ WholeInv(Append(G, x), Q, t.item, ch, e)
    <2>1. IsCut(B, k, x.units, Q) /\ x.window = {B[i].chunk : i \in 1..k}
      BY <1>14, <1>25, <1>27
    <2> QED
      BY <1>3, <1>14, <1>17, <1>25, <2>1, PacketJoins
  <1>19. /\ Append(v, Len(G) + 1) \in Seq(Nat) /\ Append(G, x) \in Seq(Frames)
         /\ QueueInv(Append(G, x), Append(v, Len(G) + 1), z)
    BY <1>12, <1>14, <1>15, PacketIsQueued
  <1>20. BufferInv(Q, r, ch, e) /\ WholeInv(Append(G, x), Q, r.item, ch, e)
    BY <1>9, <1>18 DEF SameItem, BufferInv
  <1>21. AudioShape(CutPacket(s))
    BY <1>16, <1>19 DEF AudioShape
  <1>22. AudioInv(CutPacket(s), ch, e)
    <2>1. CutPacket(s).buffered.units = Q /\ CutPacket(s).buffered.sources = R
      BY <1>16
    <2> QED
      BY <1>8, <1>16, <1>18, <1>19, <1>20, <1>21, <2>1 DEF AudioInv
  <1>23. Proceeds(F, Append(G, x), ch, e)
    <2>1. Proceeds(F, G, ch, e)
      BY <1>3, <1>11, RefatedProceeds
    <2>2. Recent(x, ch, e)
      <3>1. Range(P) \subseteq Range(B)
        BY <1>25, CutUnits
      <3> QED
        BY <1>3, <1>14, <3>1 DEF Recent, BufferInv
    <2>3. Proceeds(G, Append(G, x), ch, e)
      BY <1>17, <2>2, AppendProceeds
    <2> QED
      BY <1>19, <2>1, <2>3, ProceedsOn
  <1>26. Written(Append(G, x)) = Written(F)
    BY <1>11, <1>14, WrittenStays, WrittenAfter, ZenonT(60)
  <1>24. Len(Q) = Len(B) - Packet
    BY <1>4, <1>5 DEF IsCut
  <1> QED
    BY <1>1, <1>2, <1>9, <1>16, <1>22, <1>23, <1>24, <1>26 DEF CutOK

-----------------------------------------------------------------------------
(* Audio arrives *)

(* Audio of another item than the one before. *)
LEMMA ItemSwitches ==
  ASSUME AudioInv(Audio, chunks, Epoch), NEW item \in {NoItem} \cup Items, item >= session.item,
         chunks \in Seq(Chunks)
  PROVE  \E B \in Seq(Units), A \in Seq(Accounts), t \in CallFields :
           /\ ItemSwitched(item).buffered = [units |-> B, sources |-> A]
           /\ ItemSwitched(item).session = t
           /\ t.item = item /\ t.played = session.played /\ t.inflight = session.inflight
           /\ OrderInv(frames, B) /\ AccountInv(0, B, A, chunks)
           /\ BufferInv(B, t, chunks, Epoch) /\ WholeInv(frames, B, item, chunks, Epoch)
  <1>1. /\ producer.buffered \in [units : Seq(Units), sources : Seq(Accounts)]
        /\ session \in CallFields
        /\ OrderInv(frames, producer.buffered.units)
        /\ AccountInv(0, producer.buffered.units, producer.buffered.sources, chunks)
        /\ BufferInv(producer.buffered.units, session, chunks, Epoch)
        /\ WholeInv(frames, producer.buffered.units, session.item, chunks, Epoch)
    BY DEF AudioInv, AudioShape, Audio
  <1>2. CASE item = session.item
    <2>1. ItemSwitched(item).buffered = producer.buffered /\ ItemSwitched(item).session = session
      BY <1>2 DEF ItemSwitched
    <2>2. PICK B \in Seq(Units), A \in Seq(Accounts) : producer.buffered = [units |-> B, sources |-> A]
      BY <1>1
    <2>3. producer.buffered.units = B /\ producer.buffered.sources = A
      BY <2>2
    <2> QED
      BY <1>1, <1>2, <2>1, <2>2, <2>3
  <1>3. CASE item # session.item
    <2>1. PICK i \in Nat, j \in Nat : i = item /\ j = session.item /\ i > j
      <3>1. item \in Nat /\ session.item \in Nat
        <4>1. session.item \in {NoItem} \cup Items
          BY <1>1 DEF CallFields
        <4>2. {NoItem} \cup Items \subseteq Nat
          BY ProviderAssumption DEF NoItem, Items
        <4> QED
          BY <4>1, <4>2
      <3>2. PICK i \in Nat, j \in Nat : i = item /\ j = session.item
        BY <3>1
      <3>3. i >= j /\ i # j
        BY <1>3, <3>2
      <3>4. i > j
        BY <3>3
      <3> QED
        BY <3>2, <3>4
    <2>2. PICK t : t = [session EXCEPT !.item = item, !.enqueued = None, !.resampler = 0]
      OBVIOUS
    <2>3. None \in Positions
      BY DEF None, Positions
    <2>4. /\ t \in CallFields /\ t.item = item /\ t.resampler = 0
          /\ t.played = session.played /\ t.inflight = session.inflight
      BY <1>1, <2>2, <2>3 DEF CallFields
    <2>5. PICK B \in Seq(Units), A \in Seq(Accounts) : B = <<>> /\ A = <<>>
      <3>1. <<>> \in Seq(Units) /\ <<>> \in Seq(Accounts)
        OBVIOUS
      <3> QED
        BY <3>1
    <2>6. Len(B) = 0 /\ Len(A) = 0 /\ Range(B) = {}
      BY <2>5 DEF Range
    <2>7. /\ ItemSwitched(item).buffered = [units |-> B, sources |-> A]
          /\ ItemSwitched(item).session = t
      BY <1>3, <2>2, <2>5 DEF ItemSwitched, NothingBuffered
    <2>8. OrderInv(frames, B)
      BY <1>1, <2>6 DEF OrderInv, InOrder
    <2>9. AccountInv(0, B, A, chunks)
      BY <2>6 DEF AccountInv, AccountsOpen, Accounted
    <2>10. ASSUME NEW c \in 1..Len(chunks), chunks[c].epoch = Epoch
           PROVE  chunks[c].item < item
      <3>1. chunks[c].item <= session.item
        BY <1>1, <2>10 DEF BufferInv
      <3>2. chunks[c] \in Chunks
        OBVIOUS
      <3>3. PICK k \in Nat : k = chunks[c].item
        BY <3>2, ProviderAssumption DEF Chunks, NoItem, Items
      <3>4. k <= j
        BY <2>1, <3>1, <3>3
      <3>5. k < i
        BY <2>1, <3>4
      <3> QED
        BY <2>1, <3>3, <3>5
    <2>11. \A c \in 1..Len(chunks) : chunks[c].epoch = Epoch => chunks[c].item <= item /\ chunks[c].item # item
      <3> SUFFICES ASSUME NEW c \in 1..Len(chunks), chunks[c].epoch = Epoch
                   PROVE  chunks[c].item <= item /\ chunks[c].item # item
        OBVIOUS
      <3>2. chunks[c] \in Chunks
        OBVIOUS
      <3>3. PICK k \in Nat : k = chunks[c].item
        BY <3>2, ProviderAssumption DEF Chunks, NoItem, Items
      <3>4. k < i
        BY <2>1, <2>10, <3>3
      <3>5. k <= i /\ k # i
        BY <3>4
      <3> QED
        BY <2>1, <3>3, <3>5
    <2>12. BufferInv(B, t, chunks, Epoch)
      BY <1>1, <2>4, <2>6, <2>11 DEF BufferInv
    <2>13. WholeInv(frames, B, item, chunks, Epoch)
      BY <2>11 DEF WholeInv
    <2> QED
      BY <2>4, <2>7, <2>8, <2>9, <2>12, <2>13
  <1> QED
    BY <1>2, <1>3

(* The chunks ch with one more. *)
OneMore(ch, x, k) == Len(k) = Len(ch) + 1 /\ k[Len(ch) + 1] = x /\ \A c \in 1..Len(ch) : k[c] = ch[c]

(* A message of audio is one more chunk, and changes none of the others. *)
LEMMA OneMoreChunk ==
  ASSUME NEW ch \in Seq(Chunks), NEW x \in Chunks
  PROVE  Append(ch, x) \in Seq(Chunks) /\ OneMore(ch, x, Append(ch, x))
  <1>1. PICK n \in Nat : n = Len(ch)
    OBVIOUS
  <1>2. Append(ch, x) \in Seq(Chunks) /\ Len(Append(ch, x)) = n + 1
    BY <1>1
  <1>3. (\A c \in 1..n : Append(ch, x)[c] = ch[c]) /\ Append(ch, x)[n + 1] = x
    BY <1>1
  <1> QED
    BY <1>1, <1>2, <1>3 DEF OneMore

(* What was known of packets and accounts is still known. *)
LEMMA KnownStays ==
  ASSUME NEW ch \in Seq(Chunks), NEW x \in Chunks, NEW k \in Seq(Chunks), OneMore(ch, x, k)
  PROVE  /\ \A F, e : FrameInv(F, ch, e) => FrameInv(F, k, e)
         /\ \A B, A : AccountInv(0, B, A, ch) => AccountInv(0, B, A, k)
  <1>1. PICK n \in Nat : n = Len(ch) /\ Len(k) = n + 1
    BY DEF OneMore
  <1>2. \A c \in 1..n : k[c] = ch[c] /\ c \in 1..(n + 1)
    BY <1>1 DEF OneMore
  <1>3. ASSUME NEW F, NEW e, FrameInv(F, ch, e) PROVE FrameInv(F, k, e)
    <2> SUFFICES ASSUME NEW f \in 1..Len(F) PROVE FrameIs(F[f], k, e)
      BY DEF FrameInv
    <2>1. FrameIs(F[f], ch, e)
      BY <1>3 DEF FrameInv
    <2>2. \A u \in Range(F[f].units) : Known(ch, u) /\ k[u.chunk] = ch[u.chunk] /\ Known(k, u)
      BY <1>1, <1>2, <2>1 DEF FrameIs, Known
    <2> QED
      BY <2>1, <2>2 DEF FrameIs
  <1>4. ASSUME NEW B, NEW A, AccountInv(0, B, A, ch) PROVE AccountInv(0, B, A, k)
    <2>1. \A i \in 1..Len(A) : A[i].chunk \in 1..n /\ k[A[i].chunk] = ch[A[i].chunk]
                               /\ A[i].chunk \in 1..(n + 1)
      BY <1>1, <1>2, <1>4 DEF AccountInv, AccountsOpen
    <2>2. AccountsOpen(A, k)
      BY <1>1, <1>4, <2>1 DEF AccountInv, AccountsOpen
    <2>3. \A u : Accounted(A, ch, u) <=> Accounted(A, k, u)
      <3>1. \A u : \A i \in 1..Len(A) : Covers(A[i], ch, u) <=> Covers(A[i], k, u)
        BY <2>1 DEF Covers
      <3> QED
        BY <3>1 DEF Accounted
    <2> QED
      BY <1>4, <2>2, <2>3 DEF AccountInv
  <1> QED
    BY <1>3, <1>4

(* The packet buffer B with the units of message c. *)
Joined(B, D, c, size) ==
  /\ Len(D) = Len(B) + size
  /\ \A i \in 1..Len(B) : D[i] = B[i]
  /\ \A i \in 1..size : D[Len(B) + i] = Unit(c, i)

(* buffer.extend(converted): the units of the chunk follow those that wait. *)
LEMMA UnitsJoin ==
  ASSUME NEW B \in Seq(Units), NEW c \in Nat, NEW size \in Nat
  PROVE  /\ B \o [i \in 1..size |-> Unit(c, i)] \in Seq(Units)
         /\ Joined(B, B \o [i \in 1..size |-> Unit(c, i)], c, size)
  <1>1. PICK n \in Nat : n = Len(B)
    OBVIOUS
  <1>2. \A i \in 1..size : Unit(c, i) \in Units
    BY DEF Unit, Units
  <1>3. PICK N \in Seq(Units) : N = [i \in 1..size |-> Unit(c, i)]
    <2>1. [i \in 1..size |-> Unit(c, i)] \in Seq(Units)
      BY <1>2
    <2> QED
      BY <2>1
  <1>4. Len(N) = size
    BY <1>3
  <1>5. \A i \in 1..size : N[i] = Unit(c, i)
    BY <1>3
  <1>6. B \o N \in Seq(Units) /\ Len(B \o N) = n + size
    BY <1>1, <1>4
  <1>7. (\A i \in 1..n : (B \o N)[i] = B[i]) /\ \A i \in 1..size : (B \o N)[n + i] = N[i]
    BY <1>1, <1>4
  <1> QED
    BY <1>1, <1>3, <1>5, <1>6, <1>7 DEF Joined

(* The units of a buffer that was joined, and their order. *)
JoinedInOrder(B, D, c, size) ==
  /\ Range(D) = Range(B) \cup {Unit(c, i) : i \in 1..size}
  /\ InOrder(B) /\ (\A u \in Range(B) : u.chunk < c) => InOrder(D)

(* Buffered units stay in order when those of a newer chunk follow them. *)
LEMMA JoinedUnits ==
  ASSUME NEW B \in Seq(Units), NEW D \in Seq(Units), NEW c \in Nat, NEW size \in Nat,
         Joined(B, D, c, size)
  PROVE  JoinedInOrder(B, D, c, size)
  <1>1. PICK n \in Nat : n = Len(B)
    OBVIOUS
  <1>2. Len(D) = n + size /\ DOMAIN D = 1..(n + size) /\ DOMAIN B = 1..n
    BY <1>1 DEF Joined
  <1>3. \A i \in 1..n : D[i] = B[i] /\ D[i] \in Range(B) /\ i \in 1..(n + size)
    BY <1>1, <1>2 DEF Joined, Range
  <1>4. \A i \in 1..size : D[n + i] = Unit(c, i) /\ n + i \in 1..(n + size)
    BY <1>1 DEF Joined
  <1>5. \A i \in 1..(n + size) : i \in 1..n \/ (i - n \in 1..size /\ n + (i - n) = i)
    BY <1>1
  <1>6. \A i \in 1..(n + size) : i \in 1..n \/ (i - n \in 1..size /\ D[i] = Unit(c, i - n))
    BY <1>4, <1>5
  <1>7. Range(D) = Range(B) \cup {Unit(c, i) : i \in 1..size}
    <2>1. \A i \in 1..(n + size) : D[i] \in Range(B) \cup {Unit(c, j) : j \in 1..size}
      BY <1>3, <1>6
    <2>2. \A i \in 1..(n + size) : D[i] \in Range(D)
      BY <1>2 DEF Range
    <2>3. \A i \in 1..n : B[i] \in Range(D)
      BY <1>3, <2>2
    <2>4. \A i \in 1..size : Unit(c, i) \in Range(D)
      BY <1>4, <2>2
    <2>5. Range(B) = {B[i] : i \in 1..n} /\ Range(D) = {D[i] : i \in 1..(n + size)}
      BY <1>2 DEF Range
    <2> QED
      BY <2>1, <2>3, <2>4, <2>5
  <1>8. ASSUME InOrder(B), \A u \in Range(B) : u.chunk < c PROVE InOrder(D)
    <2> SUFFICES ASSUME NEW i \in 1..(n + size), NEW j \in 1..(n + size), i < j
                 PROVE  Precedes(D[i], D[j])
      BY <1>2 DEF InOrder
    <2>1. CASE i \in 1..n /\ j \in 1..n
      BY <1>1, <1>3, <1>8, <2>1 DEF InOrder
    <2>2. CASE i \in 1..n /\ j \notin 1..n
      <3>1. D[i].chunk < c
        BY <1>3, <1>8, <2>2
      <3>2. D[j] = Unit(c, j - n)
        BY <1>6, <2>2
      <3> QED
        BY <3>1, <3>2 DEF Precedes, Unit
    <2>3. CASE i \notin 1..n /\ j \notin 1..n
      <3>1. /\ D[i] = Unit(c, i - n) /\ D[j] = Unit(c, j - n) /\ i - n < j - n
        BY <1>1, <1>6, <2>3
      <3> QED
        BY <3>1 DEF Precedes, Unit
    <2>4. ~(i \notin 1..n /\ j \in 1..n)
      BY <1>1
    <2> QED
      BY <2>1, <2>2, <2>3, <2>4
  <1> QED
    BY <1>7, <1>8 DEF JoinedInOrder

(* The account of the new message. *)
LEMMA AccountOpens ==
  ASSUME NEW ch \in Seq(Chunks), NEW x \in Chunks, NEW k \in Seq(Chunks), OneMore(ch, x, k),
         NEW B \in Seq(Units), NEW D \in Seq(Units), NEW A \in Seq(Accounts),
         NEW c \in Nat, c = Len(ch) + 1,
         NEW size \in Nat, size = x.size, size # 0, Joined(B, D, c, size),
         AccountInv(0, B, A, ch)
  PROVE  /\ Append(A, [chunk |-> c, left |-> size]) \in Seq(Accounts)
         /\ AccountInv(0, D, Append(A, [chunk |-> c, left |-> size]), k)
  <1>1. PICK a \in Accounts : a = [chunk |-> c, left |-> size] /\ a.chunk = c /\ a.left = size
    <2>1. [chunk |-> c, left |-> size] \in Accounts
      BY DEF Accounts
    <2> QED
      BY <2>1
  <1>2. PICK n \in Nat, m \in Nat : n = Len(A) /\ m = Len(B)
    OBVIOUS
  <1>3. PICK R \in Seq(Accounts) : R = Append(A, a)
    <2>1. Append(A, a) \in Seq(Accounts)
      OBVIOUS
    <2> QED
      BY <2>1
  <1>4. Len(R) = n + 1 /\ (\A i \in 1..n : R[i] = A[i]) /\ R[n + 1] = a
    BY <1>2, <1>3
  <1>5. \A i \in 1..(n + 1) : i \in 1..n \/ i = n + 1
    OBVIOUS
  <1>6. AccountInv(0, B, A, k)
    BY KnownStays
  <1>7. k[c] = x /\ Len(k) = c /\ c - 1 = Len(ch)
    BY DEF OneMore
  <1>8. \A i \in 1..n : A[i].chunk < c /\ A[i].chunk \in 1..Len(k)
    <2> TAKE i \in 1..n
    <2>1. A[i].chunk \in 1..(c - 1)
      BY <1>2, <1>7 DEF AccountInv, AccountsOpen
    <2> QED
      BY <1>7, <2>1
  <1>9. AccountsOpen(R, k)
    <2>1. ASSUME NEW i \in 1..(n + 1)
          PROVE  R[i].chunk \in 1..Len(k) /\ R[i].left >= 1 /\ R[i].left <= k[R[i].chunk].size
      <3>1. CASE i \in 1..n
        BY <1>2, <1>4, <1>6, <3>1 DEF AccountInv, AccountsOpen
      <3>2. CASE i = n + 1
        <4>1. R[i].chunk = c /\ R[i].left = size /\ k[c].size = size
          BY <1>1, <1>4, <1>7, <3>2
        <4>2. c \in 1..c /\ size >= 1 /\ size <= size
          BY <1>7
        <4> QED
          BY <1>7, <4>1, <4>2
      <3> QED
        BY <1>5, <3>1, <3>2
    <2>2. ASSUME NEW i \in 1..(n + 1), NEW j \in 1..(n + 1), i < j PROVE R[i].chunk < R[j].chunk
      <3>1. i \in 1..n
        BY <2>2
      <3>2. CASE j \in 1..n
        BY <1>2, <1>4, <1>6, <2>2, <3>1, <3>2 DEF AccountInv, AccountsOpen
      <3>3. CASE j = n + 1
        BY <1>1, <1>4, <1>8, <3>1, <3>3
      <3> QED
        BY <1>5, <3>2, <3>3
    <2> QED
      BY <1>4, <2>1, <2>2 DEF AccountsOpen
  <1>10. \A u \in Units : Covers(a, k, u) <=> u.chunk = c /\ u.nr > 0 /\ u.nr <= size
    <2> TAKE u \in Units
    <2>1. k[c].size = size /\ size - size = 0
      BY <1>7
    <2> QED
      BY <1>1, <2>1 DEF Covers
  <1>11. \A u \in Units : Accounted(R, k, u) <=> Accounted(A, k, u) \/ Covers(a, k, u)
    <2>1. n + 1 \in 1..(n + 1) /\ \A i \in 1..n : i \in 1..(n + 1)
      OBVIOUS
    <2> QED
      BY <1>2, <1>4, <1>5, <2>1 DEF Accounted
  <1>12. /\ Len(D) = m + size /\ \A i \in 1..m : D[i] = B[i] /\ i \in 1..(m + size)
         /\ \A i \in 1..size : D[m + i] = Unit(c, i) /\ m + i \in 1..(m + size) /\ m + i > 0
    <2>1. /\ Len(D) = m + size /\ \A i \in 1..m : D[i] = B[i]
          /\ \A i \in 1..size : D[m + i] = Unit(c, i)
      BY <1>2 DEF Joined
    <2>2. \A i \in 1..m : i \in 1..(m + size)
      OBVIOUS
    <2>3. \A i \in 1..size : m + i \in 1..(m + size) /\ m + i > 0
      OBVIOUS
    <2> QED
      BY <2>1, <2>2, <2>3
  <1>13. \A i \in 1..(m + size) : i \in 1..m \/ (i - m \in 1..size /\ m + (i - m) = i)
    BY <1>2
  <1>14. ASSUME NEW i \in 1..(m + size) PROVE Accounted(R, k, D[i])
    <2>1. D[i] \in Units
      BY <1>12
    <2>2. CASE i \in 1..m
      <3>1. Accounted(A, k, B[i])
        BY <1>2, <1>6, <2>2 DEF AccountInv
      <3> QED
        BY <1>11, <1>12, <2>1, <2>2, <3>1
    <2>3. CASE i - m \in 1..size /\ m + (i - m) = i
      <3>1. D[i] = Unit(c, i - m)
        BY <1>12, <2>3
      <3>2. D[i].chunk = c /\ D[i].nr = i - m
        BY <3>1 DEF Unit
      <3>3. i - m > 0 /\ i - m <= size
        BY <2>3
      <3>4. Covers(a, k, D[i])
        BY <1>10, <2>1, <3>2, <3>3
      <3> QED
        BY <1>11, <2>1, <3>4
    <2> QED
      BY <1>13, <2>2, <2>3
  <1>15. ASSUME NEW u \in Units, Accounted(R, k, u) PROVE \E i \in 1..(m + size) : i > 0 /\ D[i] = u
    <2>1. CASE Accounted(A, k, u)
      <3>1. PICK i \in 1..m : B[i] = u
        BY <1>2, <1>6, <2>1 DEF AccountInv
      <3>2. i \in 1..(m + size) /\ D[i] = u /\ i > 0
        BY <1>12, <3>1
      <3> QED
        BY <3>2
    <2>2. CASE Covers(a, k, u)
      <3>1. PICK nr \in Nat : nr = u.nr /\ u = Unit(c, nr)
        BY <1>10, <2>2, UnitIs
      <3>2. nr > 0 /\ nr <= size
        BY <1>10, <2>2, <3>1
      <3>3. nr \in 1..size
        BY <3>2
      <3>4. D[m + nr] = u /\ m + nr \in 1..(m + size) /\ m + nr > 0
        BY <1>12, <3>1, <3>3
      <3> QED
        BY <3>4
    <2> QED
      BY <1>11, <1>15, <2>1, <2>2
  <1>16. \A i \in 1..(m + size) : i > 0 => Accounted(R, k, D[i])
    BY <1>14
  <1>17. AccountInv(0, D, R, k)
    BY <1>9, <1>12, <1>15, <1>16 DEF AccountInv
  <1> QED
    BY <1>1, <1>3, <1>17

(* The resampler that goes on or is made. *)
LEMMA ResampledFields ==
  ASSUME NEW t \in CallFields, NEW c \in Nat
  PROVE  /\ Resampled(t, c) \in CallFields
         /\ Resampled(t, c).item = t.item /\ Resampled(t, c).played = t.played
         /\ Resampled(t, c).inflight = t.inflight
         /\ Resampled(t, c).resampler = IF t.resampler = 0 THEN c ELSE t.resampler
  BY DEF Resampled, CallFields

(* A message's audio is in the packet buffer. *)
LEMMA ChunkArrives ==
  ASSUME NEW F \in Seq(Frames), NEW B \in Seq(Units), NEW D \in Seq(Units), NEW t \in CallFields,
         NEW ch \in Seq(Chunks), NEW x \in Chunks, NEW k \in Seq(Chunks), OneMore(ch, x, k),
         NEW e \in Nat, NEW c \in Nat, c = Len(ch) + 1, NEW size \in Nat, size = x.size,
         x.epoch = e, x.item = t.item, Joined(B, D, c, size),
         OrderInv(F, B), FrameInv(F, ch, e), BufferInv(B, t, ch, e),
         WholeInv(F, B, t.item, ch, e)
  PROVE  /\ OrderInv(F, D) /\ FrameInv(F, k, e) /\ BufferInv(D, Resampled(t, c), k, e)
         /\ WholeInv(F, D, t.item, k, e)
  <1>1. FrameInv(F, k, e)
    BY KnownStays
  <1>2. Len(k) = c /\ k[c] = x /\ c - 1 = Len(ch) /\ c \in 1..c
    BY DEF OneMore
  <1>3. \A j \in 1..(c - 1) : k[j] = ch[j] /\ j \in 1..c /\ j < c
    BY <1>2 DEF OneMore
  <1>4. \A j \in 1..c : j = c \/ j \in 1..(c - 1)
    BY <1>2
  <1>5. \A u \in Range(B) : Known(ch, u) /\ u.chunk \in 1..(c - 1)
    BY <1>2 DEF BufferInv, Known
  <1>6. \A f \in 1..Len(F) : \A u \in Range(F[f].units) : u.chunk \in 1..(c - 1)
    BY <1>2 DEF FrameInv, FrameIs, Known
  <1>7. \A u \in Range(B) : u.chunk < c
    BY <1>3, <1>5
  <1>8. /\ Range(D) = Range(B) \cup {Unit(c, i) : i \in 1..size}
        /\ InOrder(D)
    <2>1. InOrder(B)
      BY DEF OrderInv
    <2>2. JoinedInOrder(B, D, c, size)
      BY JoinedUnits
    <2> QED
      BY <1>7, <2>1, <2>2, Zenon DEF JoinedInOrder
  <1>9. OrderInv(F, D)
    <2>1. ASSUME NEW f \in 1..Len(F), NEW a \in Range(F[f].units), NEW b \in Range(D)
          PROVE  Precedes(a, b)
      <3>1. CASE b \in Range(B)
        BY <3>1 DEF OrderInv
      <3>2. CASE b \in {Unit(c, i) : i \in 1..size}
        <4>1. b.chunk = c
          BY <3>2 DEF Unit
        <4>2. a.chunk < c
          BY <1>3, <1>6
        <4> QED
          BY <4>1, <4>2 DEF Precedes
      <3> QED
        BY <1>8, <3>1, <3>2
    <2> QED
      BY <1>8, <2>1 DEF OrderInv
  <1>10. BufferInv(D, Resampled(t, c), k, e)
    <2>1. ASSUME NEW u \in Range(D)
          PROVE  Known(k, u) /\ k[u.chunk].item = t.item /\ k[u.chunk].epoch = e
      <3>1. CASE u \in Range(B)
        <4>1. k[u.chunk] = ch[u.chunk] /\ u.chunk \in 1..c
          BY <1>3, <1>5, <3>1
        <4> QED
          BY <1>2, <1>5, <3>1, <4>1 DEF BufferInv, Known
      <3>2. CASE u \in {Unit(c, i) : i \in 1..size}
        <4>1. u.chunk = c /\ u.nr \in 1..size
          BY <3>2 DEF Unit
        <4> QED
          BY <1>2, <4>1 DEF Known
      <3> QED
        BY <1>8, <3>1, <3>2
    <2>2. PICK r \in Nat : r = t.resampler
      BY DEF CallFields
    <2>3. r # 0 => r \in 1..c /\ k[r].item = t.item /\ k[r].epoch = e
      <3>1. r # 0 => r \in 1..(c - 1) /\ ch[r].item = t.item /\ ch[r].epoch = e
        BY <1>2, <2>2 DEF BufferInv
      <3> QED
        BY <1>3, <3>1
    <2>4. PICK w \in CallFields :
            /\ w = Resampled(t, c) /\ w.item = t.item
            /\ w.resampler = IF r = 0 THEN c ELSE r
      BY <2>2, ResampledFields
    <2>5. w.resampler # 0 => /\ w.resampler \in 1..Len(k)
                             /\ k[w.resampler].item = w.item /\ k[w.resampler].epoch = e
      BY <1>2, <2>3, <2>4
    <2>6. t.item <= t.item /\ e <= e
      <3>1. PICK i \in Nat : i = t.item
        BY ProviderAssumption DEF CallFields, NoItem, Items
      <3> QED
        BY <3>1
    <2>7. ASSUME NEW j \in 1..Len(k)
          PROVE  k[j].epoch <= e /\ (k[j].epoch = e => k[j].item <= w.item)
      <3>1. CASE j = c
        BY <1>2, <2>4, <2>6, <3>1
      <3>2. CASE j \in 1..(c - 1)
        BY <1>2, <1>3, <2>4, <3>2 DEF BufferInv
      <3> QED
        BY <1>2, <1>4, <3>1, <3>2
    <2> QED
      BY <2>1, <2>4, <2>5, <2>7 DEF BufferInv
  <1>11. WholeInv(F, D, t.item, k, e)
    <2> SUFFICES ASSUME NEW j \in 1..c, k[j].epoch = e, k[j].item = t.item,
                        NEW nr \in 1..k[j].size
                 PROVE  \/ Unit(j, nr) \in Range(D)
                        \/ \E f \in 1..Len(F) : Holds(F, f, Unit(j, nr))
      BY <1>2 DEF WholeInv
    <2>1. CASE j = c
      BY <1>2, <1>8, <2>1
    <2>2. CASE j \in 1..(c - 1)
      <3>1. k[j] = ch[j] /\ j \in 1..Len(ch)
        BY <1>2, <1>3, <2>2
      <3>2. \/ Unit(j, nr) \in Range(B)
            \/ \E f \in 1..Len(F) : Holds(F, f, Unit(j, nr))
        BY <3>1 DEF WholeInv
      <3> QED
        BY <1>8, <3>2
    <2> QED
      BY <1>4, <2>1, <2>2
  <1> QED
    BY <1>1, <1>9, <1>10, <1>11

(* As many packets as the buffer holds can be cut. *)
LEMMA PacketsFit ==
  ASSUME NEW l \in Nat, NEW p \in Nat \ {0}
  PROVE  \E n \in Nat : n = l \div p /\ n * p <= l
  <1>1. l \div p \in Nat
    OBVIOUS
  <1>2. (l \div p) * p <= l
    OBVIOUS
  <1> QED
    BY <1>1, <1>2

(* While packets are left to be cut, the buffer holds one. *)
LEMMA OnePacketMore ==
  ASSUME NEW l \in Nat, NEW p \in Nat, NEW n \in Nat, n * p <= l, NEW j \in Nat, j + 1 <= n
  PROVE  l - j * p >= p /\ (l - j * p) - p = l - (j + 1) * p
  <1>1. (j + 1) * p <= n * p
    OBVIOUS
  <1>2. (j + 1) * p = j * p + p
    OBVIOUS
  <1>3. j * p \in Nat /\ n * p \in Nat
    OBVIOUS
  <1>4. PICK a \in Nat, b \in Nat, c \in Nat : a = j * p /\ b = n * p /\ c = (j + 1) * p
    BY <1>3
  <1> QED
    BY <1>1, <1>2, <1>4

(* All the packets that a message's audio fills are cut. *)
LEMMA CutsKeep ==
  ASSUME NEW ch \in Seq(Chunks), NEW e \in Nat, NEW s, AudioInv(s, ch, e), NEW n \in Nat,
         n * Packet <= Len(s.buffered.units)
  PROVE  CutOK(s, Cuts(n, s), ch, e)
  <1>1. PICK done : /\ done[0] = s
                    /\ \A i \in 1..n : done[i] = CutPacket(done[i - 1])
                    /\ Cuts(n, s) = done[n]
    BY CutsUnfold
  <1>2. PICK B \in Seq(Units), F \in Seq(Frames) : B = s.buffered.units /\ F = s.frames
    BY DEF AudioInv, AudioShape
  <1>3. PICK l \in Nat, p \in Nat : l = Len(B) /\ p = Packet /\ p >= 1
    BY CallAssumption
  <1>4. n * p <= l
    BY <1>2, <1>3
  <1> DEFINE Right(i) == /\ CutOK(s, done[i], ch, e)
                         /\ Len(done[i].buffered.units) = l - i * p
             Good == {i \in Nat : Right(i)}
  <1>5. 0 \in Good
    <2>1. \A f \in 1..Len(F) : ~(f > Len(F))
      OBVIOUS
    <2>2. Proceeds(F, F, ch, e)
      BY <1>2, <2>1 DEF Proceeds, AudioInv, FrameInv, FrameIs, Recent
    <2>3. CutOK(s, s, ch, e)
      BY <1>2, <2>2 DEF CutOK, SameItem
    <2>4. l - 0 * p = l
      BY <1>3
    <2> QED
      BY <1>1, <1>2, <1>3, <2>3, <2>4
  <1>6. ASSUME NEW i \in 1..n, i - 1 \in Good PROVE i \in Good
    <2>1. Right(i - 1)
      BY <1>6
    <2>2. PICK j \in Nat : j = i - 1 /\ i = j + 1 /\ j + 1 <= n
      OBVIOUS
    <2>3. PICK d : d = done[j]
      OBVIOUS
    <2>4. CutOK(s, d, ch, e) /\ Len(d.buffered.units) = l - j * p
      BY <2>1, <2>2, <2>3
    <2>5. l - j * p >= p /\ (l - j * p) - p = l - (j + 1) * p
      BY <1>4, <2>2, OnePacketMore
    <2>6. AudioInv(d, ch, e) /\ Len(d.buffered.units) >= Packet
      BY <1>3, <2>4, <2>5 DEF CutOK
    <2>7. /\ CutOK(d, CutPacket(d), ch, e)
          /\ Len(CutPacket(d).buffered.units) = Len(d.buffered.units) - Packet
      BY <2>6, CutPacketKeeps
    <2>8. Proceeds(s.frames, CutPacket(d).frames, ch, e)
      <3>1. PICK G \in Seq(Frames), H \in Seq(Frames) : G = d.frames /\ H = CutPacket(d).frames
        BY <2>6, <2>7 DEF CutOK, AudioInv, AudioShape
      <3> QED
        BY <1>2, <2>4, <2>7, <3>1, ProceedsOn DEF CutOK
    <2>9. SameItem(s.session, CutPacket(d).session)
      BY <2>4, <2>7 DEF CutOK, SameItem
    <2>10. CutOK(s, CutPacket(d), ch, e)
      BY <2>4, <2>7, <2>8, <2>9 DEF CutOK
    <2>11. done[i] = CutPacket(d)
      BY <1>1, <2>2, <2>3
    <2>12. Len(done[i].buffered.units) = l - i * p
      BY <1>3, <2>2, <2>4, <2>5, <2>7, <2>11
    <2>13. i \in Nat /\ Right(i)
      BY <2>10, <2>11, <2>12
    <2> HIDE DEF Right
    <2> QED
      BY <2>13
  <1>7. n \in Good
    <2> HIDE DEF Good
    <2>1. \A i \in 0..n : i \in Good
      BY <1>5, <1>6, InductionUpTo
    <2> QED
      BY <2>1
  <1> QED
    BY <1>1, <1>7

(* The record of a message in chunks. *)
IsChunk(x, item, e, size) ==
  /\ x = [item |-> item, epoch |-> e, size |-> size]
  /\ x.item = item /\ x.epoch = e /\ x.size = size

(* What is recorded of a message of audio is a chunk. *)
LEMMA ChunkIs ==
  ASSUME NEW item \in {NoItem} \cup Items, NEW e \in Nat, NEW size \in Nat
  PROVE  \E x \in Chunks : IsChunk(x, item, e, size)
  <1> DEFINE y == [item |-> item, epoch |-> e, size |-> size]
  <1>1. y \in Chunks /\ y.item = item /\ y.epoch = e /\ y.size = size
    BY DEF Chunks
  <1>2. IsChunk(y, item, e, size)
    BY <1>1 DEF IsChunk
  <1> QED
    BY <1>1, <1>2, Zenon

(* What is in the packet buffer before packets are cut. *)
Buffered(B, A, c, size) ==
  IF size = 0 THEN [units |-> B, sources |-> A]
  ELSE [units |-> B \o [i \in 1..size |-> Unit(c, i)],
        sources |-> Append(A, [chunk |-> c, left |-> size])]

IsBuffered(b, D, C) == b = [units |-> D, sources |-> C]

(* A chunk goes into the buffer with an account for all its units; a chunk of
   nothing opens none. *)
LEMMA ChunkIsBuffered ==
  ASSUME NEW ch \in Seq(Chunks), NEW x \in Chunks, NEW k \in Seq(Chunks), OneMore(ch, x, k),
         NEW B \in Seq(Units), NEW A \in Seq(Accounts), NEW c \in Nat, c = Len(ch) + 1,
         NEW size \in Nat, size = x.size, AccountInv(0, B, A, ch)
  PROVE  \E D \in Seq(Units), C \in Seq(Accounts) :
           /\ IsBuffered(Buffered(B, A, c, size), D, C)
           /\ Joined(B, D, c, size) /\ AccountInv(0, D, C, k)
  <1>1. CASE size = 0
    <2>1. Joined(B, B, c, size)
      BY <1>1 DEF Joined
    <2>2. AccountInv(0, B, A, k)
      BY KnownStays
    <2> QED
      BY <1>1, <2>1, <2>2 DEF Buffered, IsBuffered
  <1>2. CASE size # 0
    <2>1. PICK D \in Seq(Units) : /\ D = B \o [i \in 1..size |-> Unit(c, i)]
                                  /\ Joined(B, D, c, size)
      BY UnitsJoin
    <2>2. PICK C \in Seq(Accounts) : /\ C = Append(A, [chunk |-> c, left |-> size])
                                     /\ AccountInv(0, D, C, k)
      BY <1>2, <2>1, AccountOpens
    <2> QED
      BY <1>2, <2>1, <2>2 DEF Buffered, IsBuffered
  <1> QED
    BY <1>1, <1>2

(* The audio of a message is cut and queued. *)
Produces(item) ==
  /\ chunks' \in Seq(Chunks)
  /\ \E x \in Chunks : x.epoch = Epoch /\ OneMore(chunks, x, chunks')
  /\ AudioInv(Audio', chunks', Epoch)
  /\ Proceeds(frames, frames', chunks', Epoch)
  /\ Written(frames') = Written(frames)
  /\ session'.item = item
  /\ session'.played = session.played /\ session'.inflight = session.inflight

(* What is right of the audio is asked of its five fields alone. *)
LEMMA SameAudio ==
  ASSUME NEW s, NEW r, NEW ch, NEW e, AudioInv(s, ch, e),
         r.buffered = s.buffered, r.session = s.session, r.frames = s.frames,
         r.queue = s.queue, r.dropMetric = s.dropMetric
  PROVE  AudioInv(r, ch, e)
  BY DEF AudioInv, AudioShape

(* _produce_provider_audio: the new chunk is buffered, behind nothing that is left
   of an earlier answer, and all the packets it fills are cut and put. *)
LEMMA AudioIsProduced ==
  ASSUME CallShape, chunks \in Seq(Chunks), AudioInv(Audio, chunks, Epoch), Epoch \in Nat,
         NEW message \in Messages, message.item \in {NoItem} \cup Items,
         message.item >= session.item, ProduceAudio(message)
  PROVE  Produces(message.item)
  <1>1. PICK item \in {NoItem} \cup Items : item = message.item /\ item >= session.item
    OBVIOUS
  <1>2. PICK size \in Nat : size = message.size
    BY ProviderAssumption DEF Messages
  <1>3. PICK e \in Nat : e = Epoch
    OBVIOUS
  <1>4. PICK c \in Nat : c = Len(chunks) + 1
    OBVIOUS
  <1>5. PICK x \in Chunks : IsChunk(x, item, e, size)
    BY ChunkIs
  <1>6. PICK k \in Seq(Chunks) : k = Append(chunks, x) /\ OneMore(chunks, x, k)
    BY OneMoreChunk
  <1>7. PICK F \in Seq(Frames), q \in Seq(Nat), d \in Nat :
          F = frames /\ q = queue /\ d = dropMetric
    BY DEF AudioInv, AudioShape, Audio
  <1>8. PICK B \in Seq(Units), A \in Seq(Accounts), t \in CallFields :
          /\ ItemSwitched(item).buffered = [units |-> B, sources |-> A]
          /\ ItemSwitched(item).session = t
          /\ t.item = item /\ t.played = session.played /\ t.inflight = session.inflight
          /\ OrderInv(frames, B) /\ AccountInv(0, B, A, chunks)
          /\ BufferInv(B, t, chunks, Epoch) /\ WholeInv(frames, B, item, chunks, Epoch)
    BY <1>1, ItemSwitches
  <1>9. PICK D \in Seq(Units), C \in Seq(Accounts) :
           /\ IsBuffered(Buffered(B, A, c, size), D, C)
           /\ Joined(B, D, c, size) /\ AccountInv(0, D, C, k)
    <2>1. AccountInv(0, B, A, chunks) /\ OneMore(chunks, x, k) /\ c = Len(chunks) + 1
      BY <1>4, <1>6, <1>8
    <2>2. size = x.size
      BY <1>5 DEF IsChunk
    <2> QED
      BY <2>1, <2>2, ChunkIsBuffered
  <1>10. PICK r \in CallFields : /\ r = Resampled(t, c) /\ r.item = item
                                 /\ r.played = session.played /\ r.inflight = session.inflight
    <2>1. /\ Resampled(t, c) \in CallFields
          /\ Resampled(t, c).item = t.item /\ Resampled(t, c).played = t.played
          /\ Resampled(t, c).inflight = t.inflight
      BY ResampledFields
    <2> QED
      BY <1>8, <2>1
  <1>11. FrameInv(F, chunks, e) /\ QueueInv(F, q, d)
    BY <1>3, <1>7 DEF AudioInv, Audio
  <1>12. /\ OrderInv(F, D) /\ FrameInv(F, k, e) /\ BufferInv(D, r, k, e)
         /\ WholeInv(F, D, item, k, e)
    <2>1. /\ OrderInv(F, B) /\ BufferInv(B, t, chunks, e) /\ WholeInv(F, B, t.item, chunks, e)
      BY <1>3, <1>7, <1>8
    <2>2. x.epoch = e /\ x.item = t.item /\ size = x.size
      BY <1>5, <1>8 DEF IsChunk
    <2>3. /\ OrderInv(F, D) /\ FrameInv(F, k, e) /\ BufferInv(D, Resampled(t, c), k, e)
          /\ WholeInv(F, D, t.item, k, e)
      <3>1. /\ OneMore(chunks, x, k) /\ c = Len(chunks) + 1 /\ Joined(B, D, c, size)
            /\ FrameInv(F, chunks, e)
        BY <1>4, <1>6, <1>9, <1>11
      <3> QED
        BY <2>1, <2>2, <3>1, ChunkArrives
    <2> QED
      BY <1>8, <1>10, <2>3
  <1>13. PICK s : s = [buffered |-> [units |-> D, sources |-> C], session |-> r, frames |-> F,
                       queue |-> q, dropMetric |-> d]
    OBVIOUS
  <1>14. /\ s.buffered.units = D /\ s.buffered.sources = C /\ s.session = r /\ s.frames = F
         /\ s.queue = q /\ s.dropMetric = d
         /\ s.buffered \in [units : Seq(Units), sources : Seq(Accounts)]
    BY <1>13
  <1>15. AudioInv(s, k, e)
    BY <1>9, <1>10, <1>11, <1>12, <1>14 DEF AudioInv, AudioShape
  <1>16. PICK n \in Nat : /\ n = (Len(B) + size) \div Packet
                          /\ n * Packet <= Len(D)
    <2>1. PICK l \in Nat : l = Len(B) + size /\ l = Len(D)
      BY <1>9 DEF Joined
    <2>2. Packet \in Nat \ {0}
      BY CallAssumption
    <2>3. PICK n \in Nat : n = l \div Packet /\ n * Packet <= l
      BY <2>2, PacketsFit
    <2> QED
      BY <2>1, <2>3
  <1>17. PICK w : w = Cuts(n, s) /\ CutOK(s, w, k, e)
    BY <1>14, <1>15, <1>16, CutsKeep
  <1>18. /\ chunks' = k /\ producer' = [producer EXCEPT !.inbox = Tail(@), !.buffered = w.buffered]
         /\ session' = w.session /\ queue' = w.queue /\ frames' = w.frames
         /\ dropMetric' = w.dropMetric
    <2>1. ItemSwitched(message.item).buffered = [units |-> B, sources |-> A]
      BY <1>1, <1>8
    <2>2. ItemSwitched(message.item).session = t
      BY <1>1, <1>8
    <2>3. Buffered(B, A, Len(chunks) + 1, message.size) = [units |-> D, sources |-> C]
      BY <1>2, <1>4, <1>9, Zenon DEF IsBuffered
    <2>4. [units |-> B, sources |-> A].units = B /\ [units |-> B, sources |-> A].sources = A
      OBVIOUS
    <2>5. w = Cuts((Len(B) + message.size) \div Packet,
                   [buffered |-> [units |-> D, sources |-> C],
                    session |-> Resampled(t, Len(chunks) + 1), frames |-> frames,
                    queue |-> queue, dropMetric |-> dropMetric])
      BY <1>2, <1>4, <1>7, <1>10, <1>13, <1>16, <1>17, Zenon
    <2>6. chunks' = Append(chunks, [item |-> message.item, epoch |-> Epoch, size |-> message.size])
      BY Zenon DEF ProduceAudio
    <2>7. chunks' = k
      BY <1>1, <1>2, <1>3, <1>5, <1>6, <2>6, Zenon DEF IsChunk
    <2> QED
      BY <2>1, <2>2, <2>3, <2>4, <2>5, <2>7, Zenon DEF ProduceAudio, Cuts, Buffered
  <1>19. producer'.buffered = w.buffered
    BY <1>18 DEF CallShape
  <1>20. AudioInv(Audio', chunks', Epoch)
    <2>1. AudioInv(w, k, e)
      BY <1>17 DEF CutOK
    <2>2. /\ Audio'.buffered = w.buffered /\ Audio'.session = w.session
          /\ Audio'.frames = w.frames /\ Audio'.queue = w.queue
          /\ Audio'.dropMetric = w.dropMetric
      BY <1>18, <1>19 DEF Audio
    <2>3. AudioInv(Audio', k, e)
      BY <2>1, <2>2, SameAudio
    <2> QED
      BY <1>3, <1>18, <2>3
  <1>21. Proceeds(frames, frames', chunks', Epoch) /\ Written(frames') = Written(frames)
    BY <1>3, <1>7, <1>14, <1>17, <1>18 DEF CutOK
  <1>22. /\ session'.item = item
         /\ session'.played = session.played /\ session'.inflight = session.inflight
    BY <1>10, <1>14, <1>17, <1>18 DEF CutOK, SameItem
  <1> QED
    BY <1>1, <1>3, <1>5, <1>6, <1>18, <1>20, <1>21, <1>22 DEF Produces, IsChunk

-----------------------------------------------------------------------------
(* What was heard, and what barge-in has recorded *)

(* A position that was heard stays heard. *)
LEMMA HeardStays ==
  ASSUME NEW F \in Seq(Frames), NEW G \in Seq(Frames), NEW ch, NEW e, Proceeds(F, G, ch, e),
         NEW p, Heard(F, p)
  PROVE  Heard(G, p)
  <1> SUFFICES ASSUME p.end > 0 PROVE \E g \in 1..Len(G) : /\ G[g].fate = "written"
                                                          /\ G[g].position.item = p.item
                                                          /\ G[g].position.end >= p.end
    BY DEF Heard
  <1>1. PICK f \in 1..Len(F) : /\ F[f].fate = "written" /\ F[f].position.item = p.item
                               /\ F[f].position.end >= p.end
    BY DEF Heard
  <1>2. G[f] = F[f] /\ f \in 1..Len(G)
    BY <1>1 DEF Proceeds
  <1> QED
    BY <1>1, <1>2

(* Audio from before the last barge-in is gone as far as it was. *)
LEMMA GoneStays ==
  ASSUME NEW F \in Seq(Frames), NEW G \in Seq(Frames), NEW ch, NEW e, Proceeds(F, G, ch, e),
         NEW u, ch[u.chunk].epoch # e
  PROVE  GoneIn(F, u) <=> GoneIn(G, u)
  <1>1. ASSUME NEW f \in 1..Len(F), F[f].fate \in {"written", "dropped"}, u \in Range(F[f].units)
        PROVE  GoneIn(G, u)
    <2>1. G[f] = F[f] /\ f \in 1..Len(G)
      BY <1>1 DEF Proceeds
    <2> QED
      BY <1>1, <2>1 DEF GoneIn
  <1>2. ASSUME NEW g \in 1..Len(G), G[g].fate \in {"written", "dropped"}, u \in Range(G[g].units)
        PROVE  GoneIn(F, u)
    <2>1. ~Recent(G[g], ch, e)
      BY <1>2 DEF Recent
    <2>2. ~(g > Len(F)) /\ F[g].fate # "queued"
      BY <2>1 DEF Proceeds
    <2>3. g \in 1..Len(F)
      BY <2>2
    <2>4. G[g] = F[g]
      BY <2>2, <2>3 DEF Proceeds
    <2> QED
      BY <1>2, <2>3, <2>4 DEF GoneIn
  <1> QED
    BY <1>1, <1>2 DEF GoneIn

(* What a barge-in has recorded stays true as packets are cut, put, dropped and
   written after it. *)
LEMMA EvidenceStays ==
  ASSUME NEW F \in Seq(Frames), NEW G \in Seq(Frames), NEW ch \in Seq(Chunks), NEW e \in Nat,
         Proceeds(F, G, ch, e), NEW b \in Nat, b <= e, NEW ev, EvidenceTrue(b, ev, F, ch)
  PROVE  EvidenceTrue(b, ev, G, ch)
  <1>1. Heard(G, ev.position)
    BY HeardStays DEF EvidenceTrue
  <1>2. \A i \in 1..Len(ev.recorded) : /\ ev.recorded[i] \in 1..Len(G)
                                       /\ G[ev.recorded[i]].fate = "discarded"
    <2> SUFFICES ASSUME NEW i \in 1..Len(ev.recorded)
                 PROVE  /\ ev.recorded[i] \in 1..Len(G)
                        /\ G[ev.recorded[i]].fate = "discarded"
      OBVIOUS
    <2>1. PICK f \in 1..Len(F) : f = ev.recorded[i] /\ F[f].fate = "discarded"
      BY DEF EvidenceTrue
    <2>2. F[f].fate # "queued"
      BY <2>1
    <2>3. G[f] = F[f] /\ f \in 1..Len(G)
      BY <2>2 DEF Proceeds
    <2> QED
      BY <2>1, <2>3
  <1>3. b - 1 # e
    OBVIOUS
  <1>4. ASSUME NEW c, ch[c].epoch = b - 1, NEW nr
        PROVE  GoneIn(F, Unit(c, nr)) <=> GoneIn(G, Unit(c, nr))
    <2>1. ch[Unit(c, nr).chunk].epoch # e
      BY <1>3, <1>4 DEF Unit
    <2> QED
      BY <2>1, GoneStays
  <1>5. \A c \in ev.sources : /\ c \in 1..Len(ch) /\ ch[c].epoch = b - 1
                              /\ \E nr \in 1..ch[c].size : ~GoneIn(G, Unit(c, nr))
    BY <1>4 DEF EvidenceTrue
  <1>6. \A c \in 1..Len(ch) : ch[c].epoch = b - 1 /\ ch[c].item = ev.item =>
          \A nr \in 1..ch[c].size : GoneIn(G, Unit(c, nr)) \/ c \in ev.sources
    BY <1>4 DEF EvidenceTrue
  <1> QED
    BY <1>1, <1>2, <1>5, <1>6 DEF EvidenceTrue

(* A new message has nothing to do with the barge-ins that were. *)
LEMMA EvidenceOutlives ==
  ASSUME NEW F, NEW ch \in Seq(Chunks), NEW e \in Nat, NEW x \in Chunks, NEW k \in Seq(Chunks),
         OneMore(ch, x, k), x.epoch = e, NEW b \in Nat, b <= e, NEW ev, EvidenceTrue(b, ev, F, ch)
  PROVE  EvidenceTrue(b, ev, F, k)
  <1>1. b - 1 # e
    OBVIOUS
  <1>2. PICK l \in Nat : l = Len(ch) /\ Len(k) = l + 1 /\ k[l + 1] = x
    BY DEF OneMore
  <1>3. \A c \in 1..l : k[c] = ch[c] /\ c \in 1..(l + 1)
    BY <1>2 DEF OneMore
  <1>4. \A c \in 1..(l + 1) : c = l + 1 \/ c \in 1..l
    OBVIOUS
  <1>5. \A c \in ev.sources : /\ c \in 1..Len(k) /\ k[c].epoch = b - 1
                              /\ \E nr \in 1..k[c].size : ~GoneIn(F, Unit(c, nr))
    BY <1>2, <1>3 DEF EvidenceTrue
  <1>6. \A c \in 1..Len(k) : k[c].epoch = b - 1 /\ k[c].item = ev.item =>
          \A nr \in 1..k[c].size : GoneIn(F, Unit(c, nr)) \/ c \in ev.sources
    <2> SUFFICES ASSUME NEW c \in 1..(l + 1), k[c].epoch = b - 1, k[c].item = ev.item,
                        NEW nr \in 1..k[c].size
                 PROVE  GoneIn(F, Unit(c, nr)) \/ c \in ev.sources
      BY <1>2
    <2>1. c \in 1..l /\ k[c] = ch[c]
      BY <1>1, <1>2, <1>3, <1>4
    <2> QED
      BY <1>2, <2>1 DEF EvidenceTrue
  <1> QED
    BY <1>5, <1>6 DEF EvidenceTrue

-----------------------------------------------------------------------------
(* What a step leaves alone *)

(* The types of the variables that the lemmas are about. *)
LEMMA AudioTypes ==
  ASSUME CallAudioInv
  PROVE  /\ frames \in Seq(Frames) /\ queue \in Seq(Nat) /\ dropMetric \in Nat
         /\ session \in CallFields /\ chunks \in Seq(Chunks)
         /\ producer.buffered \in [units : Seq(Units), sources : Seq(Accounts)]
         /\ bargeIns \in Seq(Evidence) /\ Epoch \in Nat
         /\ FrameInv(frames, chunks, Epoch) /\ QueueInv(frames, queue, dropMetric)
         /\ session.item \in Nat /\ provider.item \in Nat
  <1>1. /\ frames \in Seq(Frames) /\ queue \in Seq(Nat) /\ dropMetric \in Nat
        /\ session \in CallFields /\ chunks \in Seq(Chunks)
        /\ producer.buffered \in [units : Seq(Units), sources : Seq(Accounts)]
        /\ FrameInv(frames, chunks, Epoch) /\ QueueInv(frames, queue, dropMetric)
    BY DEF CallAudioInv, AudioInv, AudioShape, Audio
  <1>2. bargeIns \in Seq(Evidence)
    BY DEF CallAudioInv, EvidenceInv
  <1>3. Epoch \in Nat
    BY <1>2 DEF Epoch
  <1>4. session.item \in {NoItem} \cup Items /\ provider.item \in {NoItem} \cup Items
    BY <1>1 DEF CallAudioInv, ItemsInv, CallFields
  <1>5. {NoItem} \cup Items \subseteq Nat
    BY ProviderAssumption DEF NoItem, Items
  <1> QED
    BY <1>1, <1>2, <1>3, <1>4, <1>5

(* A step that leaves the packets alone proceeds. *)
LEMMA NothingProceeds ==
  ASSUME NEW F \in Seq(Frames), NEW ch, NEW e, FrameInv(F, ch, e)
  PROVE  Proceeds(F, F, ch, e)
  <1>1. \A f \in 1..Len(F) : ~(f > Len(F))
    OBVIOUS
  <1> QED
    BY <1>1 DEF Proceeds, FrameInv, FrameIs, Recent

(* A step that leaves the packets, the queue and the buffer alone keeps them right. *)
LEMMA AudioUnchanged ==
  ASSUME CallAudioInv, UNCHANGED <<session, frames, queue, dropMetric, chunks, bargeIns>>,
         producer'.buffered = producer.buffered
  PROVE  chunks' \in Seq(Chunks) /\ AudioInv(Audio', chunks', Epoch') /\ EvidenceInv'
  <1>1. Audio' = Audio
    BY DEF Audio
  <1>2. Epoch' = Epoch
    BY DEF Epoch
  <1>3. EvidenceInv'
    BY DEF CallAudioInv, EvidenceInv
  <1> QED
    BY <1>1, <1>2, <1>3 DEF CallAudioInv

(* A step that moves no position keeps every position within what was heard. *)
LEMMA HeardGoesOn ==
  ASSUME CallAudioInv, frames' \in Seq(Frames), NEW ch, NEW e, Proceeds(frames, frames', ch, e),
         pump'.frame = pump.frame, pump'.pc \in {"drain", "sleep"} => pump.pc \in {"drain", "sleep"},
         session'.played = session.played, session'.inflight = session.inflight,
         producer'.position = producer.position
  PROVE  HeardInv'
  <1>1. frames \in Seq(Frames) /\ HeardInv
    BY AudioTypes DEF CallAudioInv
  <1>2. /\ Heard(frames', session.played) /\ Heard(frames', session.inflight)
        /\ Heard(frames', producer.position)
    BY <1>1, HeardStays DEF HeardInv
  <1>3. PICK k \in Nat, l \in Nat : k = Len(frames) /\ l = Len(frames') /\ k <= l
    BY <1>1 DEF Proceeds
  <1>4. pump.frame \in 0..k
    BY <1>1, <1>3 DEF HeardInv
  <1>5. pump'.frame \in 0..Len(frames')
    BY <1>3, <1>4
  <1>6. pump'.pc \in {"drain", "sleep"} =>
          pump'.frame # 0 /\ frames'[pump'.frame].fate = "written"
    <2> SUFFICES ASSUME pump'.pc \in {"drain", "sleep"}
                 PROVE  pump.frame # 0 /\ frames'[pump.frame].fate = "written"
      OBVIOUS
    <2>1. pump.frame # 0 /\ frames[pump.frame].fate = "written"
      BY <1>1 DEF HeardInv
    <2>2. pump.frame \in 1..k
      BY <1>4, <2>1
    <2>3. frames'[pump.frame] = frames[pump.frame]
      BY <1>3, <2>1, <2>2 DEF Proceeds
    <2> QED
      BY <2>1, <2>3
  <1>7. session'.inflight \in PacketPositions /\ producer'.position \in Positions
    BY <1>1 DEF HeardInv
  <1> QED
    BY <1>2, <1>5, <1>6, <1>7 DEF HeardInv

(* A step that ends or takes messages keeps the numbering of the answers. *)
LEMMA ItemsGoOn ==
  ASSUME ItemsInv, provider' = provider \/ provider' = [provider EXCEPT !.active = FALSE],
         session'.item = session.item \/ session'.item = NoItem \/ session'.item = provider.item,
         \/ producer'.inbox = producer.inbox
         \/ producer.inbox # <<>> /\ producer'.inbox = Tail(producer.inbox)
  PROVE  ItemsInv'
  <1>1. /\ provider' \in [session : ProviderSessions, messages : Nat,
                          item : {NoItem} \cup Items, active : BOOLEAN]
        /\ provider'.item = provider.item /\ provider'.session = provider.session
    BY DEF ItemsInv
  <1>2. PICK i \in Nat : i = provider.item
    BY ProviderAssumption DEF ItemsInv, NoItem, Items
  <1>3. session'.item <= provider'.item
    BY <1>1, <1>2 DEF ItemsInv, NoItem
  <1>4. producer.inbox \in Seq(Messages)
    BY DEF ItemsInv
  <1>5. CASE producer'.inbox = producer.inbox
    BY <1>1, <1>3, <1>5 DEF ItemsInv
  <1>6. CASE producer.inbox # <<>> /\ producer'.inbox = Tail(producer.inbox)
    <2>1. PICK m \in Seq(Messages) : m = producer.inbox /\ m # <<>>
      BY <1>4, <1>6
    <2>4. Tail(m) \in Seq(Messages)
      BY <2>1
    <2>5. PICK n \in Seq(Messages) : n = Tail(m) /\ n = producer'.inbox
      BY <1>6, <2>1, <2>4
    <2>2. \A j \in 1..Len(n) : n[j] = m[j + 1] /\ j + 1 \in 1..Len(m)
      BY <2>1, <2>5
    <2>3. \A j \in 1..Len(n) : n[j].type = "audio" => n[j].item = provider.item
      BY <2>1, <2>2 DEF ItemsInv
    <2> QED
      BY <1>1, <1>3, <2>3, <2>5 DEF ItemsInv
  <1> QED
    BY <1>5, <1>6

(* A step that neither writes nor ends a burst keeps the count of what was written. *)
LEMMA BurstsUnchanged ==
  ASSUME BurstInv, UNCHANGED <<bursts, playback>>, Written(frames') = Written(frames),
         \/ pump' = pump
         \/ pump.pc \in {"drain", "broken"} /\ pump'.pc \in {"drain", "broken", "cancelled"}
         \/ pump.pc \in {"get", "sleep", "done", "ended", "failed"}
              /\ pump'.pc \in {"get", "sleep", "done", "ended", "failed", "cancelled"}
         \/ pump.pc = "cancelled" /\ pump'.pc = "cancelled"
  PROVE  BurstInv'
  <1>1. PICK k, w : k = Cardinality(InBursts(bursts)) + playback.written /\ w = Cardinality(Written(frames))
    OBVIOUS
  <1>2. /\ k = Cardinality(InBursts(bursts')) + playback'.written
        /\ w = Cardinality(Written(frames'))
    BY <1>1
  <1> QED
    BY <1>1, <1>2 DEF BurstInv

(* A step that has to do with no audio. *)
LEMMA AudioIsLeftAlone ==
  ASSUME CallAudioInv, CallShape,
         UNCHANGED <<provider, queue, session, playback, chunks, frames, bargeIns, bursts, dropMetric>>,
         \/ \E pc : producer' = [producer EXCEPT !.pc = pc]
         \/ producer.inbox # <<>> /\ producer' = [producer EXCEPT !.inbox = Tail(@)]
         \/ producer.inbox # <<>> /\ \E pc, sequence :
              producer' = [producer EXCEPT !.pc = pc, !.inbox = Tail(@), !.sequence = sequence]
         \/ producer' = producer,
         \/ pump' = pump
         \/ pump.pc = "drain" /\ pump' = [pump EXCEPT !.pc = "broken"]
         \/ ~PumpDone /\ pump' = [pump EXCEPT !.pc = "cancelled"]
  PROVE  CallAudioInv'
  <1>1. /\ producer'.buffered = producer.buffered /\ producer'.position = producer.position
        /\ \/ producer'.inbox = producer.inbox
           \/ producer.inbox # <<>> /\ producer'.inbox = Tail(producer.inbox)
    BY DEF CallShape
  <1>2. /\ pump'.frame = pump.frame
        /\ pump'.pc \in {"drain", "sleep"} => pump.pc \in {"drain", "sleep"}
    BY DEF CallShape
  <1>3. chunks' \in Seq(Chunks) /\ AudioInv(Audio', chunks', Epoch') /\ EvidenceInv'
    BY <1>1, AudioUnchanged
  <1>4. HeardInv'
    <2>1. frames \in Seq(Frames) /\ FrameInv(frames, chunks, Epoch)
      BY AudioTypes
    <2>2. Proceeds(frames, frames', chunks, Epoch) /\ frames' \in Seq(Frames)
      BY <2>1, NothingProceeds
    <2> QED
      BY <1>1, <1>2, <2>2, HeardGoesOn
  <1>5. ItemsInv'
    <2>1. ItemsInv
      BY DEF CallAudioInv
    <2>2. provider' = provider /\ session'.item = session.item
      OBVIOUS
    <2> QED
      BY <1>1, <2>1, <2>2, ItemsGoOn
  <1>6. BurstInv'
    <2>1. BurstInv
      BY DEF CallAudioInv
    <2>2. \/ pump' = pump
          \/ pump.pc \in {"drain", "broken"} /\ pump'.pc \in {"drain", "broken", "cancelled"}
          \/ pump.pc \in {"get", "sleep", "done", "ended", "failed"}
               /\ pump'.pc \in {"get", "sleep", "done", "ended", "failed", "cancelled"}
          \/ pump.pc = "cancelled" /\ pump'.pc = "cancelled"
      BY DEF CallShape, PumpDone
    <2> QED
      BY <2>1, <2>2, BurstsUnchanged
  <1> QED
    BY <1>3, <1>4, <1>5, <1>6 DEF CallAudioInv

(* The steps that touch no audio keep it right: the ends of the tasks and of the
   stream, and events other than speech. *)
LEMMA QuietSteps ==
  ASSUME CallAudioInv, CallShape,
         \/ StreamEnds \/ StreamFails \/ FinaliseGenerator \/ PumpBreaks \/ NoticePump
         \/ CallerLeaves \/ CallerBreaks \/ SendAudioFails \/ StopPump
         \/ producer.inbox # <<>> /\ HandleEvent(Head(producer.inbox))
  PROVE  CallAudioInv'
  <1>1. CASE \E pc : ProducerEnds(pc)
    BY <1>1, AudioIsLeftAlone DEF ProducerEnds, stateVars, historyVars
  <1>2. CASE \E alias : LeaveLoop(alias)
    BY <1>2, AudioIsLeftAlone DEF LeaveLoop, stateVars, historyVars
  <1>3. CASE PumpBreaks
    BY <1>3, AudioIsLeftAlone DEF PumpBreaks, stateVars, historyVars
  <1>4. CASE StopPump
    <2>1. \/ pump' = pump
          \/ ~PumpDone /\ pump' = [pump EXCEPT !.pc = "cancelled"]
      BY <1>4, Zenon DEF StopPump
    <2>2. producer' = producer \/ \E pc : producer' = [producer EXCEPT !.pc = pc]
      BY <1>4 DEF StopPump
    <2>3. UNCHANGED <<provider, queue, session, playback, chunks, frames, bargeIns, bursts, dropMetric>>
      BY <1>4 DEF StopPump, stateVars, historyVars
    <2> QED
      BY <2>1, <2>2, <2>3, AudioIsLeftAlone
  <1>5. CASE producer.inbox # <<>> /\ HandleEvent(Head(producer.inbox))
    BY <1>5, AudioIsLeftAlone DEF HandleEvent
  <1> QED
    BY <1>1, <1>2, <1>3, <1>4, <1>5 DEF StreamEnds, StreamFails, FinaliseGenerator, NoticePump,
       CallerLeaves, CallerBreaks, SendAudioFails

-----------------------------------------------------------------------------
(* Bursts *)

(* One more burst counts for what was written in it. *)
LEMMA BurstCounts ==
  ASSUME NEW bs \in Seq(Bursting), IsFiniteSet(InBursts(bs)), NEW x \in Bursting
  PROVE  /\ Append(bs, x) \in Seq(Bursting) /\ IsFiniteSet(InBursts(Append(bs, x)))
         /\ Cardinality(InBursts(Append(bs, x))) = Cardinality(InBursts(bs)) + x.written
         /\ Cardinality(InBursts(bs)) \in Nat
  <1>1. PICK l \in Nat : l = Len(bs)
    OBVIOUS
  <1>2. PICK w \in Nat : w = x.written
    BY DEF Bursting
  <1>3. Append(bs, x) \in Seq(Bursting)
    OBVIOUS
  <1>4. PICK B \in Seq(Bursting) : B = Append(bs, x)
    BY <1>3
  <1>5. Len(B) = l + 1 /\ B[l + 1] = x /\ \A b \in 1..l : B[b] = bs[b]
    BY <1>1, <1>4
  <1>6. \A b \in 1..(l + 1) : b = l + 1 \/ b \in 1..l
    OBVIOUS
  <1>7. (\A b \in 1..l : b \in 1..(l + 1) /\ b # l + 1) /\ l + 1 \in 1..(l + 1)
    OBVIOUS
  <1> DEFINE S == InBursts(bs)
             T == {l + 1} \X (1..w)
  <1>8. InBursts(B) = S \cup T
    <2>1. ASSUME NEW y \in InBursts(B) PROVE y \in S \cup T
      <3>1. PICK b \in 1..(l + 1) : y \in {b} \X (1..B[b].written)
        BY <1>5 DEF InBursts
      <3>2. CASE b = l + 1
        BY <1>2, <1>5, <3>1, <3>2
      <3>3. CASE b \in 1..l
        <4>1. y \in {b} \X (1..bs[b].written)
          BY <1>5, <3>1, <3>3
        <4> QED
          BY <1>1, <3>3, <4>1 DEF InBursts
      <3> QED
        BY <1>6, <3>2, <3>3
    <2>2. ASSUME NEW y \in S PROVE y \in InBursts(B)
      <3>1. PICK b \in 1..l : y \in {b} \X (1..bs[b].written)
        BY <1>1 DEF InBursts
      <3>2. y \in {b} \X (1..B[b].written) /\ b \in 1..Len(B)
        BY <1>5, <1>7, <3>1
      <3> QED
        BY <3>2 DEF InBursts
    <2>3. ASSUME NEW y \in T PROVE y \in InBursts(B)
      <3>1. y \in {l + 1} \X (1..B[l + 1].written) /\ l + 1 \in 1..Len(B)
        BY <1>2, <1>5, <1>7, <2>3
      <3> QED
        BY <3>1 DEF InBursts
    <2> QED
      BY <2>1, <2>2, <2>3
  <1>9. S \cap T = {}
    <2> SUFFICES ASSUME NEW y \in S, y \in T PROVE FALSE
      OBVIOUS
    <2>1. PICK b \in 1..l : y \in {b} \X (1..bs[b].written)
      BY <1>1 DEF InBursts
    <2>2. y[1] = b
      BY <2>1
    <2>3. y[1] = l + 1
      OBVIOUS
    <2> QED
      BY <1>7, <2>2, <2>3
  <1>10. IsFiniteSet(T) /\ Cardinality(T) = w
    <2>1. IsFiniteSet({l + 1}) /\ Cardinality({l + 1}) = 1
      BY FS_Singleton
    <2>2. IsFiniteSet(1..w) /\ Cardinality(1..w) = w
      BY FS_Interval
    <2>3. IsFiniteSet(T) /\ Cardinality(T) = 1 * w
      BY <2>1, <2>2, FS_Product, ZenonT(60)
    <2> QED
      BY <2>3
  <1> HIDE DEF S, T
  <1>11. /\ IsFiniteSet(S \cup T)
         /\ Cardinality(S \cup T) = Cardinality(S) + Cardinality(T) - Cardinality(S \cap T)
    BY <1>10, FS_Union DEF S
  <1>12. Cardinality(S) \in Nat /\ Cardinality({}) = 0
    BY FS_CardinalityType, FS_EmptySet DEF S
  <1>13. PICK m \in Nat : m = Cardinality(S)
    BY <1>12
  <1>14. Cardinality(S \cup T) = m + w
    <2>1. Cardinality(S \cap T) = 0
      BY <1>9, <1>12, Zenon
    <2> QED
      BY <1>10, <1>11, <1>13, <2>1
  <1> QED
    BY <1>2, <1>3, <1>4, <1>8, <1>11, <1>13, <1>14 DEF S

(* A burst is stopped, if there is one: nothing that was written is lost. *)
Counted(bs, p) == Cardinality(InBursts(bs)) + p.written

(* _end_assistant_playback moves the count of the burst to the event that stops it. *)
LEMMA BurstStops ==
  ASSUME BurstInv, CallShape,
         NEW reason \in {"barge_in", "media_gap", "stream_ended", "call_closed"}
  PROVE  /\ bursts \o StopEvent(playback, reason) \in Seq(Bursting)
         /\ IsFiniteSet(InBursts(bursts \o StopEvent(playback, reason)))
         /\ Counted(bursts \o StopEvent(playback, reason), NoBurst(playback)) = Counted(bursts, playback)
         /\ NoBurst(playback).active = FALSE /\ NoBurst(playback).written = 0
         /\ Counted(bursts, playback) \in Nat
  <1>1. bursts \in Seq(Bursting) /\ IsFiniteSet(InBursts(bursts))
    BY DEF BurstInv
  <1>2. PICK w \in Nat : w = playback.written
    BY DEF CallShape
  <1>3. PICK a \in BOOLEAN : a = playback.active /\ (a <=> w > 0)
    BY <1>2 DEF CallShape, BurstInv
  <1>4. NoBurst(playback).active = FALSE /\ NoBurst(playback).written = 0
    BY DEF CallShape, NoBurst
  <1>5. PICK m \in Nat : m = Cardinality(InBursts(bursts))
    BY <1>1, FS_CardinalityType
  <1>6. CASE a = FALSE
    <2>1. StopEvent(playback, reason) = <<>>
      BY <1>3, <1>6 DEF StopEvent
    <2>2. bursts \o StopEvent(playback, reason) = bursts
      BY <1>1, <2>1
    <2>3. w = 0
      BY <1>3, <1>6
    <2> QED
      BY <1>1, <1>2, <1>4, <1>5, <2>2, <2>3 DEF Counted
  <1>7. CASE a = TRUE
    <2>1. PICK x : x = [written |-> w, reason |-> reason]
      OBVIOUS
    <2>2. w > 0
      BY <1>3, <1>7
    <2>3. x \in Bursting /\ x.written = w
      BY <2>1, <2>2 DEF Bursting
    <2>4. StopEvent(playback, reason) = <<x>>
      BY <1>2, <1>3, <1>7, <2>1 DEF StopEvent
    <2>5. bursts \o StopEvent(playback, reason) = Append(bursts, x)
      BY <1>1, <2>3, <2>4, AppendIsConcat
    <2>6. /\ Append(bursts, x) \in Seq(Bursting) /\ IsFiniteSet(InBursts(Append(bursts, x)))
          /\ Cardinality(InBursts(Append(bursts, x))) = m + w
      BY <1>1, <1>5, <2>3, BurstCounts
    <2> QED
      BY <1>2, <1>4, <1>5, <2>5, <2>6 DEF Counted
  <1> QED
    BY <1>6, <1>7

PumpGoesOn ==
  \/ pump' = pump
  \/ pump.pc \in {"drain", "broken"} /\ pump'.pc \in {"drain", "broken", "cancelled"}
  \/ pump.pc \in {"get", "sleep", "done", "ended", "failed"}
       /\ pump'.pc \in {"get", "sleep", "done", "ended", "failed", "cancelled"}
  \/ pump.pc = "cancelled" /\ pump'.pc = "cancelled"

(* The end of a burst keeps the count of what was written. *)
LEMMA BurstEnds ==
  ASSUME BurstInv, CallShape,
         NEW reason \in {"barge_in", "media_gap", "stream_ended", "call_closed"},
         EndAssistantPlayback(reason), Written(frames') = Written(frames), PumpGoesOn
  PROVE  BurstInv'
  <1>1. /\ bursts' \in Seq(Bursting) /\ IsFiniteSet(InBursts(bursts'))
        /\ Counted(bursts', playback') = Counted(bursts, playback)
        /\ playback'.active = FALSE /\ playback'.written = 0
    BY BurstStops DEF EndAssistantPlayback
  <1>2. playback'.active <=> playback'.written > 0
    BY <1>1
  <1>3. PICK k, w : k = Counted(bursts, playback) /\ w = Cardinality(Written(frames))
    OBVIOUS
  <1>4. /\ k = Cardinality(InBursts(bursts')) + playback'.written
        /\ w = Cardinality(Written(frames'))
    BY <1>1, <1>3 DEF Counted
  <1>5. /\ pump.pc \in {"drain", "broken"} => k = w - 1
        /\ pump.pc \in {"get", "sleep", "done", "ended", "failed"} => k = w
        /\ pump.pc = "cancelled" => k \in {w - 1, w}
    BY <1>3 DEF BurstInv, Counted
  <1>6. /\ pump'.pc \in {"drain", "broken"} => k = w - 1
        /\ pump'.pc \in {"get", "sleep", "done", "ended", "failed"} => k = w
        /\ pump'.pc = "cancelled" => k \in {w - 1, w}
    BY <1>5 DEF PumpGoesOn
  <1> QED
    BY <1>1, <1>2, <1>4, <1>6 DEF BurstInv

(* What the barge-ins have recorded stays true while packets proceed. *)
LEMMA EvidenceGoesOn ==
  ASSUME CallAudioInv, frames' \in Seq(Frames), Proceeds(frames, frames', chunks, Epoch),
         UNCHANGED <<chunks, bargeIns>>
  PROVE  EvidenceInv'
  <1>1. /\ frames \in Seq(Frames) /\ chunks \in Seq(Chunks) /\ Epoch \in Nat
        /\ bargeIns \in Seq(Evidence)
    BY AudioTypes
  <1>2. ASSUME NEW b \in 1..Len(bargeIns)
        PROVE  EvidenceTrue(b, bargeIns[b], frames', chunks)
    <2>1. b \in Nat /\ b <= Epoch
      BY <1>1 DEF Epoch
    <2>2. EvidenceTrue(b, bargeIns[b], frames, chunks)
      BY DEF CallAudioInv, EvidenceInv
    <2> QED
      BY <1>1, <2>1, <2>2, EvidenceStays
  <1> QED
    BY <1>1, <1>2 DEF EvidenceInv

(* Fields of the call that say nothing of the packets. *)
LEMMA AudioOutlivesMarks ==
  ASSUME CallAudioInv, UNCHANGED <<frames, queue, dropMetric, chunks, bargeIns>>,
         producer'.buffered = producer.buffered, session' \in CallFields,
         session'.item = session.item, session'.resampler = session.resampler
  PROVE  chunks' \in Seq(Chunks) /\ AudioInv(Audio', chunks', Epoch') /\ EvidenceInv'
  <1>1. /\ Audio'.buffered = Audio.buffered /\ Audio'.frames = Audio.frames
        /\ Audio'.queue = Audio.queue /\ Audio'.dropMetric = Audio.dropMetric
        /\ Audio'.session = session' /\ Audio.session = session
    BY DEF Audio
  <1>2. Epoch' = Epoch
    BY DEF Epoch
  <1>3. EvidenceInv'
    BY DEF CallAudioInv, EvidenceInv
  <1>4. AudioInv(Audio, chunks, Epoch)
    BY DEF CallAudioInv
  <1>5. AudioInv(Audio', chunks, Epoch)
    BY <1>1, <1>4 DEF AudioInv, AudioShape, BufferInv
  <1> QED
    BY <1>2, <1>3, <1>5 DEF CallAudioInv

(* The oldest packet of the queue is written. *)
LEMMA HeadIsWritten ==
  ASSUME NEW F \in Seq(Frames), NEW q \in Seq(Nat), NEW d, QueueInv(F, q, d), q # <<>>,
         NEW e \in Nat
  PROVE  \E G \in Seq(Frames) :
           /\ G = [F EXCEPT ![Head(q)].fate = "written", ![Head(q)].epoch = e]
           /\ Refated(F, G, {Head(q)}, "written") /\ G[Head(q)].epoch = e
           /\ Head(q) \in 1..Len(F) /\ F[Head(q)].fate = "queued"
  <1>1. PICK n \in Nat, m \in Nat : n = Len(F) /\ m = Len(q) /\ m <= n /\ m >= 1
    BY DEF QueueInv
  <1>2. Head(q) = n - m + 1
    BY <1>1 DEF QueueInv
  <1>3. PICK h \in 1..n : h = Head(q)
    BY <1>1, <1>2
  <1>4. F[h].fate = "queued"
    BY <1>1, <1>2, <1>3 DEF QueueInv
  <1>5. F[h] \in Frames
    BY <1>1
  <1>6. PICK x \in Frames : x = [F[h] EXCEPT !.fate = "written", !.epoch = e]
    <2>1. [F[h] EXCEPT !.fate = "written", !.epoch = e] \in Frames
      BY <1>5 DEF Frames, Fates
    <2> QED
      BY <2>1
  <1>7. /\ x.fate = "written" /\ x.position = F[h].position /\ x.window = F[h].window
        /\ x.units = F[h].units /\ x.epoch = e
    BY <1>5, <1>6 DEF Frames
  <1>8. [F EXCEPT ![h].fate = "written", ![h].epoch = e] = [F EXCEPT ![h] = x]
    BY <1>1, <1>6
  <1>9. PICK G \in Seq(Frames) : G = [F EXCEPT ![h] = x] /\ Len(G) = n
    <2>1. [F EXCEPT ![h] = x] \in Seq(Frames) /\ Len([F EXCEPT ![h] = x]) = n
      BY <1>1
    <2> QED
      BY <2>1
  <1>10. G[h] = x /\ \A f \in 1..n : f # h => G[f] = F[f]
    BY <1>1, <1>9
  <1>11. Refated(F, G, {h}, "written")
    BY <1>1, <1>7, <1>9, <1>10 DEF Refated, SamePackets
  <1> QED
    BY <1>1, <1>3, <1>4, <1>7, <1>8, <1>9, <1>10, <1>11

(* A packet that is written is one more. *)
LEMMA OneMoreWritten ==
  ASSUME NEW F \in Seq(Frames), NEW G \in Seq(Frames), NEW h \in 1..Len(F),
         Refated(F, G, {h}, "written"), F[h].fate = "queued"
  PROVE  /\ Cardinality(Written(F)) \in Nat
         /\ Cardinality(Written(G)) = Cardinality(Written(F)) + 1
  <1>1. Written(G) = Written(F) \cup {h} /\ h \notin Written(F)
    BY DEF Written, Refated, SamePackets
  <1>2. IsFiniteSet(1..Len(F))
    <2>1. 1 \in Int /\ Len(F) \in Int
      OBVIOUS
    <2> QED
      BY <2>1, FS_Interval
  <1>3. IsFiniteSet(Written(F))
    BY <1>2, FS_Subset DEF Written
  <1> QED
    BY <1>1, <1>3, FS_AddElement, FS_CardinalityType

-----------------------------------------------------------------------------
(* The pump *)

(* _pump_paced_provider_audio's write: the oldest packet is taken off the queue and
   is then written, at this barge-in number. *)
LEMMA PumpWritesKeeps ==
  ASSUME CallAudioInv, CallShape, PumpWrites
  PROVE  CallAudioInv'
  <1>1. /\ frames \in Seq(Frames) /\ queue \in Seq(Nat) /\ dropMetric \in Nat
        /\ chunks \in Seq(Chunks) /\ Epoch \in Nat
        /\ FrameInv(frames, chunks, Epoch) /\ QueueInv(frames, queue, dropMetric)
    BY AudioTypes
  <1>2. /\ pump.pc = "get" /\ queue # <<>> /\ pump' = [pc |-> "drain", frame |-> Head(queue)]
        /\ queue' = Tail(queue)
        /\ frames' = [frames EXCEPT ![Head(queue)].fate = "written", ![Head(queue)].epoch = Epoch]
        /\ UNCHANGED <<provider, producer, session, playback, chunks, bargeIns, bursts, dropMetric>>
    BY DEF PumpWrites
  <1>3. /\ frames' \in Seq(Frames)
        /\ Refated(frames, frames', {Head(queue)}, "written") /\ frames'[Head(queue)].epoch = Epoch
        /\ Head(queue) \in 1..Len(frames) /\ frames[Head(queue)].fate = "queued"
    <2>1. queue # <<>>
      BY <1>2
    <2>2. PICK G \in Seq(Frames) :
            /\ G = [frames EXCEPT ![Head(queue)].fate = "written", ![Head(queue)].epoch = Epoch]
            /\ Refated(frames, G, {Head(queue)}, "written") /\ G[Head(queue)].epoch = Epoch
            /\ Head(queue) \in 1..Len(frames) /\ frames[Head(queue)].fate = "queued"
      BY <1>1, <2>1, HeadIsWritten, Zenon
    <2>3. frames' = G
      BY <1>2, <2>2, Zenon
    <2> QED
      BY <2>2, <2>3, Zenon
  <1>4. PICK h \in 1..Len(frames) : h = Head(queue)
    BY <1>3
  <1>5. Refated(frames, frames', {h}, "written") /\ frames'[h].epoch = Epoch /\ frames[h].fate = "queued"
    BY <1>3, <1>4
  <1>6. Epoch' = Epoch
    BY <1>2 DEF Epoch
  <1>7. Proceeds(frames, frames', chunks, Epoch)
    BY <1>1, <1>3, <1>5, RefatedProceeds
  <1>8. AudioInv(Audio', chunks', Epoch')
    <2>1. PICK B \in Seq(Units), A \in Seq(Accounts) : B = producer.buffered.units /\ A = producer.buffered.sources
      BY AudioTypes
    <2>2. /\ OrderInv(frames, B) /\ AccountInv(0, B, A, chunks)
          /\ BufferInv(B, session, chunks, Epoch) /\ WholeInv(frames, B, session.item, chunks, Epoch)
      BY <2>1 DEF CallAudioInv, AudioInv, Audio
    <2>3. Tail(queue) \in Seq(Nat) /\ QueueInv(frames', Tail(queue), dropMetric)
      <3>1. "written" \in {"dropped", "written"} /\ "written" # "dropped"
        OBVIOUS
      <3>2. queue # <<>> /\ Refated(frames, frames', {Head(queue)}, "written")
        BY <1>2, <1>3
      <3>3. /\ Tail(queue) \in Seq(Nat)
            /\ QueueInv(frames', Tail(queue), IF "written" = "dropped" THEN dropMetric + 1 ELSE dropMetric)
        BY <1>1, <1>3, <3>1, <3>2, HeadLeaves, Zenon
      <3> QED
        BY <3>1, <3>3, Zenon
    <2>4. OrderInv(frames', B)
      BY <1>5, <2>2, OrderStays DEF Refated
    <2>5. FrameInv(frames', chunks, Epoch)
      BY <1>1, <1>5, FateIsRight
    <2>6. WholeInv(frames', B, session.item, chunks, Epoch)
      BY <1>5, <2>2, WholeStays
    <2>7. /\ Audio'.buffered = producer.buffered /\ Audio'.session = session
          /\ Audio'.frames = frames' /\ Audio'.queue = Tail(queue) /\ Audio'.dropMetric = dropMetric
      BY <1>2 DEF Audio
    <2>8. producer.buffered \in [units : Seq(Units), sources : Seq(Accounts)] /\ session \in CallFields
      BY AudioTypes
    <2>9. AudioInv(Audio', chunks, Epoch)
      BY <1>1, <1>3, <2>1, <2>2, <2>3, <2>4, <2>5, <2>6, <2>7, <2>8 DEF AudioInv, AudioShape
    <2> QED
      BY <1>2, <1>6, <2>9
  <1>9. HeardInv'
    <2>1. /\ Heard(frames, session.played) /\ Heard(frames, session.inflight)
          /\ Heard(frames, producer.position)
          /\ session.inflight \in PacketPositions /\ producer.position \in Positions
      BY DEF CallAudioInv, HeardInv
    <2>2. /\ Heard(frames', session.played) /\ Heard(frames', session.inflight)
          /\ Heard(frames', producer.position)
      BY <1>1, <1>3, <1>7, <2>1, HeardStays
    <2>3. pump'.frame = h /\ Len(frames') = Len(frames) /\ frames'[h].fate = "written" /\ h # 0
      BY <1>2, <1>4, <1>5 DEF Refated, SamePackets
    <2>4. h \in 0..Len(frames')
      BY <2>3
    <2> QED
      BY <1>2, <2>1, <2>2, <2>3, <2>4 DEF HeardInv
  <1>10. EvidenceInv'
    BY <1>2, <1>3, <1>7, EvidenceGoesOn
  <1>11. ItemsInv'
    <2>1. ItemsInv
      BY DEF CallAudioInv
    <2> QED
      BY <1>2, <2>1 DEF ItemsInv
  <1>12. BurstInv'
    <2>1. PICK w \in Nat : w = Cardinality(Written(frames)) /\ Cardinality(Written(frames')) = w + 1
      BY <1>1, <1>3, <1>5, OneMoreWritten
    <2>2. PICK k : k = Cardinality(InBursts(bursts)) + playback.written
      OBVIOUS
    <2>3. k = Cardinality(InBursts(bursts')) + playback'.written
      BY <1>2, <2>2
    <2>4. k = w
      BY <1>2, <2>1, <2>2 DEF CallAudioInv, BurstInv
    <2>5. k = (w + 1) - 1
      BY <2>4
    <2>6. pump'.pc = "drain"
      BY <1>2
    <2> QED
      BY <1>2, <2>1, <2>3, <2>5, <2>6 DEF CallAudioInv, BurstInv
  <1> QED
    BY <1>1, <1>2, <1>8, <1>9, <1>10, <1>11, <1>12 DEF CallAudioInv

(* mark_output_ended and close stop the burst. *)
LEMMA PumpEndsKeeps ==
  ASSUME CallAudioInv, CallShape, PumpEnds \/ ProviderClosed
  PROVE  CallAudioInv'
  <1>1. /\ producer' = producer /\ provider' = provider
        /\ UNCHANGED <<queue, session, chunks, frames, bargeIns, dropMetric>>
    BY DEF PumpEnds, ProviderClosed
  <1>2. /\ pump'.frame = pump.frame /\ PumpGoesOn
        /\ pump'.pc \in {"drain", "sleep"} => pump.pc \in {"drain", "sleep"}
    <2>1. CASE PumpEnds
      <3>1. pump.pc = "get" /\ pump' = [pump EXCEPT !.pc = producer.pc]
        BY <2>1 DEF PumpEnds
      <3>2. producer.pc \in {"done", "ended", "failed", "cancelled"}
        BY <2>1 DEF PumpEnds, Producing, CallShape
      <3>3. pump'.pc = producer.pc /\ pump'.frame = pump.frame
        BY <3>1 DEF CallShape
      <3> QED
        BY <3>1, <3>2, <3>3 DEF PumpGoesOn
    <2>2. CASE ProviderClosed
      BY <2>2 DEF ProviderClosed, PumpGoesOn
    <2> QED
      BY <2>1, <2>2
  <1>3. chunks' \in Seq(Chunks) /\ AudioInv(Audio', chunks', Epoch') /\ EvidenceInv'
    BY <1>1, AudioUnchanged
  <1>4. HeardInv'
    <2>1. frames \in Seq(Frames) /\ FrameInv(frames, chunks, Epoch)
      BY AudioTypes
    <2>2. Proceeds(frames, frames', chunks, Epoch) /\ frames' \in Seq(Frames)
      BY <1>1, <2>1, NothingProceeds
    <2> QED
      BY <1>1, <1>2, <2>2, HeardGoesOn
  <1>5. ItemsInv'
    <2>1. ItemsInv
      BY DEF CallAudioInv
    <2> QED
      BY <1>1, <2>1 DEF ItemsInv
  <1>6. BurstInv'
    <2>1. BurstInv /\ Written(frames') = Written(frames)
      BY <1>1 DEF CallAudioInv
    <2>2. CASE EndAssistantPlayback("stream_ended") \/ EndAssistantPlayback("call_closed")
      BY <1>2, <2>1, <2>2, BurstEnds
    <2>3. CASE UNCHANGED <<playback, bursts>>
      BY <1>2, <2>1, <2>3, BurstsUnchanged DEF PumpGoesOn
    <2> QED
      BY <2>2, <2>3 DEF PumpEnds, ProviderClosed
  <1> QED
    BY <1>3, <1>4, <1>5, <1>6 DEF CallAudioInv

(* The packet that was written is heard as far as its position says. *)
LEMMA WrittenIsHeard ==
  ASSUME CallAudioInv, pump.pc \in {"drain", "sleep"}
  PROVE  /\ frames[pump.frame].position \in PacketPositions
         /\ frames[pump.frame].position \in Positions
         /\ Heard(frames, frames[pump.frame].position)
  <1>1. frames \in Seq(Frames) /\ HeardInv
    BY AudioTypes DEF CallAudioInv
  <1>2. PICK l \in Nat : l = Len(frames)
    BY <1>1
  <1>3. pump.frame \in 0..l /\ pump.frame # 0 /\ frames[pump.frame].fate = "written"
    BY <1>1, <1>2 DEF HeardInv
  <1>4. PICK f \in 1..l : f = pump.frame /\ frames[f].fate = "written"
    BY <1>3
  <1>5. frames[f] \in Frames
    BY <1>1, <1>2
  <1>6. PICK p \in PacketPositions : p = frames[f].position
    BY <1>5 DEF Frames
  <1>7. p \in Positions /\ p.end \in Nat
    BY DEF PacketPositions, Positions, None
  <1>8. p.end >= p.end
    BY <1>7
  <1> QED
    BY <1>2, <1>4, <1>6, <1>7, <1>8 DEF Heard

(* mark_output_started after drain: the packet is counted in its burst, and its
   position is in flight. *)
LEMMA MarkOutputStartedKeeps ==
  ASSUME CallAudioInv, CallShape, MarkOutputStarted
  PROVE  CallAudioInv'
  <1>1. pump.pc = "drain" /\ pump'.pc = "sleep" /\ pump'.frame = pump.frame
    BY DEF MarkOutputStarted, CallShape
  <1>2. UNCHANGED <<provider, producer, handler, queue, speech, chunks, frames, bargeIns, stopped, dropMetric>>
    BY DEF MarkOutputStarted
  <1>3. PICK p \in PacketPositions : /\ p = frames[pump.frame].position
                                     /\ p \in Positions /\ Heard(frames, p)
    BY <1>1, WrittenIsHeard
  <1>4. session \in CallFields
    BY AudioTypes
  <1>5. /\ session' \in CallFields /\ session'.item = session.item
        /\ session'.resampler = session.resampler /\ session'.played = session.played
        /\ session'.inflight = session.inflight \/ session'.inflight = p
    <2>1. session' = IF p = None THEN session ELSE [session EXCEPT !.inflight = p]
      BY <1>3 DEF MarkOutputStarted
    <2> QED
      BY <1>3, <1>4, <2>1 DEF CallFields
  <1>6. chunks' \in Seq(Chunks) /\ AudioInv(Audio', chunks', Epoch') /\ EvidenceInv'
    BY <1>2, <1>5, AudioOutlivesMarks
  <1>7. HeardInv'
    BY <1>1, <1>2, <1>3, <1>5 DEF CallAudioInv, HeardInv
  <1>8. ItemsInv'
    <2>1. ItemsInv
      BY DEF CallAudioInv
    <2> QED
      BY <1>2, <1>5, <2>1 DEF ItemsInv
  <1>9. BurstInv'
    <2>1. BurstInv /\ bursts \in Seq(Bursting) /\ IsFiniteSet(InBursts(bursts))
      BY DEF CallAudioInv, BurstInv
    <2>2. PICK gap \in BOOLEAN :
            /\ bursts' = IF gap THEN bursts \o StopEvent(playback, "media_gap") ELSE bursts
            /\ playback' = [Bursts(gap) EXCEPT !.active = TRUE, !.written = @ + 1]
      BY DEF MarkOutputStarted, CallShape
    <2>3. PICK k \in Nat : k = Counted(bursts, playback)
      BY <2>1, BurstStops
    <2>4. PICK b, q : /\ b = (IF gap THEN bursts \o StopEvent(playback, "media_gap") ELSE bursts)
                      /\ q = Bursts(gap)
      OBVIOUS
    <2>5. /\ b \in Seq(Bursting) /\ IsFiniteSet(InBursts(b)) /\ Counted(b, q) = k
          /\ q \in [active : BOOLEAN, written : Nat, idle : BOOLEAN]
      <3>1. CASE gap = TRUE
        BY <2>1, <2>3, <2>4, <3>1, BurstStops, NoBurstIsIdle DEF Bursts
      <3>2. CASE gap = FALSE
        BY <2>1, <2>3, <2>4, <3>2 DEF Bursts, CallShape
      <3> QED
        BY <3>1, <3>2
    <2>6. PICK n \in Nat : n = q.written
      BY <2>5
    <2>7. bursts' = b /\ playback' = [q EXCEPT !.active = TRUE, !.written = n + 1]
      BY <2>2, <2>4, <2>6
    <2>8. playback'.active = TRUE /\ playback'.written = n + 1
      BY <2>5, <2>7
    <2>9. playback'.active <=> playback'.written > 0
      BY <2>8
    <2>10. PICK m \in Nat : m = Cardinality(InBursts(b)) /\ m + n = k
      BY <2>5, <2>6, FS_CardinalityType DEF Counted
    <2>11. Cardinality(InBursts(bursts')) + playback'.written = k + 1
      BY <2>7, <2>8, <2>10
    <2>12. k = Cardinality(Written(frames)) - 1
      BY <1>1, <2>1, <2>3 DEF BurstInv, Counted
    <2>13. Cardinality(Written(frames)) \in Nat
      <3>1. 1 \in Int /\ Len(frames) \in Int
        BY AudioTypes
      <3>2. IsFiniteSet(1..Len(frames))
        BY <3>1, FS_Interval
      <3>3. IsFiniteSet(Written(frames))
        BY <3>2, FS_Subset DEF Written
      <3> QED
        BY <3>3, FS_CardinalityType
    <2>14. k + 1 = Cardinality(Written(frames'))
      BY <1>2, <2>12, <2>13
    <2> QED
      BY <1>1, <2>5, <2>7, <2>9, <2>11, <2>14 DEF BurstInv
  <1> QED
    BY <1>6, <1>7, <1>8, <1>9 DEF CallAudioInv

(* mark_output_played after the sleep: the position of the packet is played, when it
   is of the answer still under way. *)
LEMMA MarkOutputPlayedKeeps ==
  ASSUME CallAudioInv, CallShape, MarkOutputPlayed
  PROVE  CallAudioInv'
  <1>1. /\ pump.pc = "sleep" /\ pump'.pc = "get" /\ pump'.frame = 0
    BY DEF MarkOutputPlayed, NoFrame
  <1>2. /\ UNCHANGED <<provider, producer, handler, queue, chunks, frames, bargeIns, bursts, dropMetric>>
        /\ playback' = [playback EXCEPT !.idle = playback.active]
    BY DEF MarkOutputPlayed, historyVars
  <1>3. PICK p \in PacketPositions : /\ p = frames[pump.frame].position
                                     /\ p \in Positions /\ Heard(frames, p)
    BY <1>1, WrittenIsHeard
  <1>4. session \in CallFields
    BY AudioTypes
  <1>5. /\ session' \in CallFields /\ session'.item = session.item
        /\ session'.resampler = session.resampler
        /\ session'.played = session.played \/ session'.played = p
        /\ session'.inflight = session.inflight \/ session'.inflight = None
    <2>1. session' = PlayedPosition(p)
      BY <1>3 DEF MarkOutputPlayed
    <2>2. None \in Positions
      BY DEF None, Positions, NoItem
    <2>3. PICK i \in Positions : i = IF session.inflight = p THEN None ELSE session.inflight
      BY <1>4, <2>2 DEF CallFields
    <2>4. PlayedPosition(p) = session
          \/ PlayedPosition(p) = [session EXCEPT !.played = p, !.inflight = i]
      BY <2>3 DEF PlayedPosition
    <2>5. CASE session' = session
      BY <1>4, <2>5
    <2>6. CASE session' = [session EXCEPT !.played = p, !.inflight = i]
      BY <1>3, <1>4, <2>3, <2>6 DEF CallFields
    <2> QED
      BY <2>1, <2>4, <2>5, <2>6
  <1>6. chunks' \in Seq(Chunks) /\ AudioInv(Audio', chunks', Epoch') /\ EvidenceInv'
    BY <1>2, <1>5, AudioOutlivesMarks
  <1>7. HeardInv'
    <2>1. Heard(frames, None) /\ None \in PacketPositions
      BY DEF Heard, None, PacketPositions
    <2>2. 0 \in 0..Len(frames)
      BY AudioTypes
    <2> QED
      BY <1>1, <1>2, <1>3, <1>5, <2>1, <2>2 DEF CallAudioInv, HeardInv
  <1>8. ItemsInv'
    <2>1. ItemsInv
      BY DEF CallAudioInv
    <2> QED
      BY <1>2, <1>5, <2>1 DEF ItemsInv
  <1>9. BurstInv'
    <2>1. playback'.written = playback.written /\ playback'.active = playback.active
      BY <1>2 DEF CallShape
    <2>2. BurstInv
      BY DEF CallAudioInv
    <2>3. PICK k, w : k = Cardinality(InBursts(bursts)) + playback.written /\ w = Cardinality(Written(frames))
      OBVIOUS
    <2>4. k = Cardinality(InBursts(bursts')) + playback'.written /\ w = Cardinality(Written(frames'))
      BY <1>2, <2>1, <2>3
    <2>5. k = w
      BY <1>1, <2>2, <2>3 DEF BurstInv
    <2> QED
      BY <1>1, <1>2, <2>1, <2>2, <2>4, <2>5 DEF BurstInv
  <1> QED
    BY <1>6, <1>7, <1>8, <1>9 DEF CallAudioInv

-----------------------------------------------------------------------------
(* The producer *)

(* The first message of the inbox. *)
LEMMA MessageIs ==
  ASSUME CallAudioInv, producer.inbox # <<>>
  PROVE  /\ Head(producer.inbox) \in Messages
         /\ Head(producer.inbox).type = "audio" => Head(producer.inbox).item = provider.item
         /\ provider.item >= session.item /\ provider.item \in {NoItem} \cup Items
  <1>1. ItemsInv
    BY DEF CallAudioInv
  <1>2. PICK m \in Seq(Messages) : m = producer.inbox /\ m # <<>>
    BY <1>1 DEF ItemsInv
  <1>3. Head(m) \in Messages /\ Head(m) = m[1] /\ 1 \in 1..Len(m)
    BY <1>2
  <1>4. m[1].type = "audio" => m[1].item = provider.item
    BY <1>1, <1>2, <1>3 DEF ItemsInv
  <1>5. PICK i \in Nat, j \in Nat : i = provider.item /\ j = session.item
    BY AudioTypes
  <1>6. j <= i /\ provider.item \in {NoItem} \cup Items
    BY <1>1, <1>5 DEF ItemsInv
  <1>7. i >= j
    BY <1>6
  <1> QED
    BY <1>2, <1>3, <1>4, <1>5, <1>6, <1>7

(* A message of audio that is taken keeps everything of the call's audio. *)
LEMMA ProduceAudioKeeps ==
  ASSUME CallAudioInv, CallShape, producer.inbox # <<>>, ProduceAudio(Head(producer.inbox)),
         UNCHANGED provider
  PROVE  CallAudioInv'
  <1>1. PICK message \in Messages :
          /\ message = Head(producer.inbox) /\ message.type = "audio"
          /\ message.item = provider.item
    BY MessageIs DEF ProduceAudio
  <1>2. provider.item >= session.item /\ provider.item \in {NoItem} \cup Items
    BY MessageIs
  <1>3. /\ frames \in Seq(Frames) /\ chunks \in Seq(Chunks) /\ Epoch \in Nat
        /\ bargeIns \in Seq(Evidence)
    BY AudioTypes
  <1>4. AudioInv(Audio, chunks, Epoch)
    BY DEF CallAudioInv
  <1>5. Produces(message.item)
    BY <1>1, <1>2, <1>3, <1>4, AudioIsProduced
  <1>6. /\ UNCHANGED <<pump, handler, playback, speech, bargeIns, bursts, stopped>>
        /\ producer'.inbox = Tail(producer.inbox) /\ producer'.position = producer.position
    BY DEF ProduceAudio, CallShape
  <1>7. Epoch' = Epoch
    BY <1>6 DEF Epoch
  <1>8. /\ chunks' \in Seq(Chunks) /\ AudioInv(Audio', chunks', Epoch)
        /\ Proceeds(frames, frames', chunks', Epoch) /\ Written(frames') = Written(frames)
        /\ session'.item = provider.item
        /\ session'.played = session.played /\ session'.inflight = session.inflight
    BY <1>1, <1>5 DEF Produces
  <1>9. frames' \in Seq(Frames)
    BY <1>8 DEF AudioInv, AudioShape, Audio
  <1>10. HeardInv'
    BY <1>6, <1>8, <1>9, HeardGoesOn
  <1>11. EvidenceInv'
    <2>1. PICK x \in Chunks : x.epoch = Epoch /\ OneMore(chunks, x, chunks')
      BY <1>5 DEF Produces
    <2>2. ASSUME NEW b \in 1..Len(bargeIns)
          PROVE  EvidenceTrue(b, bargeIns[b], frames', chunks')
      <3>1. b \in Nat /\ b <= Epoch
        BY <1>3 DEF Epoch
      <3>2. EvidenceTrue(b, bargeIns[b], frames, chunks)
        BY DEF CallAudioInv, EvidenceInv
      <3>3. EvidenceTrue(b, bargeIns[b], frames, chunks')
        BY <1>3, <1>8, <2>1, <3>1, <3>2, EvidenceOutlives
      <3> QED
        BY <1>3, <1>8, <1>9, <3>1, <3>3, EvidenceStays
    <2> QED
      BY <1>3, <1>6, <2>2 DEF EvidenceInv
  <1>12. ItemsInv'
    <2>1. ItemsInv
      BY DEF CallAudioInv
    <2> QED
      BY <1>6, <1>8, <2>1, ItemsGoOn
  <1>13. BurstInv'
    <2>1. BurstInv
      BY DEF CallAudioInv
    <2> QED
      BY <1>6, <1>8, <2>1, BurstsUnchanged
  <1> QED
    BY <1>7, <1>8, <1>10, <1>11, <1>12, <1>13 DEF CallAudioInv

(* Messages without an item. *)
NoItems(m) == m \in Seq(Messages) /\ \A i \in 1..Len(m) : m[i].item = NoItem

(* Messages without an item, joined, are such messages. *)
LEMMA NoItemsTogether ==
  ASSUME NEW m, NEW n, NoItems(m), NoItems(n)
  PROVE  NoItems(m \o n)
  <1>1. m \in Seq(Messages) /\ n \in Seq(Messages)
    BY DEF NoItems
  <1>2. m \o n \in Seq(Messages)
    BY <1>1
  <1>3. PICK k \in Nat, l \in Nat : k = Len(m) /\ l = Len(n)
    BY <1>1
  <1>4. /\ Len(m \o n) = k + l
        /\ \A i \in 1..(k + l) : (m \o n)[i] = IF i <= k THEN m[i] ELSE n[i - k]
    BY <1>1, <1>3
  <1>5. ASSUME NEW i \in 1..(k + l) PROVE (m \o n)[i].item = NoItem
    <2>1. CASE i <= k
      <3>1. i \in 1..k /\ (m \o n)[i] = m[i]
        BY <1>4, <2>1
      <3> QED
        BY <1>3, <3>1 DEF NoItems
    <2>2. CASE ~(i <= k)
      <3>1. i - k \in 1..l /\ (m \o n)[i] = n[i - k]
        BY <1>4, <2>2
      <3> QED
        BY <1>3, <3>1 DEF NoItems
    <2> QED
      BY <2>1, <2>2
  <1> QED
    BY <1>2, <1>4, <1>5 DEF NoItems

(* One message without an item, or none. *)
LEMMA NoItemsAlone ==
  ASSUME NEW x \in Messages, x.item = NoItem
  PROVE  NoItems(<<x>>) /\ NoItems(<<>>)
  <1>1. <<x>> \in Seq(Messages) /\ Len(<<x>>) = 1 /\ <<x>>[1] = x
    OBVIOUS
  <1>2. NoItems(<<x>>)
    BY <1>1 DEF NoItems
  <1>3. NoItems(<<>>)
    BY DEF NoItems
  <1> QED
    BY <1>2, <1>3

(* What receive yields is of the answer that is going on, or of the next. *)
ItemAfter(inbox, item) ==
  IF inbox # <<>> /\ Head(inbox).item # NoItem THEN Head(inbox).item ELSE item

YieldsRight(s, item, inbox) ==
  /\ inbox \in Seq(Messages)
  /\ ItemAfter(inbox, item) \in {NoItem} \cup Items
  /\ item <= ItemAfter(inbox, item)
  /\ s.wire # "openai" => ItemAfter(inbox, item) = NoItem
  /\ \A i \in 1..Len(inbox) : inbox[i].type = "audio" => inbox[i].item = ItemAfter(inbox, item)

(* A service that names no items numbers none. *)
LEMMA NoItemsRight ==
  ASSUME NEW s, NEW item \in {NoItem} \cup Items, item = NoItem, NEW inbox, NoItems(inbox)
  PROVE  YieldsRight(s, item, inbox)
  <1>1. ItemAfter(inbox, item) = NoItem
    <2>1. CASE inbox = <<>>
      BY <2>1 DEF ItemAfter
    <2>2. CASE inbox # <<>>
      <3>1. Head(inbox) = inbox[1] /\ 1 \in 1..Len(inbox)
        BY <2>2 DEF NoItems
      <3>2. Head(inbox).item = NoItem
        BY <3>1 DEF NoItems
      <3> QED
        BY <3>2 DEF ItemAfter
    <2> QED
      BY <2>1, <2>2
  <1>2. NoItem <= NoItem
    BY DEF NoItem
  <1> QED
    BY <1>1, <1>2 DEF YieldsRight, NoItems

(* What a provider's receive yields for one message of the service: its audio is of
   the newest answer, which is the next one or the one before. *)
LEMMA YieldsAreRight ==
  ASSUME NEW s \in Sessions, NEW item \in {NoItem} \cup Items, s.wire # "openai" => item = NoItem,
         NEW inbox \in Yields(s, item)
  PROVE  YieldsRight(s, item, inbox)
  <1>1. s.wire \in {"openai", "gemini", "dryrun"}
    BY DEF Sessions, OpenAI, Gemini, DryRun, Manual
  <1>2. ASSUME NEW size \in ChunkSizes
        PROVE  AudioChunk(NoItem, size) \in Messages /\ AudioChunk(NoItem, size).item = NoItem
    BY DEF AudioChunk, Messages
  <1>3. ASSUME NEW t \in EventTypes
        PROVE  /\ ProviderEvent(t) \in Messages /\ ProviderEvent(t).item = NoItem
               /\ ProviderEvent(t).type # "audio"
    BY DEF ProviderEvent, Messages, EventTypes
  <1>4. CASE s.wire = "dryrun"
    <2>1. inbox \in DryRunYields
      BY <1>4 DEF Yields
    <2>2. PICK size \in ChunkSizes : inbox = <<AudioChunk(NoItem, size)>>
      BY <2>1 DEF DryRunYields
    <2>3. NoItems(inbox)
      BY <1>2, <2>2, NoItemsAlone
    <2> QED
      BY <1>4, <2>3, NoItemsRight
  <1>5. CASE s.wire = "gemini"
    <2>1. inbox \in {GeminiYields(r) : r \in GeminiResponse}
      BY <1>5 DEF Yields
    <2>2. PICK r \in GeminiResponse : inbox = GeminiYields(r)
      BY <2>1
    <2>3. PICK a, b, c :
            /\ a = (IF r.size > 0 THEN <<AudioChunk(NoItem, r.size)>> ELSE <<>>)
            /\ b = (IF r.interrupted THEN <<ProviderEvent("interrupted")>> ELSE <<>>)
            /\ c = (IF r.turn_complete THEN <<ProviderEvent("response_done")>> ELSE <<>>)
      OBVIOUS
    <2>4. {"interrupted", "response_done"} \subseteq EventTypes
      BY DEF EventTypes
    <2>5. NoItems(b) /\ NoItems(c)
      BY <1>3, <2>3, <2>4, NoItemsAlone
    <2>6. NoItems(a)
      <3>1. r.size > 0 => r.size \in ChunkSizes
        BY DEF GeminiResponse
      <3>2. NoItems(<<>>)
        BY DEF NoItems
      <3> QED
        BY <1>2, <2>3, <3>1, <3>2, NoItemsAlone
    <2>7. inbox = (a \o b) \o c
      BY <2>2, <2>3 DEF GeminiYields
    <2>8. NoItems(inbox)
      BY <2>5, <2>6, <2>7, NoItemsTogether
    <2> QED
      BY <1>5, <2>8, NoItemsRight
  <1>6. CASE s.wire = "openai"
    <2>1. inbox \in {OpenAIYields(raw) : raw \in OpenAIAudio(Items \cap {item, item + 1}) \cup OpenAIOther}
      BY <1>6 DEF Yields
    <2>2. PICK raw \in OpenAIAudio(Items \cap {item, item + 1}) \cup OpenAIOther : inbox = OpenAIYields(raw)
      BY <2>1
    <2>3. PICK i \in Nat : i = item
      BY ProviderAssumption DEF NoItem, Items
    <2>4. CASE raw \in OpenAIAudio(Items \cap {item, item + 1})
      <3>1. PICK j \in Items : j = raw.item /\ j \in {item, item + 1} /\ raw.size \in ChunkSizes
        BY <2>4 DEF OpenAIAudio
      <3>2. inbox = <<AudioChunk(j, raw.size)>>
        BY <2>2, <2>4, <3>1 DEF OpenAIYields, OpenAIAudio
      <3>3. PICK x \in Messages : x = AudioChunk(j, raw.size) /\ x.item = j
        <4>1. PICK size \in ChunkSizes : size = raw.size
          BY <3>1
        <4>2. AudioChunk(j, size) \in Messages /\ AudioChunk(j, size).item = j
          BY DEF AudioChunk, Messages
        <4> QED
          BY <4>1, <4>2
      <3>4. inbox \in Seq(Messages) /\ Len(inbox) = 1 /\ inbox[1] = x /\ inbox # <<>> /\ Head(inbox) = x
        BY <3>2, <3>3
      <3>5. j # NoItem /\ i <= j
        BY <2>3, <3>1, ProviderAssumption DEF NoItem, Items
      <3>6. ItemAfter(inbox, item) = j
        BY <3>3, <3>4, <3>5 DEF ItemAfter
      <3> QED
        BY <1>6, <2>3, <3>3, <3>4, <3>5, <3>6 DEF YieldsRight
    <2>5. CASE raw \in OpenAIOther
      <3>1. \E t \in EventTypes : inbox = <<ProviderEvent(t)>>
        BY <2>2, <2>5 DEF OpenAIYields, OpenAIOther, EventTypes
      <3>2. PICK t \in EventTypes : inbox = <<ProviderEvent(t)>>
        BY <3>1
      <3>3. PICK x \in Messages : x = ProviderEvent(t) /\ x.item = NoItem /\ x.type # "audio"
        BY <1>3
      <3>4. inbox \in Seq(Messages) /\ Len(inbox) = 1 /\ inbox[1] = x /\ inbox # <<>> /\ Head(inbox) = x
        BY <3>2, <3>3
      <3>5. ItemAfter(inbox, item) = item
        BY <3>3, <3>4 DEF ItemAfter
      <3>6. item <= item
        BY <2>3
      <3> QED
        BY <1>6, <3>3, <3>4, <3>5, <3>6 DEF YieldsRight
    <2> QED
      BY <2>2, <2>4, <2>5
  <1> QED
    BY <1>1, <1>4, <1>5, <1>6

(* The provider's next message keeps the numbering of the answers. *)
LEMMA ReceiveKeeps ==
  ASSUME CallAudioInv, CallShape, Receive
  PROVE  CallAudioInv'
  <1>1. ItemsInv
    BY DEF CallAudioInv
  <1>2. PICK s \in ProviderSessions, item \in {NoItem} \cup Items :
          s = provider.session /\ item = provider.item
    BY <1>1 DEF ItemsInv
  <1>3. PICK inbox \in Yields(s, item) :
          /\ producer' = [producer EXCEPT !.inbox = inbox]
          /\ provider' =
               [provider EXCEPT
                  !.messages = @ + 1,
                  !.item = IF inbox # <<>> /\ Head(inbox).item # NoItem
                           THEN Head(inbox).item ELSE @,
                  !.active = IF inbox = <<>> THEN @ ELSE ResponseActive(@, Head(inbox))]
    BY <1>2 DEF Receive
  <1>4. UNCHANGED <<pump, handler, queue, session, playback, speech, chunks, frames, bargeIns,
                    bursts, stopped, dropMetric>>
    BY DEF Receive, stateVars, historyVars
  <1>5. YieldsRight(s, item, inbox)
    <2>1. s \in Sessions
      BY CallAssumption
    <2>2. s.wire # "openai" => item = NoItem
      BY <1>1, <1>2 DEF ItemsInv
    <2> QED
      BY <2>1, <2>2, YieldsAreRight
  <1>6. PICK next \in {NoItem} \cup Items : next = ItemAfter(inbox, item)
    BY <1>5 DEF YieldsRight
  <1>7. /\ producer'.inbox = inbox /\ producer'.buffered = producer.buffered
        /\ producer'.position = producer.position
    BY <1>3 DEF CallShape
  <1>8. /\ provider' \in [session : ProviderSessions, messages : Nat,
                          item : {NoItem} \cup Items, active : BOOLEAN]
        /\ provider'.session = s /\ provider'.item = next
    <2>1. PICK m \in Nat, a \in BOOLEAN : m = provider.messages /\ a = provider.active
      BY <1>1 DEF ItemsInv
    <2>2. PICK b \in BOOLEAN : b = IF inbox = <<>> THEN a ELSE ResponseActive(a, Head(inbox))
      BY DEF ResponseActive
    <2>3. provider = [session |-> s, messages |-> m, item |-> item, active |-> a]
      BY <1>1, <1>2, <2>1 DEF ItemsInv
    <2>4. provider' = [session |-> s, messages |-> m + 1, item |-> next, active |-> b]
      BY <1>3, <1>6, <2>2, <2>3 DEF ItemAfter
    <2> QED
      BY <2>4
  <1>9. ItemsInv'
    <2>1. PICK i \in Nat, j \in Nat, k \in Nat : i = session.item /\ j = item /\ k = next
      BY <1>2, AudioTypes, ProviderAssumption DEF NoItem, Items
    <2>2. i <= j /\ j <= k
      BY <1>1, <1>2, <1>5, <1>6, <2>1 DEF ItemsInv, YieldsRight
    <2>3. session'.item <= provider'.item
      BY <1>4, <1>8, <2>1, <2>2
    <2> QED
      BY <1>5, <1>6, <1>7, <1>8, <2>3 DEF ItemsInv, YieldsRight
  <1>10. chunks' \in Seq(Chunks) /\ AudioInv(Audio', chunks', Epoch') /\ EvidenceInv'
    BY <1>4, <1>7, AudioUnchanged
  <1>11. HeardInv'
    BY <1>4, <1>7 DEF CallAudioInv, HeardInv
  <1>12. BurstInv'
    BY <1>4 DEF CallAudioInv, BurstInv
  <1> QED
    BY <1>9, <1>10, <1>11, <1>12 DEF CallAudioInv

-----------------------------------------------------------------------------
(* Barge-in *)

(* The position to truncate at has been heard. *)
LEMMA PositionsAreHeard ==
  ASSUME CallAudioInv, NEW p \in PlaybackPositions
  PROVE  p \in Positions /\ Heard(frames, p)
  <1>1. frames \in Seq(Frames) /\ session \in CallFields
    BY AudioTypes
  <1>2. /\ Heard(frames, session.played) /\ Heard(frames, session.inflight)
        /\ session.inflight \in PacketPositions
    BY DEF CallAudioInv, HeardInv
  <1>3. session.played \in Positions /\ session.item \in {NoItem} \cup Items
    BY <1>1 DEF CallFields
  <1>4. ASSUME NEW r \in EffectivePositions PROVE r \in Positions /\ Heard(frames, r)
    <2>1. CASE session.inflight = None
      BY <1>2, <1>3, <1>4, <2>1 DEF EffectivePositions
    <2>2. CASE session.inflight # None
      <3>1. PICK i \in Items, n \in Nat :
              session.inflight = [item |-> i, end |-> n] /\ n >= Packet
        BY <1>2, <2>2 DEF PacketPositions
      <3>2. session.inflight.item = i /\ session.inflight.end = n
        BY <3>1
      <3>3. PICK s \in Nat : s = IF session.played.item = i THEN session.played.end ELSE n - Packet
        <4>1. session.played.end \in Nat
          BY <1>3 DEF Positions
        <4>2. n - Packet \in Nat
          BY <3>1, CallAssumption
        <4> QED
          BY <4>1, <4>2
      <3>4. r \in {[item |-> i, end |-> IF s + e < n THEN s + e ELSE n] : e \in 0..n}
        BY <1>4, <2>2, <3>2, <3>3, Zenon DEF EffectivePositions
      <3>5. PICK e \in 0..n : r = [item |-> i, end |-> IF s + e < n THEN s + e ELSE n]
        BY <3>4
      <3>6. PICK x \in Nat : x = (IF s + e < n THEN s + e ELSE n) /\ x <= n
        OBVIOUS
      <3>7. r = [item |-> i, end |-> x] /\ r.item = i /\ r.end = x
        BY <3>5, <3>6
      <3>8. r \in Positions
        BY <3>7 DEF Positions
      <3>9. ASSUME x > 0
            PROVE  \E f \in 1..Len(frames) : /\ frames[f].fate = "written"
                                             /\ frames[f].position.item = i
                                             /\ frames[f].position.end >= x
        <4>1. n > 0
          BY <3>6, <3>9
        <4>2. PICK f \in 1..Len(frames) : /\ frames[f].fate = "written"
                                          /\ frames[f].position.item = i
                                          /\ frames[f].position.end >= n
          BY <1>2, <3>2, <4>1 DEF Heard
        <4>3. frames[f] \in Frames
          BY <1>1
        <4>4. PICK y \in Nat : y = frames[f].position.end
          BY <4>3 DEF Frames, PacketPositions, None
        <4>5. y >= x
          BY <3>6, <4>2, <4>4
        <4> QED
          BY <4>2, <4>4, <4>5
      <3> QED
        BY <3>7, <3>8, <3>9 DEF Heard
    <2> QED
      BY <2>1, <2>2
  <1>5. PICK r \in EffectivePositions :
          p = IF session.item # NoItem /\ r.item # session.item
              THEN [item |-> session.item, end |-> 0] ELSE r
    BY DEF PlaybackPositions
  <1>6. CASE p = r
    BY <1>4, <1>6
  <1>7. CASE p = [item |-> session.item, end |-> 0]
    BY <1>3, <1>7 DEF Positions, Heard
  <1> QED
    BY <1>5, <1>6, <1>7

(* The first and the last of a queue that is too long: none of them twice. *)
Increasing(r) == \A i, j \in 1..Len(r) : i < j => r[i] < r[j]

(* A row of increasing numbers names each once. *)
LEMMA IncreasingIsCounted ==
  ASSUME NEW r \in Seq(Nat), Increasing(r)
  PROVE  Cardinality(Range(r)) = Len(r)
  <1>1. PICK n \in Nat : n = Len(r) /\ DOMAIN r = 1..n
    OBVIOUS
  <1>2. \A i \in 1..n : r[i] \in Nat
    BY <1>1
  <1>3. Range(r) = {r[i] : i \in 1..n}
    BY <1>1 DEF Range
  <1>4. r \in [1..n -> Range(r)]
    BY <1>1, <1>3
  <1>5. ASSUME NEW i \in 1..n, NEW j \in 1..n, r[i] = r[j] PROVE i = j
    <2>1. ~(i < j)
      BY <1>1, <1>2, <1>5 DEF Increasing
    <2>2. ~(j < i)
      BY <1>1, <1>2, <1>5 DEF Increasing
    <2> QED
      BY <2>1, <2>2
  <1>6. \A y \in Range(r) : \E i \in 1..n : r[i] = y
    BY <1>3
  <1>7. r \in Bijection(1..n, Range(r))
    BY <1>1, <1>4, <1>5, <1>6 DEF Bijection, Injection, Surjection, IsInjective
  <1>8. ExistsBijection(1..n, Range(r))
    BY <1>7, Zenon DEF ExistsBijection
  <1> QED
    BY <1>1, <1>8, FS_CountingElements

EvidenceOK(q, r, limit) ==
  /\ Len(r) <= limit /\ Len(r) <= Len(q)
  /\ \A i \in 1..Len(r) : \E j \in 1..Len(q) : r[i] = q[j]
  /\ Cardinality(Range(r)) = Len(r)

(* _bounded_evidence: the head and the tail of the list, no more than the limit,
   and none of them twice. *)
LEMMA EvidenceIsBounded ==
  ASSUME NEW q \in Seq(Nat), Increasing(q), NEW limit \in Nat \ {0, 1}
  PROVE  BoundedEvidence(q, limit) \in Seq(Nat) /\ EvidenceOK(q, BoundedEvidence(q, limit), limit)
  <1>1. PICK n \in Nat : n = Len(q)
    OBVIOUS
  <1>2. CASE n <= limit
    <2>1. BoundedEvidence(q, limit) = q
      BY <1>1, <1>2 DEF BoundedEvidence
    <2> QED
      BY <1>1, <1>2, <2>1, IncreasingIsCounted DEF EvidenceOK
  <1>3. CASE ~(n <= limit)
    <2>1. PICK h \in Nat, t \in Nat :
            h = (limit + 1) \div 2 /\ t = limit - h /\ h >= 1 /\ t >= 1 /\ h + t = limit
      <3>1. (limit + 1) \div 2 \in Nat /\ (limit + 1) \div 2 >= 1 /\ limit - ((limit + 1) \div 2) >= 1
        OBVIOUS
      <3> QED
        BY <3>1
    <2>2. BoundedEvidence(q, limit) = SubSeq(q, 1, h) \o SubSeq(q, n - t + 1, n)
      <3>1. t # 0 /\ ~(Len(q) <= limit)
        BY <1>1, <1>3, <2>1
      <3>2. BoundedEvidence(q, limit) =
              IF Len(q) <= limit THEN q
              ELSE SubSeq(q, 1, h) \o (IF t = 0 THEN q ELSE SubSeq(q, Len(q) - t + 1, Len(q)))
        BY <2>1, Zenon DEF BoundedEvidence
      <3>3. BoundedEvidence(q, limit) = SubSeq(q, 1, h) \o SubSeq(q, Len(q) - t + 1, Len(q))
        BY <3>1, <3>2, Zenon
      <3> QED
        BY <1>1, <3>3, Zenon
    <2>3. PICK a \in Seq(Nat) : /\ a = SubSeq(q, 1, h) /\ Len(a) = h
                                /\ \A i \in 1..h : a[i] = q[i]
      <3>1. SubSeq(q, 1, h) \in Seq(Nat) /\ Len(SubSeq(q, 1, h)) = h
        BY <1>1, <1>3, <2>1
      <3>2. \A i \in 1..h : SubSeq(q, 1, h)[i] = q[i]
        BY <1>1, <1>3, <2>1
      <3> QED
        BY <3>1, <3>2
    <2>4. PICK b \in Seq(Nat) : /\ b = SubSeq(q, n - t + 1, n) /\ Len(b) = t
                                /\ \A i \in 1..t : b[i] = q[n - t + i]
      <3>1. SubSeq(q, n - t + 1, n) \in Seq(Nat) /\ Len(SubSeq(q, n - t + 1, n)) = t
        BY <1>1, <1>3, <2>1
      <3>2. \A i \in 1..t : SubSeq(q, n - t + 1, n)[i] = q[n - t + i]
        BY <1>1, <1>3, <2>1
      <3> QED
        BY <3>1, <3>2
    <2>5. a \o b \in Seq(Nat) /\ Len(a \o b) = limit
      <3>1. Len(a) = h /\ Len(b) = t /\ h + t = limit
        BY <2>1, <2>3, <2>4
      <3>2. a \o b \in Seq(Nat) /\ Len(a \o b) = Len(a) + Len(b)
        OBVIOUS
      <3> QED
        BY <3>1, <3>2
    <2>6. PICK r \in Seq(Nat) : r = a \o b /\ Len(r) = limit
      BY <2>5
    <2>7. \A i \in 1..limit : r[i] = IF i <= h THEN a[i] ELSE b[i - h]
      <3>1. Len(a) = h /\ Len(b) = t /\ h + t = limit
        BY <2>1, <2>3, <2>4
      <3>2. \A i \in 1..(h + t) : (a \o b)[i] = IF i <= h THEN a[i] ELSE b[i - h]
        BY <3>1
      <3> QED
        BY <2>6, <3>1, <3>2
    <2>8. \A i \in 1..limit : IF i <= h THEN i \in 1..h ELSE i - h \in 1..t
      BY <2>1
    <2> DEFINE At(i) == IF i <= h THEN i ELSE n - limit + i
    <2>9. \A i \in 1..limit : At(i) \in 1..n /\ r[i] = q[At(i)]
      <3> SUFFICES ASSUME NEW i \in 1..limit PROVE At(i) \in 1..n /\ r[i] = q[At(i)]
        OBVIOUS
      <3>1. CASE i <= h
        <4>1. At(i) = i /\ i \in 1..n
          BY <1>3, <2>1, <3>1
        <4>2. r[i] = a[i] /\ i \in 1..h
          BY <2>7, <2>8, <3>1
        <4>3. a[i] = q[i]
          BY <2>3, <4>2
        <4> QED
          BY <4>1, <4>2, <4>3
      <3>2. CASE ~(i <= h)
        <4>1. r[i] = b[i - h] /\ i - h \in 1..t
          BY <2>7, <2>8, <3>2
        <4>2. b[i - h] = q[n - t + (i - h)]
          BY <2>4, <4>1
        <4>3. n - t + (i - h) = n - limit + i
          BY <2>1
        <4> QED
          BY <1>3, <2>1, <3>2, <4>1, <4>2, <4>3
      <3> QED
        BY <3>1, <3>2
    <2>10. \A i, j \in 1..limit : i < j => At(i) < At(j)
      BY <1>3, <2>1
    <2> HIDE DEF At
    <2>11. Increasing(r)
      BY <1>1, <2>6, <2>9, <2>10 DEF Increasing
    <2>12. Cardinality(Range(r)) = Len(r)
      BY <2>11, IncreasingIsCounted
    <2>13. BoundedEvidence(q, limit) = r
      BY <2>2, <2>3, <2>4, <2>6
    <2>14. Len(r) <= limit /\ Len(r) <= Len(q)
      BY <1>1, <1>3, <2>6
    <2>15. \A i \in 1..Len(r) : \E j \in 1..Len(q) : r[i] = q[j]
      BY <1>1, <2>6, <2>9
    <2> QED
      BY <2>12, <2>13, <2>14, <2>15 DEF EvidenceOK
  <1> QED
    BY <1>2, <1>3

(* The queue is drained: its packets are discarded. *)
LEMMA QueueIsDiscarded ==
  ASSUME NEW F \in Seq(Frames), NEW q \in Seq(Nat), NEW d, QueueInv(F, q, d), NEW G,
         G = [f \in DOMAIN F |->
                IF f \in Range(q) THEN [F[f] EXCEPT !.fate = "discarded"] ELSE F[f]]
  PROVE  /\ G \in Seq(Frames) /\ Refated(F, G, Range(q), "discarded")
         /\ \A f \in 1..Len(F) : f \in Range(q) <=> F[f].fate = "queued"
  <1>1. PICK n \in Nat : n = Len(F) /\ DOMAIN F = 1..n
    OBVIOUS
  <1>2. \A f \in 1..n : F[f] \in Frames
    BY <1>1
  <1>3. DOMAIN G = 1..n
    BY <1>1
  <1>4. ASSUME NEW f \in 1..n
        PROVE  /\ G[f] \in Frames
               /\ IF f \in Range(q) THEN G[f].fate = "discarded" ELSE G[f] = F[f]
               /\ G[f].position = F[f].position /\ G[f].window = F[f].window
               /\ G[f].units = F[f].units
    <2>1. PICK x \in Frames : x = F[f]
      BY <1>2
    <2>2. G[f] = IF f \in Range(q) THEN [x EXCEPT !.fate = "discarded"] ELSE x
      BY <1>1, <2>1
    <2>3. /\ [x EXCEPT !.fate = "discarded"] \in Frames
          /\ [x EXCEPT !.fate = "discarded"].fate = "discarded"
          /\ [x EXCEPT !.fate = "discarded"].position = x.position
          /\ [x EXCEPT !.fate = "discarded"].window = x.window
          /\ [x EXCEPT !.fate = "discarded"].units = x.units
      BY DEF Frames, Fates
    <2>4. CASE f \in Range(q)
      <3>1. G[f] = [x EXCEPT !.fate = "discarded"]
        BY <2>2, <2>4
      <3> QED
        BY <2>1, <2>3, <2>4, <3>1
    <2>5. CASE f \notin Range(q)
      BY <2>1, <2>2, <2>5
    <2> QED
      BY <2>4, <2>5
  <1>5. G \in Seq(Frames) /\ Len(G) = n
    <2>1. G = [f \in 1..n |-> G[f]]
      BY <1>1
    <2>2. \A f \in 1..n : G[f] \in Frames
      BY <1>4
    <2>3. G \in [1..n -> Frames]
      BY <2>1, <2>2, Zenon
    <2>4. G \in Seq(Frames)
      BY <2>3, SeqDef
    <2> QED
      BY <1>3, <2>4
  <1>6. Refated(F, G, Range(q), "discarded")
    BY <1>1, <1>4, <1>5 DEF Refated, SamePackets
  <1> QED
    BY <1>5, <1>6, QueueIsInterval

(* What is left of the audio. *)
LEMMA AudioIsForgotten ==
  ASSUME NEW F \in Seq(Frames), NEW G \in Seq(Frames), NEW q \in Seq(Nat), NEW d \in Nat,
         NEW B \in Seq(Units), NEW ch \in Seq(Chunks), NEW e \in Nat, NEW t, NEW w \in CallFields,
         Refated(F, G, Range(q), "discarded"),
         \A f \in 1..Len(F) : f \in Range(q) <=> F[f].fate = "queued",
         QueueInv(F, q, d), OrderInv(F, B), FrameInv(F, ch, e), BufferInv(B, t, ch, e),
         w.item = NoItem, w.resampler = 0,
         NEW s, s.buffered = NothingBuffered, s.session = w, s.frames = G,
         s.queue = <<>>, s.dropMetric = d + Len(q)
  PROVE  AudioInv(s, ch, e + 1)
  <1>1. QueueInv(G, <<>>, d + Len(q))
    BY QueueIsDrained
  <1>2. Range(<<>>) = {} /\ Len(<<>>) = 0 /\ <<>> \in Seq(Units) /\ <<>> \in Seq(Accounts)
        /\ <<>> \in Seq(Nat)
    BY DEF Range
  <1>3. OrderInv(G, <<>>)
    <2>1. OrderInv(G, B)
      BY OrderStays DEF Refated
    <2>2. InOrder(<<>>)
      BY <1>2 DEF InOrder
    <2> QED
      BY <1>2, <2>1, <2>2 DEF OrderInv
  <1>4. AccountInv(0, <<>>, <<>>, ch)
    BY <1>2 DEF AccountInv, AccountsOpen, Accounted
  <1>5. FrameInv(G, ch, e + 1)
    BY DiscardedIsRight
  <1>6. \A c \in 1..Len(ch) : ch[c].epoch <= e + 1 /\ ch[c].epoch # e + 1
    <2> SUFFICES ASSUME NEW c \in 1..Len(ch)
                 PROVE  ch[c].epoch <= e + 1 /\ ch[c].epoch # e + 1
      OBVIOUS
    <2>1. ch[c].epoch <= e /\ ch[c] \in Chunks
      BY DEF BufferInv
    <2>2. PICK y \in Nat : y = ch[c].epoch
      BY <2>1 DEF Chunks
    <2> QED
      BY <2>1, <2>2
  <1>7. BufferInv(<<>>, w, ch, e + 1) /\ WholeInv(G, <<>>, w.item, ch, e + 1)
    BY <1>2, <1>6 DEF BufferInv, WholeInv
  <1>8. AudioShape(s)
    <2>1. NothingBuffered \in [units : Seq(Units), sources : Seq(Accounts)]
      BY <1>2 DEF NothingBuffered
    <2>2. d + Len(q) \in Nat
      OBVIOUS
    <2> QED
      BY <1>2, <2>1, <2>2 DEF AudioShape
  <1>9. s.buffered.units = <<>> /\ s.buffered.sources = <<>>
    BY DEF NothingBuffered
  <1> QED
    BY <1>1, <1>3, <1>4, <1>5, <1>7, <1>8, <1>9 DEF AudioInv

(* Audio of the queue or of the packet buffer is in no other packet. *)
LEMMA DiscardedIsNotGone ==
  ASSUME NEW F \in Seq(Frames), NEW G \in Seq(Frames), NEW S, NEW B \in Seq(Units),
         Refated(F, G, S, "discarded"), OrderInv(F, B), NEW u \in Units,
         \/ u \in Range(B)
         \/ \E f \in 1..Len(F) : f \in S /\ u \in Range(F[f].units)
  PROVE  ~GoneIn(G, u)
  <1> SUFFICES ASSUME GoneIn(G, u) PROVE FALSE
    OBVIOUS
  <1>1. PICK g \in 1..Len(G) : G[g].fate \in {"written", "dropped"} /\ u \in Range(G[g].units)
    BY DEF GoneIn
  <1>2. g \in 1..Len(F) /\ u \in Range(F[g].units) /\ g \notin S
    BY <1>1 DEF Refated, SamePackets
  <1>3. ~Precedes(u, u)
    BY PrecedesIsStrict
  <1>4. CASE u \in Range(B)
    BY <1>2, <1>3, <1>4 DEF OrderInv
  <1>5. CASE \E f \in 1..Len(F) : f \in S /\ u \in Range(F[f].units)
    <2>1. PICK f \in 1..Len(F) : f \in S /\ u \in Range(F[f].units)
      BY <1>5
    <2>2. f < g \/ g < f
      BY <1>2, <2>1
    <2> QED
      BY <1>2, <1>3, <2>1, <2>2 DEF OrderInv
  <1> QED
    BY <1>4, <1>5

(* discarded_source_ordinals, of packets F, queue q and accounts A. *)
SourcesOf(F, q, A) ==
  (UNION {F[f].window : f \in Range(q)}) \cup {source.chunk : source \in Range(A)}

(* The sources of a barge-in are those of the packets in the queue and those with an
   account in the buffer. *)
LEMMA SourceIs ==
  ASSUME NEW F, NEW q, NEW A, NEW c
  PROVE  c \in SourcesOf(F, q, A) <=>
           \/ \E f \in Range(q) : c \in F[f].window
           \/ \E source \in Range(A) : c = source.chunk
  <1>1. c \in UNION {F[f].window : f \in Range(q)} <=> \E f \in Range(q) : c \in F[f].window
    OBVIOUS
  <1>2. c \in {source.chunk : source \in Range(A)} <=> \E source \in Range(A) : c = source.chunk
    BY Zenon
  <1>3. PICK U, V : /\ U = UNION {F[f].window : f \in Range(q)}
                    /\ V = {source.chunk : source \in Range(A)}
    BY Zenon
  <1>4. SourcesOf(F, q, A) = U \cup V
    BY <1>3, Zenon DEF SourcesOf
  <1>5. c \in SourcesOf(F, q, A) <=> c \in U \/ c \in V
    BY <1>4
  <1>6. c \in U <=> \E f \in Range(q) : c \in F[f].window
    BY <1>1, <1>3, Zenon
  <1>7. c \in V <=> \E source \in Range(A) : c = source.chunk
    BY <1>2, <1>3, Zenon
  <1> QED
    BY <1>5, <1>6, <1>7, Zenon

(* A unit of message c, of the audio since the last barge-in, is not gone. *)
IsShort(G, ch, e, c) ==
  /\ c \in 1..Len(ch) /\ ch[c].epoch = e
  /\ \E nr \in 1..ch[c].size : ~GoneIn(G, Unit(c, nr))

(* A chunk that barge-in records as discarded came since the last barge-in, and has a
   unit that no packet, written or dropped, has taken away before. *)
LEMMA SourcesAreShort ==
  ASSUME NEW F \in Seq(Frames), NEW G \in Seq(Frames), NEW q \in Seq(Nat), NEW B \in Seq(Units),
         NEW A \in Seq(Accounts), NEW ch \in Seq(Chunks), NEW e \in Nat, NEW t,
         Refated(F, G, Range(q), "discarded"), Range(q) \subseteq 1..Len(F),
         \A f \in 1..Len(F) : f \in Range(q) <=> F[f].fate = "queued",
         OrderInv(F, B), AccountInv(0, B, A, ch), FrameInv(F, ch, e), BufferInv(B, t, ch, e),
         NEW c \in SourcesOf(F, q, A)
  PROVE  IsShort(G, ch, e, c)
  <1>1. CASE \E f \in Range(q) : c \in F[f].window
    <2>1. PICK f \in 1..Len(F) : f \in Range(q) /\ c \in F[f].window
      BY <1>1
    <2>2. FrameIs(F[f], ch, e) /\ F[f].fate = "queued"
      BY <2>1 DEF FrameInv
    <2>3. PICK u \in Range(F[f].units) : c = u.chunk
      BY <2>1, <2>2 DEF FrameIs
    <2>4. F[f] \in Frames
      OBVIOUS
    <2>5. F[f].units \in Seq(Units)
      BY <2>4 DEF Frames
    <2>6. u \in Units
      BY <2>5 DEF Range
    <2>7. Known(ch, u) /\ ch[u.chunk].epoch = e
      BY <2>2 DEF FrameIs
    <2>8. u = Unit(c, u.nr)
      BY <2>3, <2>6, UnitIs
    <2>9. ~GoneIn(G, u)
      BY <2>1, <2>6, DiscardedIsNotGone
    <2> QED
      BY <2>3, <2>7, <2>8, <2>9 DEF Known, IsShort
  <1>2. CASE \E source \in Range(A) : c = source.chunk
    <2>1. PICK i \in 1..Len(A) : c = A[i].chunk
      <3>1. PICK source \in Range(A) : c = source.chunk
        BY <1>2
      <3>2. PICK i \in 1..Len(A) : A[i] = source
        BY DEF Range
      <3> QED
        BY <3>1, <3>2
    <2>2. A[i] \in Accounts
      OBVIOUS
    <2>3. c \in 1..Len(ch) /\ A[i].left >= 1 /\ A[i].left <= ch[c].size
      BY <2>1 DEF AccountInv, AccountsOpen
    <2>4. ch[c] \in Chunks /\ c \in Nat
      BY <2>3
    <2>5. PICK n \in Nat, l \in Nat : n = ch[c].size /\ l = A[i].left
      BY <2>2, <2>4 DEF Chunks, Accounts
    <2>6. 1 <= l /\ l <= n
      BY <2>3, <2>5
    <2>7. PICK u \in Units : u = Unit(c, n) /\ u.chunk = c /\ u.nr = n
      BY <2>4, UnitFields
    <2>8. Covers(A[i], ch, u)
      <3>1. n > n - l /\ n <= n
        BY <2>6
      <3> QED
        BY <2>1, <2>5, <2>7, <3>1 DEF Covers
    <2>9. Accounted(A, ch, u)
      BY <2>8 DEF Accounted
    <2>10. u \in Range(B)
      BY <2>9, SMTT(30) DEF AccountInv, Range
    <2>11. ~GoneIn(G, u)
      BY <2>10, DiscardedIsNotGone
    <2>12. ch[c].epoch = e
      BY <2>7, <2>10 DEF BufferInv
    <2>13. n \in 1..n
      BY <2>6
    <2> QED
      BY <2>3, <2>5, <2>7, <2>11, <2>12, <2>13 DEF IsShort
  <1>3. \/ \E f \in Range(q) : c \in F[f].window
        \/ \E source \in Range(A) : c = source.chunk
    BY SourceIs, SMTT(30)
  <1> QED
    BY <1>1, <1>2, <1>3, Zenon

(* A chunk of the answer under way that has a unit in the queue or in the buffer is
   recorded as discarded. *)
LEMMA ShortAreSources ==
  ASSUME NEW F \in Seq(Frames), NEW G \in Seq(Frames), NEW q \in Seq(Nat), NEW B \in Seq(Units),
         NEW A \in Seq(Accounts), NEW ch \in Seq(Chunks), NEW e \in Nat, NEW item,
         Refated(F, G, Range(q), "discarded"),
         \A f \in 1..Len(F) : f \in Range(q) <=> F[f].fate = "queued",
         AccountInv(0, B, A, ch), FrameInv(F, ch, e), WholeInv(F, B, item, ch, e),
         NEW c \in 1..Len(ch), ch[c].epoch = e, ch[c].item = item, NEW nr \in 1..ch[c].size
  PROVE  GoneIn(G, Unit(c, nr)) \/ c \in SourcesOf(F, q, A)
  <1>1. Unit(c, nr).chunk = c
    BY DEF Unit
  <1>2. CASE Unit(c, nr) \in Range(B)
    <2>1. PICK i \in 1..Len(B) : B[i] = Unit(c, nr)
      BY <1>2 DEF Range
    <2>2. Accounted(A, ch, Unit(c, nr))
      <3>1. i > 0
        OBVIOUS
      <3> QED
        BY <2>1, <3>1 DEF AccountInv
    <2>3. PICK j \in 1..Len(A) : A[j].chunk = c
      BY <1>1, <2>2 DEF Accounted, Covers
    <2>4. A[j] \in Range(A)
      BY <2>3 DEF Range
    <2> QED
      BY <2>3, <2>4, SourceIs
  <1>3. CASE \E f \in 1..Len(F) : Holds(F, f, Unit(c, nr))
    <2>1. PICK f \in 1..Len(F) : F[f].fate # "discarded" /\ Unit(c, nr) \in Range(F[f].units)
      BY <1>3 DEF Holds
    <2>2. F[f] \in Frames
      OBVIOUS
    <2>3. F[f].fate \in {"queued", "written", "dropped"}
      BY <2>1, <2>2 DEF Frames, Fates
    <2>4. CASE F[f].fate = "queued"
      <3>1. f \in Range(q)
        BY <2>4
      <3>2. c \in F[f].window
        <4>1. F[f].window = {u.chunk : u \in Range(F[f].units)}
          BY Zenon DEF FrameInv, FrameIs
        <4> QED
          BY <1>1, <2>1, <4>1, Zenon
      <3>3. c \in SourcesOf(F, q, A)
        BY <3>1, <3>2, SourceIs, Zenon
      <3> QED
        BY <3>3, Zenon
    <2>5. CASE F[f].fate \in {"written", "dropped"}
      <3>1. G[f] = F[f] /\ f \in 1..Len(G)
        BY <2>5 DEF Refated, SamePackets
      <3> QED
        BY <2>1, <2>5, <3>1 DEF GoneIn
    <2> QED
      BY <2>3, <2>4, <2>5
  <1> QED
    BY <1>2, <1>3 DEF WholeInv

(* The record of a barge-in is true when it is made. *)
LEMMA NewEvidenceIsTrue ==
  ASSUME NEW F \in Seq(Frames), NEW G \in Seq(Frames), NEW q \in Seq(Nat), NEW d, NEW B \in Seq(Units),
         NEW A \in Seq(Accounts), NEW ch \in Seq(Chunks), NEW e \in Nat, NEW t \in CallFields,
         Refated(F, G, Range(q), "discarded"), QueueInv(F, q, d),
         OrderInv(F, B), AccountInv(0, B, A, ch), FrameInv(F, ch, e), BufferInv(B, t, ch, e),
         WholeInv(F, B, t.item, ch, e),
         NEW p \in Positions, Heard(G, p), NEW truncated \in BOOLEAN, NEW ev,
         ev = [position |-> p, truncated |-> truncated,
               recorded |-> BoundedEvidence(q, EvidenceLimit),
               omitted |-> Len(q) - Len(BoundedEvidence(q, EvidenceLimit)),
               sources |-> SourcesOf(F, q, A), item |-> t.item]
  PROVE  ev \in Evidence /\ EvidenceTrue(e + 1, ev, G, ch)
  <1>1. /\ Range(q) \subseteq 1..Len(F)
        /\ \A f \in 1..Len(F) : f \in Range(q) <=> F[f].fate = "queued"
    BY QueueIsInterval, Zenon
  <1>2. Increasing(q)
    <2>1. PICK n \in Nat, m \in Nat : n = Len(F) /\ m = Len(q)
      OBVIOUS
    <2>2. \A i \in 1..m : q[i] = n - m + i
      BY <2>1, Zenon DEF QueueInv
    <2>3. \A i, j \in 1..m : i < j => q[i] < q[j]
      BY <2>2
    <2> QED
      BY <2>1, <2>3, Zenon DEF Increasing
  <1>3. EvidenceLimit \in Nat \ {0, 1}
    BY CallAssumption
  <1>4. PICK r \in Seq(Nat) : r = BoundedEvidence(q, EvidenceLimit) /\ EvidenceOK(q, r, EvidenceLimit)
    BY <1>2, <1>3, EvidenceIsBounded
  <1>5. PICK S : S = SourcesOf(F, q, A)
    OBVIOUS
  <1>6. PICK o \in Int : o = Len(q) - Len(r) /\ o >= 0
    <2>1. PICK m \in Nat, n \in Nat : m = Len(q) /\ n = Len(r)
      OBVIOUS
    <2>2. n <= m
      BY <1>4, <2>1 DEF EvidenceOK
    <2>3. m - n \in Int /\ m - n >= 0
      BY <2>2
    <2> QED
      BY <2>1, <2>3
  <1>7. ev = [position |-> p, truncated |-> truncated, recorded |-> r, omitted |-> o,
              sources |-> S, item |-> t.item]
    BY <1>4, <1>5, <1>6, Zenon
  <1>8. /\ ev.position = p /\ ev.truncated = truncated /\ ev.recorded = r /\ ev.omitted = o
        /\ ev.sources = S /\ ev.item = t.item
    BY <1>7
  <1>9. ASSUME NEW c \in S
        PROVE  /\ c \in 1..Len(ch) /\ ch[c].epoch = e
               /\ \E nr \in 1..ch[c].size : ~GoneIn(G, Unit(c, nr))
    <2>1. c \in SourcesOf(F, q, A)
      BY <1>5
    <2>2. IsShort(G, ch, e, c)
      BY <1>1, <2>1, SourcesAreShort
    <2> QED
      BY <2>2 DEF IsShort
  <1>10. ASSUME NEW c \in 1..Len(ch), ch[c].epoch = e, ch[c].item = t.item, NEW nr \in 1..ch[c].size
         PROVE  GoneIn(G, Unit(c, nr)) \/ c \in S
    BY <1>1, <1>5, <1>10, ShortAreSources
  <1>11. ASSUME NEW i \in 1..Len(r)
         PROVE  r[i] \in 1..Len(G) /\ G[r[i]].fate = "discarded"
    <2>1. PICK j \in 1..Len(q) : r[i] = q[j]
      BY <1>4 DEF EvidenceOK
    <2>2. q[j] \in Range(q)
      BY SMTT(30) DEF Range
    <2>3. q[j] \in 1..Len(F)
      BY <1>1, <2>2
    <2> QED
      BY <2>1, <2>2, <2>3 DEF Refated, SamePackets
  <1>12. ev \in Evidence
    <2>1. S \in SUBSET Nat
      BY <1>9
    <2>2. t.item \in {NoItem} \cup Items
      BY DEF CallFields
    <2> QED
      BY <1>7, <2>1, <2>2 DEF Evidence
  <1>13. (e + 1) - 1 = e
    OBVIOUS
  <1>14. EvidenceTrue(e + 1, ev, G, ch)
    <2>1. /\ Heard(G, ev.position) /\ Cardinality(Range(ev.recorded)) = Len(ev.recorded)
          /\ ev.omitted >= 0 /\ Len(ev.recorded) <= EvidenceLimit
      BY <1>4, <1>6, <1>8 DEF EvidenceOK
    <2>2. \A i \in 1..Len(ev.recorded) : /\ ev.recorded[i] \in 1..Len(G)
                                         /\ G[ev.recorded[i]].fate = "discarded"
      BY <1>8, <1>11
    <2>3. \A c \in ev.sources : /\ c \in 1..Len(ch) /\ ch[c].epoch = (e + 1) - 1
                                /\ \E nr \in 1..ch[c].size : ~GoneIn(G, Unit(c, nr))
      BY <1>8, <1>9, <1>13
    <2>4. \A c \in 1..Len(ch) : ch[c].epoch = (e + 1) - 1 /\ ch[c].item = ev.item =>
            \A nr \in 1..ch[c].size : GoneIn(G, Unit(c, nr)) \/ c \in ev.sources
      BY <1>8, <1>10, <1>13
    <2> QED
      BY <2>1, <2>2, <2>3, <2>4 DEF EvidenceTrue
  <1> QED
    BY <1>12, <1>14

(* The last part of barge-in. *)
LEMMA FinishBargeInKeeps ==
  ASSUME CallAudioInv, CallShape, NEW p \in Positions, Heard(frames, p), NEW truncated \in BOOLEAN,
         FinishBargeIn(p, truncated), UNCHANGED <<pump, chunks>>,
         producer'.buffered = NothingBuffered,
         producer'.position = producer.position \/ producer'.position = None,
         \/ producer'.inbox = producer.inbox
         \/ producer.inbox # <<>> /\ producer'.inbox = Tail(producer.inbox),
         provider' = provider \/ provider' = [provider EXCEPT !.active = FALSE]
  PROVE  CallAudioInv'
  <1>1. /\ frames \in Seq(Frames) /\ queue \in Seq(Nat) /\ dropMetric \in Nat
        /\ session \in CallFields /\ chunks \in Seq(Chunks)
        /\ bargeIns \in Seq(Evidence) /\ Epoch \in Nat
        /\ FrameInv(frames, chunks, Epoch) /\ QueueInv(frames, queue, dropMetric)
    BY AudioTypes
  <1>2. PICK B \in Seq(Units), A \in Seq(Accounts) :
          B = producer.buffered.units /\ A = producer.buffered.sources
    BY AudioTypes
  <1>3. /\ OrderInv(frames, B) /\ AccountInv(0, B, A, chunks) /\ BufferInv(B, session, chunks, Epoch)
        /\ WholeInv(frames, B, session.item, chunks, Epoch)
    BY <1>2 DEF CallAudioInv, AudioInv, Audio
  <1>4. /\ EndAssistantPlayback("barge_in") /\ session' = ForgottenPositions /\ queue' = <<>>
        /\ frames' = [f \in DOMAIN frames |->
                        IF f \in Range(queue) THEN [frames[f] EXCEPT !.fate = "discarded"] ELSE frames[f]]
        /\ dropMetric' = dropMetric + Len(queue)
        /\ bargeIns' = Append(bargeIns, BargeInEvidence(p, truncated))
    BY DEF FinishBargeIn
  <1>5. /\ frames' \in Seq(Frames) /\ Refated(frames, frames', Range(queue), "discarded")
        /\ \A f \in 1..Len(frames) : f \in Range(queue) <=> frames[f].fate = "queued"
    BY <1>1, <1>4, QueueIsDiscarded
  <1>6. Proceeds(frames, frames', chunks, Epoch)
    BY <1>1, <1>5, RefatedProceeds
  <1>7. /\ session' \in CallFields /\ session'.item = NoItem /\ session'.resampler = 0
        /\ session'.played = None /\ session'.inflight = None
    <2>1. None \in Positions
      BY DEF None, Positions
    <2> QED
      BY <1>1, <1>4, <2>1 DEF ForgottenPositions, CallFields
  <1>8. PICK ev : ev = BargeInEvidence(p, truncated)
    OBVIOUS
  <1>9. ev \in Evidence /\ EvidenceTrue(Epoch + 1, ev, frames', chunks)
    <2>1. DiscardedSources = SourcesOf(frames, queue, A)
      BY <1>2 DEF DiscardedSources, SourcesOf
    <2>2. ev = [position |-> p, truncated |-> truncated,
                recorded |-> BoundedEvidence(queue, EvidenceLimit),
                omitted |-> Len(queue) - Len(BoundedEvidence(queue, EvidenceLimit)),
                sources |-> SourcesOf(frames, queue, A), item |-> session.item]
      BY <1>8, <2>1, Zenon DEF BargeInEvidence
    <2>3. Heard(frames', p)
      BY <1>1, <1>5, <1>6, HeardStays
    <2> QED
      BY <1>1, <1>3, <1>5, <2>2, <2>3, NewEvidenceIsTrue
  <1>10. /\ bargeIns' \in Seq(Evidence) /\ Len(bargeIns') = Epoch + 1
         /\ bargeIns'[Epoch + 1] = ev /\ \A b \in 1..Epoch : bargeIns'[b] = bargeIns[b]
    BY <1>1, <1>4, <1>8, <1>9 DEF Epoch
  <1>11. Epoch' = Epoch + 1
    BY <1>10 DEF Epoch
  <1>12. EvidenceInv'
    <2>1. ASSUME NEW b \in 1..Epoch
          PROVE  EvidenceTrue(b, bargeIns[b], frames', chunks)
      <3>1. b \in Nat /\ b <= Epoch
        BY <1>1
      <3>2. EvidenceTrue(b, bargeIns[b], frames, chunks)
        BY DEF CallAudioInv, EvidenceInv, Epoch
      <3> QED
        BY <1>1, <1>5, <1>6, <3>1, <3>2, EvidenceStays
    <2>2. \A b \in 1..(Epoch + 1) : b = Epoch + 1 \/ b \in 1..Epoch
      BY <1>1
    <2>3. \A b \in 1..Len(bargeIns') : EvidenceTrue(b, bargeIns'[b], frames', chunks)
      BY <1>9, <1>10, <2>1, <2>2
    <2> QED
      BY <1>10, <2>3 DEF EvidenceInv
  <1>13. AudioInv(Audio', chunks', Epoch')
    <2>1. /\ Audio'.buffered = NothingBuffered /\ Audio'.session = session' /\ Audio'.frames = frames'
          /\ Audio'.queue = <<>> /\ Audio'.dropMetric = dropMetric + Len(queue)
      BY <1>4 DEF Audio
    <2>2. AudioInv(Audio', chunks, Epoch + 1)
      BY <1>1, <1>3, <1>5, <1>7, <2>1, AudioIsForgotten, ZenonT(60)
    <2> QED
      BY <1>11, <2>2
  <1>14. HeardInv'
    <2>1. HeardInv
      BY DEF CallAudioInv
    <2>2. Heard(frames', None) /\ None \in PacketPositions /\ None \in Positions
      BY DEF Heard, None, PacketPositions, Positions
    <2>3. Heard(frames', producer.position) /\ producer.position \in Positions
      BY <1>1, <1>5, <1>6, <2>1, HeardStays DEF HeardInv
    <2>4. PICK l \in Nat : l = Len(frames) /\ l = Len(frames')
      BY <1>1, <1>5 DEF Refated, SamePackets
    <2>5. pump.frame \in 0..l
      BY <2>1, <2>4 DEF HeardInv
    <2>6. pump.pc \in {"drain", "sleep"} =>
            pump.frame # 0 /\ frames'[pump.frame].fate = "written"
      <3> SUFFICES ASSUME pump.pc \in {"drain", "sleep"}
                   PROVE  pump.frame # 0 /\ frames'[pump.frame].fate = "written"
        OBVIOUS
      <3>1. pump.frame # 0 /\ frames[pump.frame].fate = "written"
        BY <2>1 DEF HeardInv
      <3>2. pump.frame \in 1..l
        BY <2>5, <3>1
      <3>3. frames'[pump.frame] = frames[pump.frame]
        BY <1>6, <2>4, <3>1, <3>2 DEF Proceeds
      <3> QED
        BY <3>1, <3>3
    <2> QED
      BY <1>7, <2>2, <2>3, <2>4, <2>5, <2>6 DEF HeardInv
  <1>15. ItemsInv'
    <2>1. ItemsInv
      BY DEF CallAudioInv
    <2> QED
      BY <1>7, <2>1, ItemsGoOn
  <1>16. BurstInv'
    <2>1. BurstInv /\ PumpGoesOn
      BY DEF CallAudioInv, PumpGoesOn
    <2>2. Written(frames') = Written(frames)
      BY <1>1, <1>5, WrittenStays
    <2> QED
      BY <1>4, <2>1, <2>2, BurstEnds
  <1> QED
    BY <1>1, <1>12, <1>13, <1>14, <1>15, <1>16 DEF CallAudioInv

(* After the answer of an interrupt: truncate, or go on at once. *)
LEMMA TruncateThenFinishKeeps ==
  ASSUME CallAudioInv, CallShape, NEW inbox, NEW sequence, TruncateThenFinish(inbox, sequence),
         UNCHANGED <<pump, chunks>>,
         \/ inbox = producer.inbox
         \/ producer.inbox # <<>> /\ inbox = Tail(producer.inbox),
         provider' = provider \/ provider' = [provider EXCEPT !.active = FALSE]
  PROVE  CallAudioInv'
  <1>1. PICK p \in PlaybackPositions :
          \/ /\ producer' = [producer EXCEPT !.pc = "truncate", !.inbox = inbox,
                               !.sequence = sequence, !.position = p]
             /\ UNCHANGED <<queue, session, playback, frames, bargeIns, bursts, dropMetric>>
          \/ /\ producer' = [producer EXCEPT !.pc = "receive", !.inbox = inbox,
                               !.sequence = sequence, !.buffered = PartialPacketCleared]
             /\ FinishBargeIn(p, FALSE)
    BY DEF TruncateThenFinish
  <1>2. p \in Positions /\ Heard(frames, p)
    BY PositionsAreHeard
  <1>3. CASE /\ producer' = [producer EXCEPT !.pc = "truncate", !.inbox = inbox,
                               !.sequence = sequence, !.position = p]
             /\ UNCHANGED <<queue, session, playback, frames, bargeIns, bursts, dropMetric>>
    <2>1. /\ producer'.buffered = producer.buffered /\ producer'.position = p
          /\ producer'.inbox = inbox
      BY <1>3 DEF CallShape
    <2>2. chunks' \in Seq(Chunks) /\ AudioInv(Audio', chunks', Epoch') /\ EvidenceInv'
      BY <1>3, <2>1, AudioUnchanged
    <2>3. HeardInv'
      BY <1>2, <1>3, <2>1 DEF CallAudioInv, HeardInv
    <2>4. ItemsInv'
      <3>1. ItemsInv
        BY DEF CallAudioInv
      <3>2. session'.item = session.item
        BY <1>3
      <3> QED
        BY <2>1, <3>1, <3>2, ItemsGoOn
    <2>5. BurstInv'
      BY <1>3 DEF CallAudioInv, BurstInv
    <2> QED
      BY <2>2, <2>3, <2>4, <2>5 DEF CallAudioInv
  <1>4. CASE /\ producer' = [producer EXCEPT !.pc = "receive", !.inbox = inbox,
                               !.sequence = sequence, !.buffered = PartialPacketCleared]
             /\ FinishBargeIn(p, FALSE)
    <2>1. /\ producer'.buffered = NothingBuffered /\ producer'.position = producer.position
          /\ producer'.inbox = inbox
      BY <1>4 DEF CallShape, PartialPacketCleared
    <2>2. FinishBargeIn(p, FALSE) /\ FALSE \in BOOLEAN
      BY <1>4
    <2> QED
      BY <1>2, <2>1, <2>2, FinishBargeInKeeps
  <1> QED
    BY <1>1, <1>3, <1>4

(* speech_started: with or without requests to the service to make. *)
LEMMA BeginBargeInKeeps ==
  ASSUME CallAudioInv, CallShape, NEW message, producer.inbox # <<>>, BeginBargeIn(message)
  PROVE  CallAudioInv'
  <1>1. UNCHANGED <<provider, pump, handler, chunks>>
    BY DEF BeginBargeIn
  <1>2. CASE /\ producer' = [producer EXCEPT !.pc = "interrupt", !.inbox = Tail(@),
                                             !.sequence = producer.sequence + 1]
             /\ UNCHANGED <<queue, session, playback, frames, bargeIns, bursts, dropMetric>>
    BY <1>1, <1>2, AudioIsLeftAlone
  <1>3. CASE TruncateThenFinish(Tail(producer.inbox), producer.sequence + 1)
    BY <1>1, <1>3, TruncateThenFinishKeeps
  <1> QED
    BY <1>2, <1>3 DEF BeginBargeIn

(* interrupt and truncate: the barge-in is completed after the last request, on
   the audio that is there then. *)
LEMMA RequestsKeep ==
  ASSUME CallAudioInv, CallShape, InterruptSent \/ TruncateSent
  PROVE  CallAudioInv'
  <1>1. CASE InterruptSent
    <2>1. /\ TruncateThenFinish(producer.inbox, producer.sequence)
          /\ provider' = [provider EXCEPT !.active = FALSE] /\ UNCHANGED <<pump, chunks>>
      BY <1>1 DEF InterruptSent
    <2> QED
      BY <2>1, TruncateThenFinishKeeps
  <1>2. CASE TruncateSent
    <2>1. /\ FinishBargeIn(producer.position, TRUE)
          /\ producer' = [producer EXCEPT !.pc = "receive", !.position = None,
                                          !.buffered = PartialPacketCleared]
          /\ provider' = provider /\ UNCHANGED <<pump, chunks>>
      BY <1>2 DEF TruncateSent
    <2>2. /\ producer'.buffered = NothingBuffered /\ producer'.position = None
          /\ producer'.inbox = producer.inbox
      BY <2>1 DEF CallShape, PartialPacketCleared
    <2>3. PICK p \in Positions : p = producer.position /\ Heard(frames, p)
      BY DEF CallAudioInv, HeardInv
    <2>4. FinishBargeIn(p, TRUE) /\ TRUE \in BOOLEAN
      BY <2>1, <2>3
    <2> QED
      BY <2>1, <2>2, <2>3, <2>4, FinishBargeInKeeps
  <1> QED
    BY <1>1, <1>2

(* Before the first message. *)
LEMMA CallBegins ==
  ASSUME Init
  PROVE  CallAudioInv
  <1>1. /\ queue = <<>> /\ chunks = <<>> /\ frames = <<>> /\ bargeIns = <<>> /\ bursts = <<>>
        /\ dropMetric = 0 /\ producer.inbox = <<>> /\ producer.buffered = NothingBuffered
        /\ producer.position = None /\ pump.pc = "get" /\ pump.frame = 0
        /\ playback.active = FALSE /\ playback.written = 0
    BY DEF Init, NoFrame
  <1>2. session = [item |-> NoItem, enqueued |-> None, played |-> None, inflight |-> None, resampler |-> 0]
    BY DEF Init
  <1>3. /\ None \in Positions /\ None \in PacketPositions /\ Heard(<<>>, None)
    BY DEF None, Positions, PacketPositions, Heard
  <1>4. /\ session \in CallFields /\ session.item = NoItem /\ session.resampler = 0
        /\ session.played = None /\ session.inflight = None
    BY <1>2, <1>3 DEF CallFields
  <1>5. /\ Range(<<>>) = {} /\ Len(<<>>) = 0 /\ <<>> \in Seq(Units) /\ <<>> \in Seq(Accounts)
        /\ <<>> \in Seq(Nat) /\ <<>> \in Seq(Frames) /\ <<>> \in Seq(Chunks)
        /\ <<>> \in Seq(Evidence) /\ <<>> \in Seq(Bursting) /\ <<>> \in Seq(Messages)
    BY DEF Range
  <1>6. Cardinality({}) = 0 /\ IsFiniteSet({})
    BY FS_EmptySet
  <1>7. Lost(<<>>) = {} /\ Written(<<>>) = {} /\ InBursts(<<>>) = {}
    BY <1>5 DEF Lost, Written, InBursts
  <1>8. AudioInv(Audio, chunks, Epoch)
    <2>1. QueueInv(<<>>, <<>>, 0)
      <3>1. 0 <= BufferSize
        BY CallAssumption
      <3>2. 0 = Cardinality(Lost(<<>>))
        BY <1>6, <1>7
      <3> QED
        BY <1>5, <3>1, <3>2 DEF QueueInv
    <2>2. OrderInv(<<>>, <<>>) /\ AccountInv(0, <<>>, <<>>, <<>>) /\ FrameInv(<<>>, <<>>, 0)
      BY <1>5 DEF OrderInv, InOrder, AccountInv, AccountsOpen, Accounted, FrameInv
    <2>3. BufferInv(<<>>, session, <<>>, 0) /\ WholeInv(<<>>, <<>>, NoItem, <<>>, 0)
      BY <1>4, <1>5 DEF BufferInv, WholeInv
    <2>4. /\ Audio.buffered.units = <<>> /\ Audio.buffered.sources = <<>> /\ Audio.session = session
          /\ Audio.frames = <<>> /\ Audio.queue = <<>> /\ Audio.dropMetric = 0
          /\ Audio.buffered \in [units : Seq(Units), sources : Seq(Accounts)]
      BY <1>1, <1>5 DEF Audio, NothingBuffered
    <2>5. Epoch = 0
      BY <1>1, <1>5 DEF Epoch
    <2>6. AudioInv(Audio, <<>>, 0)
      BY <1>4, <1>5, <2>1, <2>2, <2>3, <2>4 DEF AudioInv, AudioShape
    <2> QED
      BY <1>1, <2>5, <2>6
  <1>9. HeardInv
    <2>1. 0 \in 0..Len(<<>>)
      BY <1>5
    <2> QED
      BY <1>1, <1>3, <1>4, <2>1 DEF HeardInv
  <1>10. EvidenceInv
    BY <1>1, <1>5 DEF EvidenceInv
  <1>11. ItemsInv
    <2>1. PICK s \in ProviderSessions :
            provider = [session |-> s, messages |-> 0, item |-> NoItem, active |-> FALSE]
      BY DEF Init
    <2>2. NoItem <= NoItem
      BY DEF NoItem
    <2> QED
      BY <1>1, <1>4, <1>5, <2>1, <2>2 DEF ItemsInv
  <1>12. BurstInv
    <2>1. /\ Cardinality(InBursts(bursts)) = 0 /\ Cardinality(Written(frames)) = 0
          /\ IsFiniteSet(InBursts(bursts))
      BY <1>1, <1>6, <1>7
    <2>2. Cardinality(InBursts(bursts)) + playback.written = Cardinality(Written(frames))
      BY <1>1, <2>1
    <2> QED
      BY <1>1, <1>5, <2>1, <2>2 DEF BurstInv
  <1> QED
    BY <1>1, <1>5, <1>8, <1>9, <1>10, <1>11, <1>12 DEF CallAudioInv

(* Every step keeps the audio in order. *)
LEMMA CallKeepsAudio == Spec => []CallAudioInv
  <1>1. Init => CallAudioInv
    BY CallBegins
  <1>2. CallAudioInv /\ EndInv /\ [Next]_vars => CallAudioInv'
    <2> SUFFICES ASSUME CallAudioInv, EndInv, [Next]_vars PROVE CallAudioInv'
      OBVIOUS
    <2>1. CallShape
      BY DEF EndInv
    <2>2. CASE Receive
      BY <2>1, <2>2, ReceiveKeeps
    <2>3. CASE HandleMessage
      <3>1. producer.inbox # <<>>
        BY <2>3 DEF HandleMessage
      <3>2. CASE ProduceAudio(Head(producer.inbox)) /\ UNCHANGED provider
        BY <2>1, <3>1, <3>2, ProduceAudioKeeps
      <3>3. CASE BeginBargeIn(Head(producer.inbox))
        BY <2>1, <3>1, <3>3, BeginBargeInKeeps
      <3>4. CASE HandleEvent(Head(producer.inbox))
        BY <2>1, <3>1, <3>4, QuietSteps
      <3> QED
        BY <2>3, <3>2, <3>3, <3>4 DEF HandleMessage
    <2>4. CASE InterruptSent \/ TruncateSent
      BY <2>1, <2>4, RequestsKeep
    <2>5. CASE PumpWrites
      BY <2>1, <2>5, PumpWritesKeeps
    <2>6. CASE MarkOutputStarted
      BY <2>1, <2>6, MarkOutputStartedKeeps
    <2>7. CASE MarkOutputPlayed
      BY <2>1, <2>7, MarkOutputPlayedKeeps
    <2>8. CASE PumpEnds \/ ProviderClosed
      BY <2>1, <2>8, PumpEndsKeeps
    <2>9. CASE \/ StreamEnds \/ StreamFails \/ FinaliseGenerator \/ PumpBreaks \/ NoticePump
               \/ CallerLeaves \/ CallerBreaks \/ SendAudioFails \/ StopPump
      BY <2>1, <2>9, QuietSteps
    <2>10. CASE UNCHANGED vars
      BY <2>1, <2>10, AudioIsLeftAlone DEF vars, taskVars, stateVars, historyVars
    <2> QED
      BY <2>2, <2>3, <2>4, <2>5, <2>6, <2>7, <2>8, <2>9, <2>10
         DEF Next, ProducerStep, PumpStep, HandlerStep
  <1> QED
    BY <1>1, <1>2, CallKeepsEndInv, PTL DEF Spec

-----------------------------------------------------------------------------
(* What the invariant says *)

(* The accounts of the buffer, and the windows of the packets, are of the units that
   are there. *)
LEMMA SourcesMatch ==
  ASSUME CallAudioInv
  PROVE  SourcesMatchAudio
  <1>1. PICK B \in Seq(Units), A \in Seq(Accounts) :
          B = producer.buffered.units /\ A = producer.buffered.sources
    BY AudioTypes
  <1>2. AccountInv(0, B, A, chunks) /\ FrameInv(frames, chunks, Epoch) /\ chunks \in Seq(Chunks)
    BY <1>1 DEF CallAudioInv, AudioInv, Audio
  <1>3. DOMAIN frames = 1..Len(frames) /\ DOMAIN A = 1..Len(A)
    BY AudioTypes
  <1> DEFINE Rest(source) == LET size == chunks[source.chunk].size
                             IN  {Unit(source.chunk, nr) : nr \in (size - source.left + 1)..size}
  <1>4. ASSUME NEW i \in 1..Len(A)
        PROVE  \E c \in 1..Len(chunks), l \in Nat, n \in Nat :
                 /\ c = A[i].chunk /\ l = A[i].left /\ n = chunks[c].size /\ l <= n /\ l >= 1
                 /\ Rest(A[i]) = {Unit(c, nr) : nr \in (n - l + 1)..n}
    <2>1. A[i].chunk \in 1..Len(chunks) /\ A[i].left >= 1 /\ A[i].left <= chunks[A[i].chunk].size
      BY <1>2 DEF AccountInv, AccountsOpen
    <2>2. PICK c \in 1..Len(chunks) : c = A[i].chunk
      BY <2>1
    <2>3. chunks[c] \in Chunks /\ A[i] \in Accounts
      BY <1>2
    <2>4. PICK l \in Nat, n \in Nat : l = A[i].left /\ n = chunks[c].size
      BY <2>3 DEF Chunks, Accounts
    <2>5. Rest(A[i]) = {Unit(c, nr) : nr \in (n - l + 1)..n}
      BY <2>2, <2>4, Zenon
    <2> HIDE DEF Rest
    <2> QED
      BY <2>1, <2>2, <2>4, <2>5
  <1>5. Range(B) = UNION {Rest(source) : source \in Range(A)}
    <2>1. ASSUME NEW u \in Range(B) PROVE \E source \in Range(A) : u \in Rest(source)
      <3>1. PICK j \in 1..Len(B) : B[j] = u /\ u \in Units
        BY DEF Range
      <3>2. Accounted(A, chunks, u)
        <4>1. j > 0
          OBVIOUS
        <4> QED
          BY <1>2, <3>1, <4>1 DEF AccountInv
      <3>3. PICK i \in 1..Len(A) : Covers(A[i], chunks, u)
        BY <3>2 DEF Accounted
      <3>4. PICK c \in 1..Len(chunks), l \in Nat, n \in Nat :
              /\ c = A[i].chunk /\ l = A[i].left /\ n = chunks[c].size /\ l <= n /\ l >= 1
              /\ Rest(A[i]) = {Unit(c, nr) : nr \in (n - l + 1)..n}
        BY <1>4
      <3>5. PICK nr \in Nat : nr = u.nr /\ u = Unit(c, nr) /\ nr > n - l /\ nr <= n
        BY <3>1, <3>3, <3>4, UnitIs DEF Covers
      <3>6. nr \in (n - l + 1)..n
        BY <3>5
      <3>7. u \in Rest(A[i]) /\ A[i] \in Range(A)
        <4> HIDE DEF Rest
        <4> QED
          BY <3>4, <3>5, <3>6 DEF Range
      <3> HIDE DEF Rest
      <3> QED
        BY <3>7
    <2>2. ASSUME NEW source \in Range(A), NEW u \in Rest(source) PROVE u \in Range(B)
      <3>1. PICK i \in 1..Len(A) : A[i] = source
        BY DEF Range
      <3>2. PICK c \in 1..Len(chunks), l \in Nat, n \in Nat :
              /\ c = A[i].chunk /\ l = A[i].left /\ n = chunks[c].size /\ l <= n /\ l >= 1
              /\ Rest(A[i]) = {Unit(c, nr) : nr \in (n - l + 1)..n}
        BY <1>4
      <3>3. PICK nr \in (n - l + 1)..n : u = Unit(c, nr)
        <4> HIDE DEF Rest
        <4>1. u \in Rest(A[i])
          BY <3>1, Zenon
        <4>2. u \in {Unit(c, nr) : nr \in (n - l + 1)..n}
          BY <3>2, <4>1, Zenon
        <4> QED
          BY <4>2, Zenon
      <3>4. nr \in Nat /\ nr > n - l /\ nr <= n
        <4> HIDE DEF Rest
        <4>1. l <= n
          BY <3>2, Zenon
        <4> QED
          BY <4>1
      <3>5. u \in Units /\ u.chunk = c /\ u.nr = nr
        BY <3>3, <3>4, UnitFields, SMTT(30)
      <3>6. Covers(A[i], chunks, u)
        BY <3>2, <3>4, <3>5 DEF Covers
      <3>7. Accounted(A, chunks, u)
        BY <3>6 DEF Accounted
      <3> QED
        BY <1>2, <3>5, <3>7 DEF AccountInv, Range
    <2> HIDE DEF Rest
    <2> QED
      BY <2>1, <2>2
  <1>6. \A i, j \in DOMAIN A : i < j => A[i].chunk < A[j].chunk
    BY <1>2, <1>3 DEF AccountInv, AccountsOpen
  <1>7. \A f \in DOMAIN frames : frames[f].window = {unit.chunk : unit \in Range(frames[f].units)}
    BY <1>2, <1>3 DEF FrameInv, FrameIs
  <1> QED
    BY <1>1, <1>5, <1>6, <1>7, Zenon DEF SourcesMatchAudio

(* Units are sent in the order in which they came. *)
LEMMA InOrderAudio ==
  ASSUME CallAudioInv
  PROVE  AudioIsInOrder
  <1>1. PICK B \in Seq(Units) : B = producer.buffered.units
    BY AudioTypes
  <1>2. OrderInv(frames, B) /\ frames \in Seq(Frames)
    BY <1>1, AudioTypes DEF CallAudioInv, AudioInv, Audio
  <1>3. DOMAIN frames = 1..Len(frames) /\ DOMAIN B = 1..Len(B)
    BY <1>2
  <1>4. ASSUME NEW f \in DOMAIN frames, NEW g \in DOMAIN frames, f <= g,
               NEW i \in DOMAIN frames[f].units, NEW j \in DOMAIN frames[g].units,
               f < g \/ i < j
        PROVE  Precedes(frames[f].units[i], frames[g].units[j])
    <2>1. frames[f] \in Frames /\ frames[g] \in Frames
      BY <1>2, <1>3
    <2>2. PICK U \in Seq(Units), V \in Seq(Units) : U = frames[f].units /\ V = frames[g].units
      BY <2>1 DEF Frames
    <2>3. U[i] \in Range(U) /\ V[j] \in Range(V) /\ i \in 1..Len(U) /\ j \in 1..Len(V)
      BY <2>2 DEF Range
    <2>4. CASE f < g
      BY <1>2, <1>3, <2>2, <2>3, <2>4 DEF OrderInv
    <2>5. CASE f = g /\ i < j
      BY <1>2, <1>3, <2>2, <2>3, <2>5 DEF OrderInv, InOrder
    <2> QED
      BY <1>3, <1>4, <2>4, <2>5
  <1>5. \A f \in DOMAIN frames : \A a \in Range(frames[f].units), b \in Range(B) : Precedes(a, b)
    BY <1>2, <1>3 DEF OrderInv
  <1>6. \A i, j \in DOMAIN B : i < j => Precedes(B[i], B[j])
    BY <1>2, <1>3 DEF OrderInv, InOrder
  <1> QED
    BY <1>1, <1>4, <1>5, <1>6 DEF AudioIsInOrder

(* No packet holds audio of two answers or from both sides of a barge-in, and what
   was interrupted is not written later. *)
LEMMA NothingMixes ==
  ASSUME CallAudioInv
  PROVE  AudioNeverMixes /\ InterruptedAudioIsSilent
  <1>1. PICK B \in Seq(Units) : B = producer.buffered.units
    BY AudioTypes
  <1>2. BufferInv(B, session, chunks, Epoch) /\ FrameInv(frames, chunks, Epoch)
    BY <1>1 DEF CallAudioInv, AudioInv, Audio
  <1>3. DOMAIN frames = 1..Len(frames)
    BY AudioTypes
  <1>4. InterruptedAudioIsSilent
    BY <1>2, <1>3 DEF InterruptedAudioIsSilent, FrameInv, FrameIs
  <1> DEFINE Together(S) == \A c, d \in S : /\ chunks[c].item = chunks[d].item
                                            /\ chunks[c].epoch = chunks[d].epoch
             Sources(units) == {unit.chunk : unit \in Range(units)}
  <1>5. ASSUME NEW f \in DOMAIN frames PROVE Together(Sources(frames[f].units))
    <2> SUFFICES ASSUME NEW c \in Sources(frames[f].units), NEW d \in Sources(frames[f].units)
                 PROVE  /\ chunks[c].item = chunks[d].item /\ chunks[c].epoch = chunks[d].epoch
      BY Zenon
    <2>1. PICK u \in Range(frames[f].units) : c = u.chunk
      BY Zenon
    <2>2. PICK v \in Range(frames[f].units) : d = v.chunk
      BY Zenon
    <2>3. FrameIs(frames[f], chunks, Epoch)
      BY <1>2, <1>3 DEF FrameInv
    <2> QED
      BY <2>1, <2>2, <2>3 DEF FrameIs
  <1>6. Together(Sources(producer.buffered.units) \cup ({session.resampler} \ {0}))
    <2>1. ASSUME NEW c \in Sources(producer.buffered.units) \cup ({session.resampler} \ {0})
          PROVE  chunks[c].item = session.item /\ chunks[c].epoch = Epoch
      <3>1. CASE c \in Sources(producer.buffered.units)
        <4>1. PICK u \in Range(B) : c = u.chunk
          BY <1>1, <3>1, Zenon
        <4> QED
          BY <1>2, <4>1 DEF BufferInv
      <3>2. CASE c = session.resampler /\ c # 0
        BY <1>2, <3>2 DEF BufferInv
      <3> QED
        BY <2>1, <3>1, <3>2, Zenon
    <2> HIDE DEF Sources
    <2> QED
      BY <2>1
  <1>7. AudioNeverMixes
    BY <1>5, <1>6, Zenon DEF AudioNeverMixes
  <1> QED
    BY <1>4, <1>7

(* Every packet is queued, written, dropped or discarded, and the drop metric counts
   the last two. *)
LEMMA FramesAccounted ==
  ASSUME CallAudioInv
  PROVE  FramesAreAccountedFor
  <1>1. /\ frames \in Seq(Frames) /\ queue \in Seq(Nat) /\ QueueInv(frames, queue, dropMetric)
    BY AudioTypes
  <1>2. PICK n \in Nat : n = Len(frames) /\ DOMAIN frames = 1..n
    BY <1>1
  <1>3. /\ Cardinality(Range(queue)) = Len(queue) /\ Range(queue) \subseteq 1..n
        /\ \A f \in 1..n : f \in Range(queue) <=> frames[f].fate = "queued"
    BY <1>1, <1>2, QueueIsInterval
  <1> DEFINE Fate(fate) == {f \in DOMAIN frames : frames[f].fate = fate}
  <1>4. Fate("queued") = Range(queue)
    BY <1>2, <1>3
  <1>5. Fate("dropped") \cup Fate("discarded") = Lost(frames)
    BY <1>2 DEF Lost
  <1>6. dropMetric = Cardinality(Fate("dropped") \cup Fate("discarded"))
    BY <1>1, <1>5 DEF QueueInv
  <1>7. ASSUME NEW f \in Fate("written"), NEW g \in Fate("queued") PROVE f < g
    <2>1. f \in 1..n /\ g \in 1..n /\ frames[f].fate # "queued" /\ frames[g].fate = "queued"
      BY <1>2
    <2>2. ~(f > n - Len(queue)) /\ g > n - Len(queue)
      BY <1>1, <1>2, <2>1 DEF QueueInv
    <2>3. PICK m \in Nat : m = Len(queue)
      BY <1>1
    <2> QED
      BY <2>1, <2>2, <2>3
  <1> QED
    BY <1>3, <1>4, <1>6, <1>7, Zenon DEF FramesAreAccountedFor

(* The bursts' counts add up to the packets that were written. *)
LEMMA BurstsHold ==
  ASSUME CallAudioInv, CallShape
  PROVE  BurstsHoldWhatWasWritten
  <1>1. BurstInv /\ frames \in Seq(Frames) /\ bursts \in Seq(Bursting)
    BY AudioTypes DEF CallAudioInv, BurstInv
  <1>2. DOMAIN frames = 1..Len(frames) /\ DOMAIN bursts = 1..Len(bursts)
    BY <1>1
  <1>3. PICK k, w : k = Cardinality(InBursts(bursts)) + playback.written /\ w = Cardinality(Written(frames))
    OBVIOUS
  <1>4. /\ k = Cardinality(UNION {{b} \X (1..bursts[b].written) : b \in DOMAIN bursts}) + playback.written
        /\ w = Cardinality({f \in DOMAIN frames : frames[f].fate = "written"})
    BY <1>2, <1>3, Zenon DEF InBursts, Written
  <1>5. k \in {w, w - 1} /\ (pump.pc \in {"get", "sleep"} => k = w)
    BY <1>1, <1>3 DEF BurstInv, CallShape
  <1>6. \A b \in DOMAIN bursts : bursts[b].written > 0
    <2> SUFFICES ASSUME NEW b \in DOMAIN bursts PROVE bursts[b].written > 0
      OBVIOUS
    <2>1. bursts[b] \in Bursting
      BY <1>1, <1>2
    <2> QED
      BY <2>1 DEF Bursting
  <1> QED
    BY <1>4, <1>5, <1>6, Zenon DEF BurstsHoldWhatWasWritten

(* The two invariants together give the call its types. *)
LEMMA TypesAreRight ==
  ASSUME CallAudioInv, EndInv
  PROVE  RealtimeTypeOK
  <1>1. CallShape /\ SpeechInv /\ ItemsInv /\ HeardInv
    BY DEF EndInv, CallAudioInv
  <1>2. /\ frames \in Seq(Frames) /\ queue \in Seq(Nat) /\ QueueInv(frames, queue, dropMetric)
        /\ session \in CallFields
    BY AudioTypes
  <1>3. DOMAIN frames = 1..Len(frames)
    BY <1>2
  <1>4. Range(queue) \subseteq DOMAIN frames /\ Len(queue) <= BufferSize
    BY <1>2, <1>3, QueueIsInterval DEF QueueInv
  <1>5. Range(producer.inbox) \subseteq Messages
    BY <1>1 DEF ItemsInv, Range
  <1>6. pump.frame \in {NoFrame} \cup DOMAIN frames
    <2>1. PICK n \in Nat : n = Len(frames)
      BY <1>2
    <2>2. pump.frame \in 0..n
      BY <1>1, <2>1 DEF HeardInv
    <2> QED
      BY <1>3, <2>1, <2>2 DEF NoFrame
  <1>7. {session.enqueued, session.played, session.inflight} \subseteq Positions
    BY <1>2 DEF CallFields
  <1>8. speech.active \in 0..producer.sequence
    <2>1. PICK n \in Nat : n = producer.sequence
      BY <1>1 DEF CallShape
    <2>2. speech.active = 0 \/ speech.active \in 1..n
      BY <1>1, <2>1 DEF SpeechInv
    <2> QED
      BY <2>1, <2>2
  <1>9. producer.position \in Positions
    BY <1>1 DEF HeardInv
  <1>10. /\ producer.pc \in {"receive", "interrupt", "truncate", "done", "ended", "failed", "cancelled"}
         /\ pump.pc \in {"get", "drain", "sleep", "done", "ended", "failed", "broken", "cancelled"}
         /\ playback \in [active : BOOLEAN, written : Nat, idle : BOOLEAN]
         /\ handler.pc \in {"reading", "stopping", "closing", "closed"}
    BY <1>1 DEF CallShape
  <1>11. provider \in [session : ProviderSessions, messages : Nat, item : {NoItem} \cup Items, active : BOOLEAN]
    BY <1>1 DEF ItemsInv
  <1> QED
    BY <1>4, <1>5, <1>6, <1>7, <1>8, <1>9, <1>10, <1>11 DEF RealtimeTypeOK

(* What barge-in tells the timeline and the service is true of the packets. *)
LEMMA EvidenceHolds ==
  ASSUME CallAudioInv
  PROVE  EvidenceIsOfDiscarded /\ TruncatedWithinHeard /\ DiscardedChunksAreUnheard
  <1>1. /\ frames \in Seq(Frames) /\ chunks \in Seq(Chunks) /\ bargeIns \in Seq(Evidence) /\ EvidenceInv
    BY AudioTypes DEF CallAudioInv
  <1>2. /\ DOMAIN frames = 1..Len(frames) /\ DOMAIN chunks = 1..Len(chunks)
        /\ DOMAIN bargeIns = 1..Len(bargeIns)
    BY <1>1
  <1>3. \A b \in DOMAIN bargeIns :
          EvidenceTrue(b, bargeIns[b], frames, chunks) /\ bargeIns[b] \in Evidence
    BY <1>1, <1>2 DEF EvidenceInv
  <1>4. EvidenceIsOfDiscarded
    <2> SUFFICES ASSUME NEW b \in DOMAIN bargeIns
                 PROVE  LET recorded == bargeIns[b].recorded
                        IN  /\ Cardinality(Range(recorded)) = Len(recorded)
                            /\ \A i \in DOMAIN recorded : frames[recorded[i]].fate = "discarded"
                            /\ bargeIns[b].omitted >= 0
                            /\ Len(recorded) <= EvidenceLimit
      BY DEF EvidenceIsOfDiscarded
    <2>1. bargeIns[b].recorded \in Seq(Nat)
      BY <1>3 DEF Evidence
    <2>2. DOMAIN bargeIns[b].recorded = 1..Len(bargeIns[b].recorded)
      BY <2>1
    <2> QED
      BY <1>3, <2>2 DEF EvidenceTrue
  <1>5. TruncatedWithinHeard
    BY <1>2, <1>3 DEF TruncatedWithinHeard, EvidenceTrue, Heard
  <1>6. DiscardedChunksAreUnheard
    <2> DEFINE Gone(unit) == \E f \in DOMAIN frames : /\ frames[f].fate \in {"written", "dropped"}
                                                      /\ unit \in Range(frames[f].units)
               Short(c) == \E nr \in 1..chunks[c].size : ~Gone(Unit(c, nr))
    <2>1. \A u : Gone(u) <=> GoneIn(frames, u)
      BY <1>2 DEF GoneIn
    <2>2. ASSUME NEW b \in DOMAIN bargeIns
          PROVE  LET short == {c \in DOMAIN chunks : chunks[c].epoch = b - 1 /\ Short(c)}
                 IN  /\ bargeIns[b].sources \subseteq short
                     /\ {c \in short : chunks[c].item = bargeIns[b].item} \subseteq bargeIns[b].sources
      <3> HIDE DEF Gone
      <3>1. EvidenceTrue(b, bargeIns[b], frames, chunks)
        BY <1>3
      <3>2. \A c \in bargeIns[b].sources : /\ c \in DOMAIN chunks /\ chunks[c].epoch = b - 1
                                           /\ Short(c)
        BY <1>2, <2>1, <3>1 DEF EvidenceTrue
      <3>3. \A c \in DOMAIN chunks :
              chunks[c].epoch = b - 1 /\ chunks[c].item = bargeIns[b].item /\ Short(c) =>
                c \in bargeIns[b].sources
        BY <1>2, <2>1, <3>1 DEF EvidenceTrue
      <3> HIDE DEF Short
      <3> QED
        BY <3>2, <3>3
    <2> QED
      BY <2>2, Zenon DEF DiscardedChunksAreUnheard
  <1> QED
    BY <1>4, <1>5, <1>6

(***************************************************************************)
(* Playback of a call is right at every moment, whatever the order of the  *)
(* provider's messages, the pump, barge-ins, the caller's hanging up and   *)
(* failures: units go out in the order in which they came; a packet never  *)
(* mixes answers; every packet is queued, written, or counted as lost; the *)
(* accounts of _produce_provider_audio are of the units in its buffer; and *)
(* the bursts of the timeline add up to the packets written.               *)
(***************************************************************************)
THEOREM PlaybackIsRight == Spec => []PlaybackInv
  <1>1. CallAudioInv /\ EndInv /\ TimelineIsClosed => PlaybackInv
    BY SourcesMatch, InOrderAudio, NothingMixes, FramesAccounted, BurstsHold, TypesAreRight
       DEF PlaybackInv, EndInv
  <1> QED
    BY <1>1, CallKeepsAudio, CallKeepsEndInv, TimelineCloses, PTL

(***************************************************************************)
(* Barge-in is right at every moment: no packet that clear discarded, nor  *)
(* audio that waited when the caller spoke, is written afterwards; the     *)
(* evidence in the timeline names discarded packets only, once each, and   *)
(* no more than the limit; truncate never asks for more than was written;  *)
(* and the chunks recorded as discarded are those of the answer that had a *)
(* unit still waiting: neither written nor dropped from a full queue.      *)
(***************************************************************************)
THEOREM BargeInIsRight == Spec => []BargeInInv
  <1>1. CallAudioInv => BargeInInv
    BY NothingMixes, EvidenceHolds DEF BargeInInv
  <1> QED
    BY <1>1, CallKeepsAudio, PTL
=============================================================================
