--------------------------- MODULE MCRealtimeCall ---------------------------
(* Small instances of CallSetup and of RealtimeCall: long calls, with a message less
   where the service is Gemini's, and brief ones with empty chunks of audio, of which
   liveness is checked. *)
EXTENDS RealtimeCall, CallSetup

VARIABLE subject   \* what this behaviour is of; the rest of the state rests

AllSessions == Sessions
Chunks03 == {0, 3}

\* An error nobody has a category for, and one of the network.
TwoErrors == {{}, {"timeout"}}

Report(lost, jitter) == [lost |-> lost, jitter |-> jitter]

\* The largest fraction, one too large, reports without values, and a round trip
\* that only a received report has.
EdgeEvents ==
  {[received |-> TRUE, reports |-> {Report(255, 3), Report(0, Absent)}, rtt |-> 7],
   [received |-> TRUE, reports |-> {Report(256, 0)}, rtt |-> 0],
   [received |-> FALSE, reports |-> {Report(Absent, Absent)}, rtt |-> 7]}

LongCall == INSTANCE RealtimeCall WITH MaxMessages <- 4, ChunkSizes <- {3}
LongGeminiCall == INSTANCE RealtimeCall WITH MaxMessages <- 3, ChunkSizes <- {3}

mcVars == <<vars, setupVars, subject>>

MCInit == Init /\ SetupInit /\ subject \in {"setup", "brief", "long"}

MCNext ==
  \/ subject = "setup" /\ SetupNext /\ UNCHANGED <<vars, subject>>
  \/ subject = "brief" /\ Next /\ UNCHANGED <<setupVars, subject>>
  \/ /\ subject = "long" /\ UNCHANGED <<setupVars, subject>>
     /\ \/ provider.session # Gemini /\ LongCall!Next
        \/ provider.session = Gemini /\ LongGeminiCall!Next

\* Fairness of RealtimeCall, for brief calls.
Brief(A) == subject = "brief" /\ A /\ UNCHANGED <<setupVars, subject>>

MCSpec ==
  /\ MCInit /\ [][MCNext]_mcVars
  /\ WF_mcVars(Brief(ProducerStep)) /\ WF_mcVars(Brief(PumpStep))
  /\ WF_mcVars(Brief(NoticePump)) /\ WF_mcVars(Brief(HandlerStep))

\* StreamEndEndsCall, of brief calls: when the provider is gone, the pump and the
\* handler of _handle_connection bring the call to its end.
BriefCallsEnd == subject = "brief" => StreamEndEndsCall

=============================================================================
