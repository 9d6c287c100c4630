---------------------------- MODULE MCObserver ----------------------------
(* Small instances of Observer, and of StageAudio with mono and stereo frames of
   different rates. *)
EXTENDS Observer, StageAudio, TLC

VARIABLE subject   \* what this behaviour is of; the rest of the state rests

\* One event per batch, so that a flush takes several requests.
SmallLimits == [k \in Kinds |-> IF k = "event" THEN 1 ELSE 2]

\* Two events, one observation of every other kind.
FewItems == [k \in Kinds |-> IF k = "event" THEN 2 ELSE 1]

Symmetry == Permutations(Flushers)
MCSamples == {-3, 0, 2}
MCFormats == {[period |-> 2, channels |-> 1], [period |-> 1, channels |-> 2]}

MCInit == ObserverInit /\ AudioInit /\ subject \in {"delivery", "audio"}

MCNext ==
  \/ subject = "delivery" /\ ObserverNext /\ UNCHANGED <<audioVars, subject>>
  \/ subject = "audio" /\ AudioNext /\ UNCHANGED <<observerVars, subject>>

MCSpec == MCInit /\ [][MCNext]_<<observerVars, audioVars, subject>>

=============================================================================
