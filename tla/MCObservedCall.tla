--------------------------- MODULE MCObservedCall ---------------------------
(* Small instances of ObservedCall: a control plane that accepts everything,
   and one that refuses an observation for ever. *)
EXTENDS ObservedCall

VARIABLE api   \* which of the two this behaviour is of

\* Small batches, so that a flush takes several requests.
SmallLimits == [k \in Kinds |-> IF k = "event" THEN 1 ELSE 2]

\* Besides the BYE.
TwoOfEach == [k \in Kinds |-> 2]
FewItems == [TwoOfEach EXCEPT !["event"] = 1]

\* The API refuses the second event.
OneRefused == {<<"event", 2>>}

NoneRefused == {}

Refusing == INSTANCE ObservedCall WITH
  Refused <- OneRefused, MaxItems <- TwoOfEach, MaxFaults <- 1

mcVars == <<vars, api>>

MCInit == Init /\ api \in {"accepts", "refuses"}

MCNext ==
  \/ api = "accepts" /\ Next /\ UNCHANGED api
  \/ api = "refuses" /\ Refusing!Next /\ UNCHANGED api

MCSpec ==
  /\ MCInit /\ [][MCNext]_mcVars
  /\ api = "accepts" => Fairness
  /\ api = "refuses" => Refusing!Fairness

=============================================================================
