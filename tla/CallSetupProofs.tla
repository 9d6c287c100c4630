------------------------- MODULE CallSetupProofs -------------------------
(***************************************************************************)
(* Proofs about CallSetup, for any number of attempts, backoff times, RTCP *)
(* events and failed requests: what the attempts to connect leave behind,  *)
(* in the provider, in the run and in its live view, and what becomes of   *)
(* the points of the RTCP collector.                                       *)
(***************************************************************************)
EXTENDS CallSetup, FiniteSetTheorems, SequenceTheorems, WellFoundedInduction, TLAPS

-----------------------------------------------------------------------------
(* The shape of the state *)

Outcomes == {"connected", "refused", "unconfigured"}
FaultNames == {"start", "exhausted", "fail", "connected", "rtcp", "close"}
RunAliases == CallAliases \cup {"provider-connect-error"}

Metrics == [name : {"attempts", "retries", "failures", "exhausted"}, value : Nat]

(* What the collector makes of an event it accepts. *)
Stats == {NoStats} \cup
         {RtcpEventToStats(e) : e \in {e \in RtcpEvents : ~InvalidReport(e)}}

Points ==
  [name : {"rtcp_connected", "rtcp_events", "rtcp_failures"}, value : {1}, ts : Nat,
   stats : Stats]

Setups ==
  [pc : {"start", "connect", "backoff", "exhausted", "failing", "flush", "session",
         "raised"}, attempt : 0..Attempts]
Collectors ==
  [pc : {"off", "connect", "flushing", "events", "reporting", "ended", "broken",
         "cancelled"}, ts : Nat, collected : 0..MaxEvents]
Queues == [pending : Seq(Points), thread : Seq(Points)]
Calls == [pc : {"none", "active", "closing", "closed"}, alias : CallAliases]
StoredRuns ==
  [status : {"none", "running", "completed", "failed"}, alias : RunAliases,
   stored : Seq(Metrics \cup Points)]

SetupShape ==
  /\ setup \in Setups
  /\ tried \in Seq(Outcomes) /\ waits \in Seq(Nat) /\ open \in Nat
  /\ observer \in Seq(Metrics)
  /\ collector \in Collectors /\ rtcp \in Queues
  /\ call \in Calls
  /\ run \in StoredRuns
  /\ faults \in Seq(FaultNames)

-----------------------------------------------------------------------------
(* The attempts *)

HasConnected == Len(tried) > 0 /\ tried[Len(tried)] = "connected"
NeverConnected == \A i \in DOMAIN tried : tried[i] # "connected"

(* How far connect_with_retry is, by what it has tried and waited for. *)
AttemptsInv ==
  /\ \A i \in DOMAIN waits : waits[i] = Backoff(i)
  /\ Len(waits) < Attempts /\ Len(tried) <= Attempts
  /\ \A i \in DOMAIN tried : tried[i] = "connected" => i = Len(tried)
  /\ setup.pc = "start" => Len(tried) = 0 /\ Len(waits) = 0
  /\ setup.pc = "connect" =>
       /\ setup.attempt > 0 /\ NeverConnected
       /\ Len(tried) = setup.attempt - 1 /\ Len(waits) = setup.attempt - 1
  /\ setup.pc = "backoff" =>
       /\ setup.attempt > 0 /\ setup.attempt < Attempts /\ NeverConnected
       /\ Len(tried) = setup.attempt /\ Len(waits) = setup.attempt
  /\ setup.pc \in {"exhausted", "failing"} =>
       /\ NeverConnected /\ Len(tried) = Attempts /\ Len(waits) = Attempts - 1
  /\ setup.pc \in {"flush", "session"} =>
       /\ HasConnected /\ Len(tried) = setup.attempt /\ Len(waits) = setup.attempt - 1
  /\ setup.pc = "raised" =>
       \/ Len(tried) = 0
       \/ NeverConnected /\ Len(tried) = Attempts
       \/ HasConnected

(* How the run stands, and what has failed if create_session has raised. *)
RunInv ==
  /\ setup.pc = "start" => run.status = "none"
  /\ setup.pc \in {"connect", "backoff", "exhausted", "failing", "flush"} =>
       run.status = "running"
  /\ setup.pc = "session" <=> call.pc # "none"
  /\ collector.pc # "off" \/ rtcp.thread # <<>> => setup.pc = "session"
  /\ call.pc \in {"active", "closing"} => run.status = "running"
  /\ run.alias = "provider-connect-error" =>
       setup.pc = "raised" /\ NeverConnected /\ Len(tried) = Attempts
  /\ setup.pc = "raised" =>
       /\ Len(tried) = 0 => "start" \in Range(faults)
       /\ NeverConnected /\ Len(tried) = Attempts =>
            \/ "fail" \in Range(faults)
            \/ run.status = "failed" /\ run.alias = "provider-connect-error"
  /\ "connected" \in Range(faults) <=> setup.pc = "raised" /\ HasConnected

(* The connections that are open. *)
Unconfigured == {i \in DOMAIN tried : tried[i] = "unconfigured"}

OpenInv ==
  /\ open = Cardinality(Unconfigured)
              + (IF HasConnected /\ call.pc \in {"none", "active"} THEN 1 ELSE 0)
  /\ open <= Len(tried)

(* The metrics of a connection say what was tried. *)
MetricIsTrue(x) ==
  /\ x.name = "attempts" => x.value = Len(tried)
  /\ x.name = "failures" => x.value = IF HasConnected THEN Len(tried) - 1 ELSE Len(tried)
  /\ x.name = "exhausted" => x.value = 1 /\ Len(tried) = Attempts /\ NeverConnected

Named(s, name) == \E x \in Range(s) : x.name = name

(* A list of observations says all of what was tried, or nothing. *)
TellsAll(s) ==
  /\ Named(s, "attempts")
  /\ HasConnected /\ Len(tried) > 1 => Named(s, "failures")
  /\ ~HasConnected => Named(s, "exhausted")

MetricsInv ==
  /\ setup.pc \in {"start", "connect", "backoff"} => observer = <<>> /\ run.stored = <<>>
  /\ \A x \in Range(observer) : MetricIsTrue(x)
  /\ \A x \in Range(run.stored) : MetricIsTrue(x)
  /\ setup.pc \in {"exhausted", "flush"} => TellsAll(observer)
  /\ setup.pc = "session" => TellsAll(run.stored)
  /\ Named(run.stored, "attempts") => TellsAll(run.stored)

SetupInv ==
  /\ SetupShape /\ AttemptsInv /\ RunInv /\ OpenInv /\ MetricsInv

-----------------------------------------------------------------------------
(* Lists *)

(* What a longer list has is what its parts have. *)
LEMMA ConcatElements ==
  ASSUME NEW S, NEW s \in Seq(S), NEW t \in Seq(S)
  PROVE  s \o t \in Seq(S) /\ Range(s \o t) = Range(s) \cup Range(t)
  <1>1. /\ Len(s \o t) = Len(s) + Len(t)
        /\ \A i \in 1..Len(s) : (s \o t)[i] = s[i]
        /\ \A i \in 1..Len(t) : (s \o t)[Len(s) + i] = t[i]
        /\ s \o t \in Seq(S)
    OBVIOUS
  <1>2. ASSUME NEW x \in Range(s \o t) PROVE x \in Range(s) \cup Range(t)
    <2>1. PICK i \in 1..(Len(s) + Len(t)) : (s \o t)[i] = x
      BY <1>1 DEF Range
    <2>2. CASE i <= Len(s)
      BY <1>1, <2>1, <2>2 DEF Range
    <2>3. CASE i > Len(s)
      <3>1. i - Len(s) \in 1..Len(t) /\ i = Len(s) + (i - Len(s))
        BY <2>3
      <3> QED
        BY <1>1, <2>1, <3>1 DEF Range
    <2> QED
      BY <2>2, <2>3
  <1>3. ASSUME NEW x \in Range(s) PROVE x \in Range(s \o t)
    BY <1>1 DEF Range
  <1>4. ASSUME NEW x \in Range(t) PROVE x \in Range(s \o t)
    <2>1. PICK i \in 1..Len(t) : t[i] = x
      BY DEF Range
    <2>2. Len(s) + i \in DOMAIN (s \o t) /\ (s \o t)[Len(s) + i] = x
      BY <1>1, <2>1
    <2> QED
      BY <2>2 DEF Range
  <1> QED
    BY <1>1, <1>2, <1>3, <1>4

(* Appending adds one at the end. *)
LEMMA AppendElements ==
  ASSUME NEW S, NEW s \in Seq(S), NEW x \in S
  PROVE  /\ Append(s, x) \in Seq(S) /\ Len(s) \in Nat /\ Len(Append(s, x)) = Len(s) + 1
         /\ DOMAIN Append(s, x) = 1..(Len(s) + 1) /\ DOMAIN s = 1..Len(s)
         /\ \A i \in 1..Len(s) : Append(s, x)[i] = s[i]
         /\ Append(s, x)[Len(s) + 1] = x
         /\ Range(Append(s, x)) = Range(s) \cup {x}
  <1>1. PICK m \in Nat : m = Len(s)
    OBVIOUS
  <1>2. Append(s, x) \in Seq(S)
    OBVIOUS
  <1>3. PICK u \in Seq(S) : u = Append(s, x)
    BY <1>2
  <1>4. Len(u) = m + 1 /\ DOMAIN u = 1..(m + 1) /\ DOMAIN s = 1..m
    BY <1>1, <1>3
  <1>5. \A i \in 1..m : u[i] = s[i]
    BY <1>1, <1>3
  <1>6. u[m + 1] = x
    BY <1>1, <1>3
  <1>7. 1..(m + 1) = 1..m \cup {m + 1}
    BY <1>1
  <1>8. Range(u) = Range(s) \cup {x}
    BY <1>4, <1>5, <1>6, <1>7 DEF Range
  <1> QED
    BY <1>1, <1>2, <1>3, <1>4, <1>5, <1>6, <1>8

(* What short lists have. *)
LEMMA ShortLists ==
  ASSUME NEW S, NEW a \in S, NEW b \in S
  PROVE  /\ <<a>> \in Seq(S) /\ Range(<<a>>) = {a}
         /\ <<a, b>> \in Seq(S) /\ Range(<<a, b>>) = {a, b}
  <1>1. <<a>> \in Seq(S) /\ <<a, b>> \in Seq(S)
    OBVIOUS
  <1>2. 1..1 = {1} /\ 1..2 = {1, 2}
    OBVIOUS
  <1>3. Range(<<a>>) = {a}
    <2>1. DOMAIN <<a>> = {1} /\ <<a>>[1] = a
      BY <1>2
    <2> QED
      BY <2>1, Zenon DEF Range
  <1>4. Range(<<a, b>>) = {a, b}
    <2>1. DOMAIN <<a, b>> = {1, 2} /\ <<a, b>>[1] = a /\ <<a, b>>[2] = b
      BY <1>2
    <2> QED
      BY <2>1 DEF Range
  <1> QED
    BY <1>1, <1>3, <1>4

(* What a list of four has. *)
LEMMA FourElements ==
  ASSUME NEW S, NEW a \in S, NEW b \in S, NEW c \in S, NEW d \in S,
         NEW s, s = <<a, b, c, d>>
  PROVE  s \in Seq(S) /\ Range(s) = {a, b, c, d}
  <1>1. s \in Seq(S)
    OBVIOUS
  <1>2. DOMAIN s = {1, 2, 3, 4} /\ s[1] = a /\ s[2] = b /\ s[3] = c /\ s[4] = d
    <2>1. 1..4 = {1, 2, 3, 4}
      OBVIOUS
    <2> QED
      BY <2>1
  <1> QED
    BY <1>1, <1>2 DEF Range

NatLess == {p \in Nat \X Nat : p[1] < p[2]}

(* A set of numbers has a least member ... *)
LEMMA SmallestMember ==
  ASSUME NEW S \in SUBSET Nat, S # {}
  PROVE  \E x \in S : \A y \in S : ~(y < x)
  <1>1. IsWellFoundedOn(NatLess, Nat)
    BY NatLessThanWellFounded, Zenon DEF OpToRel, NatLess
  <1>2. PICK x \in S : \A y \in S : ~(<<y, x>> \in NatLess)
    BY <1>1, WFMin
  <1>3. \A y \in S : <<y, x>> \in NatLess <=> y < x
    BY DEF NatLess
  <1> QED
    BY <1>2, <1>3, Zenon

(* ... and one that is bounded has a largest: the least of its bounds. *)
LEMMA LargestMember ==
  ASSUME NEW k \in Nat, NEW S, S \subseteq 0..k, S # {}
  PROVE  \E x \in S : \A y \in S : y <= x
  <1>1. PICK U : U = {u \in Nat : \A y \in S : y <= u}
    OBVIOUS
  <1>2. U \in SUBSET Nat /\ k \in U
    BY <1>1
  <1>3. PICK u \in U : \A v \in U : ~(v < u)
    BY <1>2, SmallestMember
  <1>4. u \in Nat /\ \A y \in S : y <= u
    BY <1>1, <1>3
  <1>5. ASSUME u \notin S PROVE FALSE
    <2>1. \A y \in S : y \in Nat /\ y <= u /\ y # u
      BY <1>4, <1>5
    <2>2. u # 0
      <3>1. PICK y \in S : TRUE
        OBVIOUS
      <3> QED
        BY <1>4, <2>1, <3>1
    <2>3. u - 1 \in Nat /\ u - 1 < u
      BY <1>4, <2>2
    <2>4. \A y \in S : y <= u - 1
      BY <1>4, <2>1
    <2>5. u - 1 \in U
      BY <1>1, <2>3, <2>4
    <2> QED
      BY <1>3, <2>3, <2>5
  <1> QED
    BY <1>4, <1>5

-----------------------------------------------------------------------------
(* create_session keeps the invariant *)

(* Facts that the shape of the state implies. *)
LEMMA ShapeFacts ==
  ASSUME SetupShape
  PROVE  /\ Len(tried) \in Nat /\ DOMAIN tried = 1..Len(tried)
         /\ Len(waits) \in Nat /\ DOMAIN waits = 1..Len(waits)
         /\ Attempts \in Nat \ {0} /\ setup.attempt \in 0..Attempts
         /\ setup = [pc |-> setup.pc, attempt |-> setup.attempt]
         /\ run.stored \in Seq(Metrics \cup Points)
  <1>1. Len(tried) \in Nat /\ DOMAIN tried = 1..Len(tried)
    BY DEF SetupShape
  <1>2. Len(waits) \in Nat /\ DOMAIN waits = 1..Len(waits)
    BY DEF SetupShape
  <1>3. /\ Attempts \in Nat \ {0} /\ setup.attempt \in 0..Attempts
        /\ setup = [pc |-> setup.pc, attempt |-> setup.attempt]
    BY SetupAssumption DEF SetupShape, Setups
  <1>4. run.stored \in Seq(Metrics \cup Points)
    BY DEF SetupShape, StoredRuns
  <1> QED
    BY <1>1, <1>2, <1>3, <1>4

(* The metrics of a list depend on what was tried only. *)
LEMMA TriedTells ==
  ASSUME tried' = tried
  PROVE  /\ HasConnected' <=> HasConnected
         /\ NeverConnected' <=> NeverConnected
         /\ Unconfigured' = Unconfigured
         /\ \A x : MetricIsTrue(x)' <=> MetricIsTrue(x)
         /\ \A s : TellsAll(s)' <=> TellsAll(s)
  BY DEF HasConnected, NeverConnected, Unconfigured, MetricIsTrue, TellsAll, Named

(* What a fault adds to the list of faults. *)
LEMMA FaultAdds ==
  ASSUME SetupShape, NEW what \in FaultNames, Fault(what)
  PROVE  faults' \in Seq(FaultNames) /\ Range(faults') = Range(faults) \cup {what}
  BY AppendElements DEF SetupShape, Fault

(* create_session goes on. *)
LEMMA SetupGoesOn ==
  ASSUME SetupShape, NEW pc,
         pc \in {"backoff", "exhausted", "failing", "flush", "session", "raised"},
         setup' = [setup EXCEPT !.pc = pc]
  PROVE  setup' \in Setups /\ setup'.pc = pc /\ setup'.attempt = setup.attempt
  <1>1. setup \in Setups
    BY DEF SetupShape
  <1> QED
    BY <1>1 DEF Setups

(* What becomes of the run's record: it starts, ... *)
LEMMA RunStarts ==
  ASSUME NEW r \in StoredRuns, NEW q, q = [r EXCEPT !.status = "running"]
  PROVE  q \in StoredRuns /\ q.status = "running" /\ q.alias = r.alias /\ q.stored = r.stored
  BY DEF StoredRuns

(* ... it ends, ... *)
LEMMA RunEnds ==
  ASSUME NEW r \in StoredRuns, NEW status \in {"completed", "failed"},
         NEW alias \in RunAliases, NEW q, q = [r EXCEPT !.status = status, !.alias = alias]
  PROVE  q \in StoredRuns /\ q.status = status /\ q.alias = alias /\ q.stored = r.stored
  BY DEF StoredRuns

(* ... or it stores a batch. *)
LEMMA RunStores ==
  ASSUME NEW r \in StoredRuns, NEW batch \in Seq(Metrics \cup Points),
         NEW q, q = [r EXCEPT !.stored = @ \o batch]
  PROVE  /\ q \in StoredRuns /\ q.status = r.status /\ q.alias = r.alias
         /\ q.stored = r.stored \o batch
         /\ Range(q.stored) = Range(r.stored) \cup Range(batch)
  <1>1. r.stored \in Seq(Metrics \cup Points)
    BY DEF StoredRuns
  <1>2. /\ r.stored \o batch \in Seq(Metrics \cup Points)
        /\ Range(r.stored \o batch) = Range(r.stored) \cup Range(batch)
    BY <1>1, ConcatElements
  <1>3. PICK s \in Seq(Metrics \cup Points) : s = r.stored \o batch
    BY <1>2
  <1>4. q = [r EXCEPT !.stored = s]
    BY <1>3
  <1>5. q \in StoredRuns /\ q.status = r.status /\ q.alias = r.alias /\ q.stored = s
    BY <1>4 DEF StoredRuns
  <1> QED
    BY <1>2, <1>3, <1>5

(* At first nothing has been tried. *)
LEMMA InitSetup ==
  ASSUME SetupInit
  PROVE  SetupInv
  <1>1. Range(<<>>) = {} /\ Len(<<>>) = 0 /\ DOMAIN <<>> = {}
    BY DEF Range
  <1>2. "none" \in CallAliases
    BY DEF CallAliases
  <1>3. SetupShape
    <2>1. <<>> \in Seq(Outcomes) /\ <<>> \in Seq(Nat) /\ <<>> \in Seq(Metrics)
          /\ <<>> \in Seq(Points) /\ <<>> \in Seq(Metrics \cup Points)
          /\ <<>> \in Seq(FaultNames)
      OBVIOUS
    <2> QED
      BY <1>2, <2>1, SetupAssumption
      DEF SetupShape, SetupInit, RunAliases, Setups, Collectors, Queues, Calls, StoredRuns
  <1>4. AttemptsInv
    BY <1>1, SetupAssumption DEF AttemptsInv, SetupInit
  <1>5. RunInv
    BY <1>1 DEF RunInv, SetupInit, HasConnected
  <1>6. OpenInv
    BY <1>1, FS_EmptySet DEF OpenInv, SetupInit, Unconfigured, HasConnected
  <1>7. MetricsInv
    BY <1>1 DEF MetricsInv, SetupInit, Named
  <1> QED
    BY <1>3, <1>4, <1>5, <1>6, <1>7 DEF SetupInv

(* start_run, which may fail before or after the run was started. *)
LEMMA StartRunKeepsInv ==
  ASSUME SetupInv, StartRun
  PROVE  SetupInv'
  <1> USE DEF SetupInv
  <1>1. /\ setup.pc = "start"
        /\ UNCHANGED <<tried, waits, open, observer, collector, rtcp, call>>
        /\ run' \in {run, [run EXCEPT !.status = "running"]}
    BY DEF StartRun
  <1>2. \/ /\ setup' = [pc |-> "connect", attempt |-> 1] /\ faults' = faults
           /\ run' = [run EXCEPT !.status = "running"]
        \/ /\ setup' = [setup EXCEPT !.pc = "raised"] /\ faults' \in Seq(FaultNames)
           /\ Range(faults') = Range(faults) \cup {"start"}
    BY FaultAdds DEF StartRun, FaultNames
  <1>3. /\ run' \in StoredRuns /\ setup' \in Setups
        /\ run'.stored = run.stored /\ run'.alias = run.alias
        /\ setup'.pc = "connect" => run'.status = "running"
    <2>1. run \in StoredRuns
      BY DEF SetupShape
    <2>2. /\ run' \in StoredRuns /\ run'.stored = run.stored /\ run'.alias = run.alias
      <3>1. CASE run' = run
        BY <2>1, <3>1
      <3>2. CASE run' = [run EXCEPT !.status = "running"]
        BY <2>1, <3>2, RunStarts
      <3> QED
        BY <1>1, <3>1, <3>2
    <2>3. CASE setup' = [pc |-> "connect", attempt |-> 1] /\ run' = [run EXCEPT !.status = "running"]
      <3>1. 1 \in 0..Attempts
        BY SetupAssumption
      <3>2. setup' \in Setups
        BY <2>3, <3>1 DEF Setups
      <3>3. run'.status = "running"
        BY <2>1, <2>3, RunStarts
      <3> QED
        BY <2>2, <3>2, <3>3
    <2>4. CASE setup' = [setup EXCEPT !.pc = "raised"]
      <3>1. setup' \in Setups /\ setup'.pc = "raised"
        BY <2>4, SetupGoesOn
      <3> QED
        BY <2>2, <3>1
    <2> QED
      BY <1>2, <2>3, <2>4
  <1>4. SetupShape'
    BY <1>1, <1>2, <1>3 DEF SetupShape
  <1>5. \/ setup'.pc = "connect" /\ setup'.attempt = 1 /\ faults' = faults
        \/ setup'.pc = "raised" /\ Range(faults') = Range(faults) \cup {"start"}
    BY <1>2, ShapeFacts
  <1>6. /\ tried' = tried /\ waits' = waits /\ Len(tried) = 0 /\ Len(waits) = 0
        /\ DOMAIN tried = {} /\ DOMAIN waits = {}
    <2>1. tried' = tried /\ waits' = waits /\ Len(tried) = 0 /\ Len(waits) = 0
      BY <1>1 DEF AttemptsInv
    <2> QED
      BY <2>1, ShapeFacts
  <1>7. AttemptsInv'
    BY <1>5, <1>6, SetupAssumption DEF AttemptsInv, NeverConnected, HasConnected
  <1>8. RunInv'
    <2>1. /\ call.pc = "none" /\ ~(collector.pc # "off" \/ rtcp.thread # <<>>)
          /\ run.alias # "provider-connect-error" /\ "connected" \notin Range(faults)
      BY <1>1 DEF RunInv
    <2>2. /\ Len(tried') = 0 /\ Attempts # 0 /\ ~HasConnected'
          /\ call'.pc = "none" /\ ~(collector'.pc # "off" \/ rtcp'.thread # <<>>)
          /\ run'.alias # "provider-connect-error" /\ "connected" \notin Range(faults')
      BY <1>1, <1>3, <1>5, <1>6, <2>1, SetupAssumption DEF HasConnected
    <2> QED
      BY <1>3, <1>5, <2>2 DEF RunInv
  <1>9. OpenInv'
    BY <1>1, TriedTells DEF OpenInv
  <1>10. MetricsInv'
    BY <1>1, <1>3, <1>5, TriedTells DEF MetricsInv
  <1> QED
    BY <1>4, <1>7, <1>8, <1>9, <1>10

(* One more attempt. *)
LEMMA TriesOnce ==
  ASSUME SetupShape, NEW n \in Nat, n = Len(tried),
         NEW x \in Outcomes, tried' = Append(tried, x)
  PROVE  /\ tried' \in Seq(Outcomes) /\ Len(tried') = n + 1 /\ DOMAIN tried' = 1..(n + 1)
         /\ \A i \in 1..n : tried'[i] = tried[i]
         /\ tried'[n + 1] = x
         /\ HasConnected' <=> x = "connected"
         /\ NeverConnected' <=> NeverConnected /\ x # "connected"
         /\ Cardinality(Unconfigured) \in Nat
         /\ Cardinality(Unconfigured') =
              IF x = "unconfigured" THEN Cardinality(Unconfigured) + 1
              ELSE Cardinality(Unconfigured)
  <1>1. /\ tried' \in Seq(Outcomes) /\ Len(tried') = n + 1 /\ DOMAIN tried' = 1..(n + 1)
        /\ DOMAIN tried = 1..n
        /\ \A i \in 1..n : tried'[i] = tried[i]
        /\ tried'[n + 1] = x
    BY AppendElements DEF SetupShape
  <1>2. 1..(n + 1) = 1..n \cup {n + 1} /\ n + 1 \notin 1..n /\ n + 1 > 0
    OBVIOUS
  <1>3. HasConnected' <=> x = "connected"
    BY <1>1, <1>2 DEF HasConnected
  <1>4. NeverConnected' <=> NeverConnected /\ x # "connected"
    BY <1>1, <1>2 DEF NeverConnected
  <1>5. Unconfigured' = IF x = "unconfigured" THEN Unconfigured \cup {n + 1} ELSE Unconfigured
    BY <1>1, <1>2 DEF Unconfigured
  <1>6. n + 1 \notin Unconfigured /\ Unconfigured \subseteq 1..n
    BY <1>1, <1>2 DEF Unconfigured
  <1>7. IsFiniteSet(Unconfigured)
    <2>1. IsFiniteSet(1..n)
      BY FS_Interval
    <2> QED
      BY <1>6, <2>1, FS_Subset
  <1>8. /\ Cardinality(Unconfigured) \in Nat
        /\ Cardinality(Unconfigured \cup {n + 1}) = Cardinality(Unconfigured) + 1
    BY <1>6, <1>7, FS_AddElement, FS_CardinalityType
  <1> QED
    BY <1>1, <1>3, <1>4, <1>5, <1>8

(* The metrics of a connection. *)
LEMMA ConnectedTells ==
  ASSUME NEW a \in Nat \ {0}
  PROVE  /\ Connected(a) \in Seq(Metrics)
         /\ Range(Connected(a)) =
              {Metric("attempts", a), Metric("retries", a - 1)}
                \cup (IF a > 1 THEN {Metric("failures", a - 1)} ELSE {})
  <1>0. a - 1 \in Nat
    OBVIOUS
  <1>1. /\ Metric("attempts", a) \in Metrics /\ Metric("retries", a - 1) \in Metrics
        /\ Metric("failures", a - 1) \in Metrics
    BY <1>0 DEF Metrics, Metric
  <1>m. PICK m \in Metrics : m = Metric("attempts", a)
    BY <1>1
  <1>r. PICK r \in Metrics : r = Metric("retries", a - 1)
    BY <1>1
  <1>f. PICK f \in Metrics : f = Metric("failures", a - 1)
    BY <1>1
  <1>2. <<m, r>> \in Seq(Metrics) /\ Range(<<m, r>>) = {m, r}
    BY ShortLists
  <1>3. <<f>> \in Seq(Metrics) /\ Range(<<f>>) = {f}
    BY ShortLists
  <1>4. <<>> \in Seq(Metrics) /\ Range(<<>>) = {}
    BY DEF Range
  <1>5. PICK t \in Seq(Metrics) :
          /\ t = (IF a > 1 THEN <<f>> ELSE <<>>)
          /\ Range(t) = (IF a > 1 THEN {f} ELSE {})
    BY <1>3, <1>4
  <1>6. Connected(a) = <<m, r>> \o t
    BY <1>m, <1>r, <1>f, <1>5, Zenon DEF Connected
  <1>7. PICK s \in Seq(Metrics) : s = <<m, r>> /\ Range(s) = {m, r}
    BY <1>2
  <1>8. s \o t \in Seq(Metrics) /\ Range(s \o t) = {m, r} \cup Range(t)
    <2>1. t \in Seq(Metrics) /\ s \in Seq(Metrics) /\ Range(s) = {m, r}
      BY <1>5, <1>7
    <2>2. s \o t \in Seq(Metrics) /\ Range(s \o t) = Range(s) \cup Range(t)
      BY <2>1, ConcatElements, Zenon, SMTT(30)
    <2> QED
      BY <2>1, <2>2
  <1> QED
    BY <1>m, <1>r, <1>f, <1>5, <1>6, <1>7, <1>8

(* An attempt succeeds. *)
LEMMA ConnectSucceedsKeepsInv ==
  ASSUME SetupInv, ConnectSucceeds
  PROVE  SetupInv'
  <1> USE DEF SetupInv
  <1>1. /\ setup.pc = "connect" /\ tried' = Append(tried, "connected") /\ open' = open + 1
        /\ setup' = [setup EXCEPT !.pc = "flush"] /\ observer' = Connected(setup.attempt)
        /\ UNCHANGED <<waits, collector, rtcp, call, run, faults>>
    BY DEF ConnectSucceeds
  <1>2. PICK n \in Nat : n = Len(tried)
    BY ShapeFacts
  <1>3. PICK a \in Nat \ {0} : /\ a = setup.attempt /\ n = a - 1 /\ a = n + 1 /\ a <= Attempts
                               /\ Len(waits) = n /\ NeverConnected
    BY <1>1, <1>2, ShapeFacts DEF AttemptsInv
  <1>4. /\ tried' \in Seq(Outcomes) /\ Len(tried') = a /\ DOMAIN tried' = 1..a
        /\ \A i \in 1..n : tried'[i] = tried[i]
        /\ tried'[a] = "connected" /\ HasConnected' /\ ~NeverConnected'
        /\ Cardinality(Unconfigured) \in Nat
        /\ Cardinality(Unconfigured') = Cardinality(Unconfigured)
    BY <1>1, <1>2, <1>3, TriesOnce DEF Outcomes
  <1>5. setup' \in Setups /\ setup'.pc = "flush" /\ setup'.attempt = a
    BY <1>1, <1>3, SetupGoesOn
  <1>6. /\ observer' \in Seq(Metrics)
        /\ Range(observer') =
             {Metric("attempts", a), Metric("retries", a - 1)}
               \cup (IF a > 1 THEN {Metric("failures", a - 1)} ELSE {})
    BY <1>1, <1>3, ConnectedTells
  <1>7. SetupShape'
    BY <1>1, <1>4, <1>5, <1>6 DEF SetupShape
  <1>8. AttemptsInv'
    <2>1. \A i \in DOMAIN tried' : tried'[i] = "connected" => i = Len(tried')
      BY <1>2, <1>3, <1>4, ShapeFacts DEF NeverConnected
    <2>2. /\ \A i \in DOMAIN waits : waits[i] = Backoff(i)
          /\ Len(waits) < Attempts /\ waits' = waits
      BY <1>1 DEF AttemptsInv
    <2> QED
      BY <1>3, <1>4, <1>5, <2>1, <2>2 DEF AttemptsInv
  <1>9. RunInv'
    <2>1. /\ run.status = "running" /\ call.pc = "none" /\ collector.pc = "off"
          /\ rtcp.thread = <<>> /\ run.alias # "provider-connect-error"
          /\ "connected" \notin Range(faults)
      BY <1>1 DEF RunInv
    <2> QED
      BY <1>1, <1>5, <2>1 DEF RunInv
  <1>10. OpenInv'
    <2>1. call.pc = "none" /\ ~HasConnected
      <3>1. call.pc = "none"
        BY <1>1 DEF RunInv
      <3>2. ~HasConnected
        BY <1>2, <1>3, ShapeFacts DEF HasConnected, NeverConnected
      <3> QED
        BY <3>1, <3>2
    <2>2. open = Cardinality(Unconfigured) /\ open <= n
      BY <1>2, <1>4, <2>1 DEF OpenInv
    <2> QED
      BY <1>1, <1>2, <1>3, <1>4, <2>1, <2>2 DEF OpenInv
  <1>11. MetricsInv'
    <2>1. run.stored = <<>> /\ run'.stored = <<>> /\ Range(<<>>) = {}
      BY <1>1 DEF MetricsInv, Range
    <2>2. \A x \in Range(observer') : MetricIsTrue(x)'
      <3> SUFFICES ASSUME NEW x \in Range(observer') PROVE MetricIsTrue(x)'
        OBVIOUS
      <3>1. \/ x = [name |-> "attempts", value |-> a]
            \/ x = [name |-> "retries", value |-> a - 1]
            \/ x = [name |-> "failures", value |-> a - 1]
        BY <1>6 DEF Metric
      <3>2. \/ x.name = "attempts" /\ x.value = a
            \/ x.name = "retries"
            \/ x.name = "failures" /\ x.value = a - 1
        BY <3>1
      <3> QED
        BY <1>4, <3>2 DEF MetricIsTrue
    <2>3. TellsAll(observer)'
      <3>1. \E x \in Range(observer') : x.name = "attempts"
        <4>1. Metric("attempts", a) \in Range(observer')
          BY <1>6
        <4> QED
          BY <4>1 DEF Metric
      <3>2. a > 1 => \E x \in Range(observer') : x.name = "failures"
        <4>1. a > 1 => Metric("failures", a - 1) \in Range(observer')
          BY <1>6
        <4> QED
          BY <4>1 DEF Metric
      <3> QED
        BY <1>4, <3>1, <3>2 DEF TellsAll, Named
    <2>4. ~Named(run.stored, "attempts")'
      BY <2>1 DEF Named
    <2> QED
      BY <1>5, <2>1, <2>2, <2>3, <2>4 DEF MetricsInv
  <1> QED
    BY <1>7, <1>8, <1>9, <1>10, <1>11

(* The delays are at most the cap, and none is shorter than the one before. *)
LEMMA BackoffIsBounded ==
  ASSUME NEW i \in 1..Attempts
  PROVE  /\ Backoff(i) \in Nat /\ Backoff(i) <= MaxBackoff
         /\ \A j \in 1..Attempts : i <= j => Backoff(i) <= Backoff(j)
  <1>1. InitialBackoff \in Nat /\ MaxBackoff \in Nat /\ Attempts \in Nat
    BY SetupAssumption
  <1>2. ASSUME NEW j \in 1..Attempts
        PROVE  /\ j - 1 \in 0..Attempts /\ 2 ^ (j - 1) \in Nat
               /\ InitialBackoff * 2 ^ (j - 1) \in Nat
               /\ Backoff(j) = IF InitialBackoff * 2 ^ (j - 1) < MaxBackoff
                               THEN InitialBackoff * 2 ^ (j - 1) ELSE MaxBackoff
    <2>1. j - 1 \in 0..Attempts
      BY <1>1
    <2>2. 2 ^ (j - 1) \in Nat
      BY <2>1, PowersGrow
    <2>3. PICK p \in Nat : p = 2 ^ (j - 1)
      BY <2>2
    <2>4. InitialBackoff * p \in Nat
      BY <1>1
    <2> QED
      BY <2>1, <2>2, <2>3, <2>4 DEF Backoff
  <1>3. ASSUME NEW j \in 1..Attempts, i <= j PROVE Backoff(i) <= Backoff(j)
    <2>1. 2 ^ (i - 1) <= 2 ^ (j - 1)
      <3>1. i - 1 \in 0..Attempts /\ j - 1 \in 0..Attempts /\ i - 1 <= j - 1
        BY <1>1, <1>3
      <3> QED
        BY <3>1, PowersGrow
    <2>2. PICK p \in Nat : p = 2 ^ (i - 1)
      BY <1>2
    <2>3. PICK q \in Nat : q = 2 ^ (j - 1)
      BY <1>2
    <2>4. p <= q
      BY <2>1, <2>2, <2>3
    <2>5. PICK b \in Nat : b = InitialBackoff
      BY <1>1
    <2>6. PICK r \in Nat : r = q - p /\ q = p + r
      BY <2>4
    <2>7. b * (p + r) = b * p + b * r /\ b * r \in Nat /\ b * p \in Nat
      BY <2>5
    <2>8. PICK c \in Nat : c = b * p
      BY <2>7
    <2>9. PICK d \in Nat : d = b * q
      BY <2>6, <2>7
    <2>10. c <= d
      BY <2>6, <2>7, <2>8, <2>9
    <2>11. /\ Backoff(i) = IF c < MaxBackoff THEN c ELSE MaxBackoff
           /\ Backoff(j) = IF d < MaxBackoff THEN d ELSE MaxBackoff
      BY <1>2, <2>2, <2>3, <2>5, <2>8, <2>9
    <2> QED
      BY <1>1, <2>10, <2>11
  <1>4. Backoff(i) \in Nat /\ Backoff(i) <= MaxBackoff
    BY <1>1, <1>2
  <1> QED
    BY <1>3, <1>4

(* An attempt fails, and another follows or none. *)
LEMMA ConnectFailsKeepsInv ==
  ASSUME SetupInv, ConnectFails
  PROVE  SetupInv'
  <1> USE DEF SetupInv
  <1>1. /\ setup.pc = "connect"
        /\ UNCHANGED <<collector, rtcp, call, run, faults>>
    BY DEF ConnectFails
  <1>2. PICK n \in Nat : n = Len(tried)
    BY ShapeFacts
  <1>3. PICK a \in Nat \ {0} : /\ a = setup.attempt /\ n = a - 1 /\ a = n + 1 /\ a <= Attempts
                               /\ Len(waits) = n /\ NeverConnected
    BY <1>1, <1>2, ShapeFacts DEF AttemptsInv
  <1>4. PICK x \in {"refused", "unconfigured"} :
          /\ tried' = Append(tried, x)
          /\ open' = IF x = "unconfigured" THEN open + 1 ELSE open
    BY DEF ConnectFails
  <1>5. /\ tried' \in Seq(Outcomes) /\ Len(tried') = a /\ DOMAIN tried' = 1..a
        /\ NeverConnected' /\ ~HasConnected'
        /\ Cardinality(Unconfigured) \in Nat
        /\ Cardinality(Unconfigured') =
             IF x = "unconfigured" THEN Cardinality(Unconfigured) + 1
             ELSE Cardinality(Unconfigured)
    BY <1>2, <1>3, <1>4, TriesOnce DEF Outcomes
  <1>6. Attempts \in Nat \ {0} /\ open \in Nat
    BY SetupAssumption DEF SetupShape
  <1>7. open' \in Nat
    BY <1>4, <1>6
  <1>8. \/ /\ a = Attempts
           /\ setup' = [setup EXCEPT !.pc = "exhausted"]
           /\ observer' = <<Metric("attempts", Attempts), Metric("retries", Attempts - 1),
                            Metric("failures", Attempts), Metric("exhausted", 1)>>
           /\ waits' = waits
        \/ /\ a < Attempts
           /\ setup' = [setup EXCEPT !.pc = "backoff"]
           /\ waits' = Append(waits, Backoff(a)) /\ observer' = observer
    BY <1>3, <1>6 DEF ConnectFails
  <1>9. /\ setup' \in Setups /\ setup'.attempt = a
        /\ \/ a = Attempts /\ setup'.pc = "exhausted"
           \/ a < Attempts /\ setup'.pc = "backoff"
    BY <1>3, <1>8, SetupGoesOn
  <1>10. RunInv'
    <2>1. /\ run.status = "running" /\ call.pc = "none" /\ collector.pc = "off"
          /\ rtcp.thread = <<>> /\ run.alias # "provider-connect-error"
          /\ "connected" \notin Range(faults)
      BY <1>1 DEF RunInv
    <2> QED
      BY <1>1, <1>9, <2>1 DEF RunInv
  <1>11. OpenInv'
    <2>1. call.pc = "none" /\ ~HasConnected
      <3>1. call.pc = "none"
        BY <1>1 DEF RunInv
      <3>2. ~HasConnected
        BY <1>2, <1>3, ShapeFacts DEF HasConnected, NeverConnected
      <3> QED
        BY <3>1, <3>2
    <2>2. open = Cardinality(Unconfigured) /\ open <= n
      BY <1>2, <1>5, <2>1 DEF OpenInv
    <2> QED
      BY <1>2, <1>3, <1>4, <1>5, <1>6, <2>2 DEF OpenInv
  <1>12. \A i \in DOMAIN tried' : tried'[i] = "connected" => i = Len(tried')
    BY <1>5 DEF NeverConnected
  <1>13. run.stored = <<>> /\ run'.stored = <<>> /\ Range(<<>>) = {} /\ observer = <<>>
    BY <1>1 DEF MetricsInv, Range
  <1>14. CASE a = Attempts
    <2>1. /\ setup'.pc = "exhausted" /\ waits' = waits /\ Len(waits) = a - 1
          /\ \A i \in DOMAIN waits : waits[i] = Backoff(i)
      <3>1. \A i \in DOMAIN waits : waits[i] = Backoff(i)
        BY DEF AttemptsInv
      <3>2. ~(a < Attempts)
        BY <1>6, <1>14
      <3> QED
        BY <1>3, <1>8, <1>9, <3>1, <3>2
    <2>2. /\ observer' \in Seq(Metrics)
          /\ Range(observer') = {Metric("attempts", a), Metric("retries", a - 1),
                                 Metric("failures", a), Metric("exhausted", 1)}
      <3>1. a - 1 \in Nat /\ a \in Nat /\ 1 \in Nat
        OBVIOUS
      <3>2. /\ Metric("attempts", a) \in Metrics /\ Metric("retries", a - 1) \in Metrics
            /\ Metric("failures", a) \in Metrics /\ Metric("exhausted", 1) \in Metrics
        BY <3>1 DEF Metric, Metrics
      <3>3. observer' = <<Metric("attempts", a), Metric("retries", a - 1),
                          Metric("failures", a), Metric("exhausted", 1)>>
        <4>1. ~(a < Attempts)
          BY <1>6, <1>14
        <4> QED
          BY <1>8, <1>14, <4>1, Zenon
      <3> QED
        BY <3>2, <3>3, FourElements
    <2>3. SetupShape'
      BY <1>1, <1>5, <1>7, <1>9, <2>1, <2>2 DEF SetupShape
    <2>4. AttemptsInv'
      BY <1>3, <1>5, <1>6, <1>9, <1>12, <1>14, <2>1 DEF AttemptsInv
    <2>5. \A y \in Range(observer') : MetricIsTrue(y)'
      <3> SUFFICES ASSUME NEW y \in Range(observer') PROVE MetricIsTrue(y)'
        OBVIOUS
      <3>1. \/ y = [name |-> "attempts", value |-> a]
            \/ y = [name |-> "retries", value |-> a - 1]
            \/ y = [name |-> "failures", value |-> a]
            \/ y = [name |-> "exhausted", value |-> 1]
        BY <2>2 DEF Metric
      <3>2. \/ y.name = "attempts" /\ y.value = a
            \/ y.name = "retries"
            \/ y.name = "failures" /\ y.value = a
            \/ y.name = "exhausted" /\ y.value = 1
        BY <3>1
      <3> QED
        BY <1>5, <1>14, <3>2 DEF MetricIsTrue
    <2>6. TellsAll(observer)'
      <3>1. Metric("attempts", a) \in Range(observer') /\ Metric("exhausted", 1) \in Range(observer')
        BY <2>2
      <3>2. /\ \E y \in Range(observer') : y.name = "attempts"
            /\ \E y \in Range(observer') : y.name = "exhausted"
        BY <3>1 DEF Metric
      <3> QED
        BY <1>5, <3>2 DEF TellsAll, Named
    <2>7. ~Named(run.stored, "attempts")'
      BY <1>13 DEF Named
    <2>8. MetricsInv'
      BY <1>13, <2>1, <2>5, <2>6, <2>7 DEF MetricsInv
    <2> QED
      BY <1>10, <1>11, <2>3, <2>4, <2>8
  <1>15. CASE a < Attempts
    <2>1. /\ setup'.pc = "backoff" /\ waits' = Append(waits, Backoff(a)) /\ observer' = <<>>
          /\ \A i \in DOMAIN waits : waits[i] = Backoff(i)
      <3>1. \A i \in DOMAIN waits : waits[i] = Backoff(i)
        BY DEF AttemptsInv
      <3>2. a # Attempts
        BY <1>6, <1>15
      <3> QED
        BY <1>8, <1>9, <1>13, <3>1, <3>2
    <2>2. Backoff(a) \in Nat
      BY <1>3, <1>6, BackoffIsBounded
    <2>3. /\ waits' \in Seq(Nat) /\ Len(waits') = a /\ DOMAIN waits' = 1..a
          /\ \A i \in 1..n : waits'[i] = waits[i]
          /\ waits'[a] = Backoff(a) /\ DOMAIN waits = 1..n
      BY <1>3, <2>1, <2>2, AppendElements DEF SetupShape
    <2>4. \A i \in DOMAIN waits' : waits'[i] = Backoff(i)
      <3>1. ASSUME NEW i \in 1..a PROVE waits'[i] = Backoff(i)
        <4>1. CASE i = a
          BY <2>3, <4>1
        <4>2. CASE i \in 1..n
          BY <2>1, <2>3, <4>2
        <4> QED
          BY <1>3, <4>1, <4>2
      <3> QED
        BY <2>3, <3>1
    <2>5. SetupShape'
      BY <1>1, <1>5, <1>7, <1>9, <1>13, <2>1, <2>3 DEF SetupShape
    <2>6. AttemptsInv'
      BY <1>3, <1>5, <1>9, <1>12, <1>15, <2>1, <2>3, <2>4 DEF AttemptsInv
    <2>7. ~Named(run.stored, "attempts")'
      BY <1>13 DEF Named
    <2>8. MetricsInv'
      BY <1>13, <2>1, <2>7 DEF MetricsInv
    <2> QED
      BY <1>10, <1>11, <2>5, <2>6, <2>8
  <1> QED
    BY <1>9, <1>14, <1>15

(* The next attempt begins. *)
LEMMA BackoffOverKeepsInv ==
  ASSUME SetupInv, BackoffOver
  PROVE  SetupInv'
  <1> USE DEF SetupInv
  <1>1. /\ setup.pc = "backoff" /\ setup' = [pc |-> "connect", attempt |-> setup.attempt + 1]
        /\ UNCHANGED <<tried, waits, open, observer, collector, rtcp, call, run, faults>>
    BY DEF BackoffOver
  <1>2. PICK a \in Nat \ {0} :
          /\ a = setup.attempt /\ a < Attempts /\ NeverConnected
          /\ Len(tried) = a /\ Len(waits) = a /\ Attempts \in Nat
    BY <1>1, ShapeFacts DEF AttemptsInv
  <1>3. setup'.pc = "connect" /\ setup'.attempt = a + 1 /\ a + 1 \in 0..Attempts
    BY <1>1, <1>2
  <1>4. SetupShape'
    <2>1. setup' \in Setups
      BY <1>1, <1>2, <1>3 DEF Setups
    <2> QED
      BY <1>1, <2>1 DEF SetupShape
  <1>5. AttemptsInv'
    <2>1. /\ \A i \in DOMAIN waits : waits[i] = Backoff(i)
          /\ \A i \in DOMAIN tried : tried[i] = "connected" => i = Len(tried)
      BY DEF AttemptsInv
    <2>2. /\ \A i \in DOMAIN waits' : waits'[i] = Backoff(i)
          /\ \A i \in DOMAIN tried' : tried'[i] = "connected" => i = Len(tried')
          /\ NeverConnected' /\ Len(tried') = a /\ Len(waits') = a
      BY <1>1, <1>2, <2>1, TriedTells
    <2> QED
      BY <1>2, <1>3, <2>2 DEF AttemptsInv
  <1>6. RunInv'
    BY <1>1, <1>3, TriedTells DEF RunInv
  <1>7. OpenInv'
    BY <1>1, TriedTells DEF OpenInv
  <1>8. MetricsInv'
    BY <1>1, <1>3, TriedTells DEF MetricsInv
  <1> QED
    BY <1>4, <1>5, <1>6, <1>7, <1>8

(* The attempts stay what they are when create_session reports them. *)
LEMMA AttemptsStay ==
  ASSUME SetupInv, tried' = tried, waits' = waits, setup'.attempt = setup.attempt,
         \/ setup'.pc = setup.pc
         \/ setup.pc = "exhausted" /\ setup'.pc = "failing"
         \/ setup.pc = "failing" /\ setup'.pc = "raised"
         \/ setup.pc = "flush" /\ setup'.pc \in {"session", "raised"}
  PROVE  AttemptsInv'
  <1>1. AttemptsInv /\ (NeverConnected' <=> NeverConnected) /\ (HasConnected' <=> HasConnected)
    BY TriedTells DEF SetupInv
  <1> QED
    BY <1>1 DEF AttemptsInv

(* A longer list still says all. *)
LEMMA MoreTells ==
  ASSUME NEW s, NEW t, Range(s) \subseteq Range(t), TellsAll(s)
  PROVE  TellsAll(t)
  BY DEF TellsAll, Named

(* A flush of the call's observer stores all that was tried, or fails before or
   after it was stored. *)
LEMMA FlushStores ==
  ASSUME SetupInv, setup.pc \in {"exhausted", "flush"}, tried' = tried,
         NEW what \in FaultNames, NEW delivered \in BOOLEAN, FlushObserver(what, delivered)
  PROVE  /\ run' \in StoredRuns /\ run'.status = run.status /\ run'.alias = run.alias
         /\ observer' \in Seq(Metrics) /\ faults' \in Seq(FaultNames)
         /\ \A x \in Range(observer') : MetricIsTrue(x)'
         /\ \A x \in Range(run'.stored) : MetricIsTrue(x)'
         /\ Named(run.stored, "attempts")' => TellsAll(run.stored)'
         /\ delivered => TellsAll(run.stored)' /\ faults' = faults
         /\ ~delivered => Range(faults') = Range(faults) \cup {what}
  <1> USE DEF SetupInv
  <1>1. /\ run \in StoredRuns /\ observer \in Seq(Metrics) /\ faults \in Seq(FaultNames)
        /\ run.status = "running"
    BY DEF SetupShape, RunInv
  <1>2. /\ TellsAll(observer)
        /\ \A x \in Range(observer) : MetricIsTrue(x)
        /\ \A x \in Range(run.stored) : MetricIsTrue(x)
        /\ Named(run.stored, "attempts") => TellsAll(run.stored)
    BY DEF MetricsInv
  <1>3. observer \in Seq(Metrics \cup Points)
    BY <1>1
  <1>4. /\ run' = run \/ run' = [run EXCEPT !.stored = @ \o observer]
        /\ delivered => run' = [run EXCEPT !.stored = @ \o observer]
        /\ delivered => observer' = <<>> /\ faults' = faults
        /\ ~delivered => observer' = observer /\ Fault(what)
    BY <1>1 DEF FlushObserver, Store
  <1>5. /\ run' \in StoredRuns /\ run'.status = run.status /\ run'.alias = run.alias
        /\ \A x \in Range(run'.stored) : MetricIsTrue(x)'
        /\ Named(run.stored, "attempts")' => TellsAll(run.stored)'
    <2>1. CASE run' = [run EXCEPT !.stored = @ \o observer]
      <3>1. /\ run' \in StoredRuns /\ run'.status = run.status /\ run'.alias = run.alias
            /\ Range(run'.stored) = Range(run.stored) \cup Range(observer)
        BY <1>1, <1>3, <2>1, RunStores
      <3>2. \A x \in Range(run'.stored) : MetricIsTrue(x)'
        BY <1>2, <3>1, TriedTells
      <3>3. TellsAll(run.stored)'
        <4>1. TellsAll(run'.stored)
          BY <1>2, <3>1, MoreTells
        <4> QED
          BY <4>1, TriedTells DEF TellsAll
      <3> QED
        BY <3>1, <3>2, <3>3
    <2>2. CASE run' = run
      <3>1. \A x \in Range(run'.stored) : MetricIsTrue(x)'
        BY <1>2, <2>2, TriedTells
      <3>2. Named(run.stored, "attempts")' => TellsAll(run.stored)'
        BY <1>2, <2>2, TriedTells DEF Named, TellsAll
      <3> QED
        BY <1>1, <2>2, <3>1, <3>2
    <2> QED
      BY <1>4, <2>1, <2>2
  <1>7. observer' \in Seq(Metrics) /\ \A x \in Range(observer') : MetricIsTrue(x)'
    <2>1. <<>> \in Seq(Metrics) /\ Range(<<>>) = {}
      BY DEF Range
    <2> QED
      BY <1>1, <1>2, <1>4, <2>1, TriedTells
  <1>8. /\ faults' \in Seq(FaultNames)
        /\ ~delivered => Range(faults') = Range(faults) \cup {what}
    BY <1>1, <1>4, FaultAdds
  <1>9. delivered => TellsAll(run.stored)'
    <2> SUFFICES ASSUME delivered PROVE TellsAll(run.stored)'
      OBVIOUS
    <2>1. run' = [run EXCEPT !.stored = @ \o observer]
      BY <1>4
    <2>2. Range(run'.stored) = Range(run.stored) \cup Range(observer)
      BY <1>1, <1>3, <2>1, RunStores
    <2>3. TellsAll(run'.stored)
      BY <1>2, <2>2, MoreTells
    <2> QED
      BY <2>3, TriedTells DEF TellsAll
  <1> QED
    BY <1>4, <1>5, <1>7, <1>8, <1>9

(* The metrics of the attempts are flushed, or not, before fail_run. *)
LEMMA ReportExhaustedKeepsInv ==
  ASSUME SetupInv, ReportExhausted
  PROVE  SetupInv'
  <1> USE DEF SetupInv
  <1>1. /\ setup.pc = "exhausted"
        /\ UNCHANGED <<tried, waits, open, collector, rtcp, call>>
    BY DEF ReportExhausted
  <1>2. PICK delivered \in BOOLEAN :
          /\ FlushObserver("exhausted", delivered)
          /\ setup' = [setup EXCEPT !.pc = "failing"]
    BY DEF ReportExhausted, AfterExhaustedFlush
  <1>3. "exhausted" \in FaultNames
    BY DEF FaultNames
  <1>4. /\ run' \in StoredRuns /\ run'.status = run.status /\ run'.alias = run.alias
        /\ observer' \in Seq(Metrics) /\ faults' \in Seq(FaultNames)
        /\ \A x \in Range(observer') : MetricIsTrue(x)'
        /\ \A x \in Range(run'.stored) : MetricIsTrue(x)'
        /\ Named(run.stored, "attempts")' => TellsAll(run.stored)'
        /\ "connected" \in Range(faults') <=> "connected" \in Range(faults)
    BY <1>1, <1>2, <1>3, FlushStores
  <1>5. setup' \in Setups /\ setup'.pc = "failing" /\ setup'.attempt = setup.attempt
    BY <1>2, SetupGoesOn
  <1>6. SetupShape'
    BY <1>1, <1>4, <1>5 DEF SetupShape
  <1>7. AttemptsInv'
    BY <1>1, <1>5, AttemptsStay
  <1>8. RunInv'
    <2>1. /\ run.status = "running" /\ call.pc = "none" /\ collector.pc = "off"
          /\ rtcp.thread = <<>> /\ run.alias # "provider-connect-error"
          /\ "connected" \notin Range(faults)
      BY <1>1 DEF RunInv
    <2> QED
      BY <1>1, <1>4, <1>5, <2>1 DEF RunInv
  <1>9. OpenInv'
    BY <1>1, TriedTells DEF OpenInv
  <1>10. MetricsInv'
    BY <1>4, <1>5 DEF MetricsInv
  <1> QED
    BY <1>6, <1>7, <1>8, <1>9, <1>10

(* fail_run, which may fail too. *)
LEMMA FailExhaustedKeepsInv ==
  ASSUME SetupInv, FailExhausted
  PROVE  SetupInv'
  <1> USE DEF SetupInv
  <1>1. /\ setup.pc = "failing" /\ setup' = [setup EXCEPT !.pc = "raised"]
        /\ UNCHANGED <<tried, waits, open, observer, collector, rtcp, call>>
    BY DEF FailExhausted
  <1>2. /\ run \in StoredRuns /\ run.status = "running" /\ call.pc = "none"
        /\ collector.pc = "off" /\ rtcp.thread = <<>> /\ "connected" \notin Range(faults)
    BY <1>1 DEF SetupShape, RunInv
  <1>3. \/ /\ run' = [run EXCEPT !.status = "failed", !.alias = "provider-connect-error"]
           /\ faults' = faults
        \/ /\ Fault("fail")
           /\ \/ run' = run
              \/ run' = [run EXCEPT !.status = "failed", !.alias = "provider-connect-error"]
    BY <1>2 DEF FailExhausted, EndRun
  <1>4. /\ run' \in StoredRuns /\ run'.stored = run.stored
        /\ \/ run' = run
           \/ run'.status = "failed" /\ run'.alias = "provider-connect-error"
    <2>1. "provider-connect-error" \in RunAliases
      BY DEF RunAliases
    <2>2. CASE run' = [run EXCEPT !.status = "failed", !.alias = "provider-connect-error"]
      BY <1>2, <2>1, <2>2 DEF StoredRuns
    <2>3. CASE run' = run
      BY <1>2, <2>3
    <2> QED
      BY <1>3, <2>2, <2>3
  <1>5. /\ faults' \in Seq(FaultNames) /\ "connected" \notin Range(faults')
        /\ \/ "fail" \in Range(faults')
           \/ run'.status = "failed" /\ run'.alias = "provider-connect-error"
    <2>1. CASE faults' = faults
               /\ run' = [run EXCEPT !.status = "failed", !.alias = "provider-connect-error"]
      <3>1. "provider-connect-error" \in RunAliases
        BY DEF RunAliases
      <3>2. run'.status = "failed" /\ run'.alias = "provider-connect-error"
        BY <1>2, <2>1, <3>1 DEF StoredRuns
      <3> QED
        BY <1>2, <2>1, <3>2 DEF SetupShape
    <2>2. CASE Fault("fail")
      BY <1>2, <2>2, FaultAdds DEF FaultNames
    <2> QED
      BY <1>3, <2>1, <2>2
  <1>6. setup' \in Setups /\ setup'.pc = "raised" /\ setup'.attempt = setup.attempt
    BY <1>1, SetupGoesOn
  <1>7. SetupShape'
    BY <1>1, <1>4, <1>5, <1>6 DEF SetupShape
  <1>8. AttemptsInv'
    BY <1>1, <1>6, AttemptsStay
  <1>9. NeverConnected' /\ Len(tried') = Attempts /\ ~HasConnected' /\ Len(tried') # 0
    <2>1. NeverConnected /\ Len(tried) = Attempts /\ Attempts \in Nat \ {0}
      BY <1>1, SetupAssumption DEF AttemptsInv
    <2>2. ~HasConnected
      BY <2>1, ShapeFacts DEF NeverConnected, HasConnected
    <2> QED
      BY <1>1, <2>1, <2>2, TriedTells
  <1>10. RunInv'
    BY <1>1, <1>2, <1>5, <1>6, <1>9 DEF RunInv
  <1>11. OpenInv'
    BY <1>1, TriedTells DEF OpenInv
  <1>12. MetricsInv'
    BY <1>1, <1>4, <1>6, TriedTells DEF MetricsInv, Named
  <1> QED
    BY <1>7, <1>8, <1>10, <1>11, <1>12

(* The first flush of a session; if it fails nobody has the session. *)
LEMMA FlushConnectedKeepsInv ==
  ASSUME SetupInv, FlushConnected
  PROVE  SetupInv'
  <1> USE DEF SetupInv
  <1>1. setup.pc = "flush" /\ UNCHANGED <<tried, waits, open, rtcp>>
    BY DEF FlushConnected
  <1>2. PICK delivered \in BOOLEAN :
          /\ FlushObserver("connected", delivered)
          /\ \/ /\ delivered = TRUE /\ setup' = [setup EXCEPT !.pc = "session"]
                /\ call' = [call EXCEPT !.pc = "active"]
                /\ collector' \in {collector, [collector EXCEPT !.pc = "connect"]}
             \/ /\ delivered = FALSE /\ setup' = [setup EXCEPT !.pc = "raised"]
                /\ UNCHANGED <<call, collector>>
    BY DEF FlushConnected
  <1>3. /\ call \in Calls /\ collector \in Collectors
        /\ run.status = "running" /\ call.pc = "none" /\ collector.pc = "off"
        /\ rtcp.thread = <<>> /\ run.alias # "provider-connect-error"
        /\ "connected" \notin Range(faults)
    BY <1>1 DEF SetupShape, RunInv
  <1>4. "connected" \in FaultNames
    BY DEF FaultNames
  <1>5. /\ run' \in StoredRuns /\ run'.status = "running"
        /\ run'.alias # "provider-connect-error"
        /\ observer' \in Seq(Metrics) /\ faults' \in Seq(FaultNames)
        /\ \A x \in Range(observer') : MetricIsTrue(x)'
        /\ \A x \in Range(run'.stored) : MetricIsTrue(x)'
        /\ Named(run.stored, "attempts")' => TellsAll(run.stored)'
        /\ delivered => TellsAll(run.stored)' /\ faults' = faults
        /\ ~delivered => Range(faults') = Range(faults) \cup {"connected"}
    BY <1>1, <1>2, <1>3, <1>4, FlushStores
  <1>6. HasConnected' /\ Len(tried') # 0 /\ ~NeverConnected'
    <2>1. HasConnected /\ Len(tried) # 0 /\ ~NeverConnected
      BY <1>1, ShapeFacts DEF AttemptsInv, HasConnected, NeverConnected
    <2> QED
      BY <1>1, <2>1, TriedTells
  <1>7. OpenInv /\ Unconfigured' = Unconfigured /\ HasConnected
    BY <1>1, <1>6, TriedTells
  <1>8. CASE delivered
    <2>1. /\ setup' \in Setups /\ setup'.pc = "session" /\ setup'.attempt = setup.attempt
      BY <1>2, <1>8, SetupGoesOn
    <2>2. call' \in Calls /\ call'.pc = "active"
      BY <1>2, <1>3, <1>8 DEF Calls
    <2>3. collector' \in Collectors
      BY <1>2, <1>3, <1>8 DEF Collectors
    <2>4. SetupShape'
      BY <1>1, <1>5, <2>1, <2>2, <2>3 DEF SetupShape
    <2>5. AttemptsInv'
      BY <1>1, <2>1, AttemptsStay
    <2>6. RunInv'
      BY <1>3, <1>5, <1>8, <2>1, <2>2 DEF RunInv
    <2>7. OpenInv'
      BY <1>1, <1>3, <1>6, <1>7, <2>2 DEF OpenInv
    <2>8. MetricsInv'
      BY <1>5, <1>8, <2>1 DEF MetricsInv
    <2> QED
      BY <2>4, <2>5, <2>6, <2>7, <2>8
  <1>9. CASE ~delivered
    <2>1. /\ setup' \in Setups /\ setup'.pc = "raised" /\ setup'.attempt = setup.attempt
          /\ call' = call /\ collector' = collector
      BY <1>2, <1>9, SetupGoesOn
    <2>2. SetupShape'
      BY <1>1, <1>3, <1>5, <2>1 DEF SetupShape
    <2>3. AttemptsInv'
      BY <1>1, <2>1, AttemptsStay
    <2>4. RunInv'
      BY <1>1, <1>3, <1>5, <1>6, <1>9, <2>1 DEF RunInv
    <2>5. OpenInv'
      BY <1>1, <1>6, <1>7, <2>1 DEF OpenInv
    <2>6. MetricsInv'
      BY <1>5, <2>1 DEF MetricsInv
    <2> QED
      BY <2>2, <2>3, <2>4, <2>5, <2>6
  <1> QED
    BY <1>8, <1>9

-----------------------------------------------------------------------------
(* The call and its collector keep the invariant *)

(* The collector touches nothing of the connection: its points have names of
   their own. *)
LEMMA CollectorStepKeepsInv ==
  ASSUME SetupInv, setup.pc = "session",
         UNCHANGED <<setup, tried, waits, open, observer, call>>,
         collector' \in Collectors, rtcp' \in Queues,
         run' = run \/ (\E batch \in Seq(Points) : run' = [run EXCEPT !.stored = @ \o batch]),
         faults' = faults \/ Fault("rtcp")
  PROVE  SetupInv'
  <1> USE DEF SetupInv
  <1>1. /\ run' \in StoredRuns /\ run'.status = run.status /\ run'.alias = run.alias
        /\ \E more \in SUBSET Points : Range(run'.stored) = Range(run.stored) \cup more
    <2>1. run \in StoredRuns
      BY DEF SetupShape
    <2>2. CASE run' = run
      <3>1. {} \in SUBSET Points /\ Range(run'.stored) = Range(run.stored) \cup {}
        BY <2>2
      <3> QED
        BY <2>1, <2>2, <3>1
    <2>3. ASSUME NEW batch \in Seq(Points), run' = [run EXCEPT !.stored = @ \o batch]
          PROVE  /\ run' \in StoredRuns /\ run'.status = run.status /\ run'.alias = run.alias
                 /\ \E more \in SUBSET Points : Range(run'.stored) = Range(run.stored) \cup more
      <3>1. batch \in Seq(Metrics \cup Points) /\ Range(batch) \in SUBSET Points
        BY DEF Range
      <3>2. /\ run' \in StoredRuns /\ run'.status = run.status /\ run'.alias = run.alias
            /\ Range(run'.stored) = Range(run.stored) \cup Range(batch)
        BY <2>1, <2>3, <3>1, RunStores
      <3> QED
        BY <3>1, <3>2
    <2> QED
      BY <2>2, <2>3
  <1>2. /\ faults' \in Seq(FaultNames)
        /\ Range(faults') = Range(faults) \/ Range(faults') = Range(faults) \cup {"rtcp"}
    BY FaultAdds DEF SetupShape, FaultNames
  <1>3. SetupShape'
    BY <1>1, <1>2 DEF SetupShape
  <1>4. AttemptsInv'
    BY AttemptsStay
  <1>5. RunInv'
    <2>1. "connected" \in Range(faults') <=> "connected" \in Range(faults)
      BY <1>2
    <2> QED
      BY <1>1, <2>1, TriedTells DEF RunInv
  <1>6. OpenInv'
    BY TriedTells DEF OpenInv
  <1>7. MetricsInv'
    <2>1. PICK more \in SUBSET Points : Range(run'.stored) = Range(run.stored) \cup more
      BY <1>1
    <2>2. \A x \in more : MetricIsTrue(x)
      BY DEF Points, MetricIsTrue
    <2>3. \A x \in Range(run'.stored) : MetricIsTrue(x)'
      BY <2>1, <2>2, TriedTells DEF MetricsInv
    <2>4. TellsAll(run.stored)'
      <3>1. TellsAll(run'.stored)
        BY <2>1, MoreTells DEF MetricsInv
      <3> QED
        BY <3>1, TriedTells DEF TellsAll
    <2>5. \A x \in Range(observer') : MetricIsTrue(x)'
      BY TriedTells DEF MetricsInv
    <2> QED
      BY <2>3, <2>4, <2>5 DEF MetricsInv
  <1> QED
    BY <1>3, <1>4, <1>5, <1>6, <1>7

(* A point of the collector. *)
LEMMA PointFacts ==
  ASSUME SetupShape, NEW stats \in Stats,
         NEW name \in {"rtcp_connected", "rtcp_events", "rtcp_failures"}
  PROVE  /\ Point(name, stats) \in Points
         /\ rtcp.pending \in Seq(Points) /\ rtcp.thread \in Seq(Points)
         /\ collector.ts \in Nat /\ collector.collected \in 0..MaxEvents
         /\ NoStats \in Stats
  <1>1. rtcp.pending \in Seq(Points) /\ rtcp.thread \in Seq(Points)
    BY DEF SetupShape, Queues
  <1>2. collector.ts \in Nat /\ collector.collected \in 0..MaxEvents
    BY DEF SetupShape, Collectors
  <1>3. collector.ts + 1 \in Nat
    BY <1>2
  <1>4. Point(name, stats) \in Points
    BY <1>3 DEF Point, Points
  <1> QED
    BY <1>1, <1>2, <1>4 DEF Stats

(* What the collector's observing keeps. *)
LEMMA ObserveKeepsShape ==
  ASSUME SetupShape, NEW stats \in Stats,
         NEW name \in {"rtcp_connected", "rtcp_events", "rtcp_failures"},
         NEW pc \in {"flushing", "reporting"}, NEW collected \in 0..MaxEvents,
         ObserveAndFlush(name, stats, pc, collected)
  PROVE  collector' \in Collectors /\ rtcp' \in Queues
  <1>1. PICK x \in Points : x = Point(name, stats)
    BY PointFacts
  <1>2. PICK p \in Seq(Points) : p = rtcp.pending
    BY PointFacts
  <1>3. PICK n \in Nat : n = collector.ts
    BY PointFacts
  <1>4. Append(p, x) \in Seq(Points) /\ <<>> \in Seq(Points)
    BY <1>1, <1>2
  <1>5. /\ collector' = [pc |-> pc, ts |-> n + 1, collected |-> collected]
        /\ rtcp' = [pending |-> <<>>, thread |-> Append(p, x)]
    BY <1>1, <1>2, <1>3 DEF ObserveAndFlush
  <1> QED
    BY <1>4, <1>5 DEF Collectors, Queues

(* The collector connects, collects, fails and ends. *)
LEMMA AmiKeepsInv ==
  ASSUME SetupInv, AmiLogsIn \/ AmiEvent \/ AmiEnds \/ AmiResets
  PROVE  SetupInv'
  <1>1. /\ UNCHANGED <<setup, tried, waits, open, observer, call, run, faults>>
        /\ collector.pc \in {"connect", "events"}
    BY DEF AmiLogsIn, AmiEvent, AmiEnds, AmiResets
  <1>2. SetupShape /\ setup.pc = "session"
    BY <1>1 DEF SetupInv, RunInv
  <1>3. NoStats \in Stats /\ collector.collected \in 0..MaxEvents /\ 0 \in 0..MaxEvents
        /\ MaxEvents \in Nat
    BY <1>2, SetupAssumption DEF Stats, SetupShape, Collectors
  <1>4. CollectorError => collector' \in Collectors /\ rtcp' \in Queues
    BY <1>2, <1>3, ObserveKeepsShape DEF CollectorError
  <1>5. CASE AmiLogsIn
    <2>1. collector' \in Collectors /\ rtcp' \in Queues
      BY <1>2, <1>3, <1>4, <1>5, ObserveKeepsShape DEF AmiLogsIn
    <2> QED
      BY <1>1, <1>2, <2>1, CollectorStepKeepsInv
  <1>6. CASE AmiEvent
    <2>1. collector' \in Collectors /\ rtcp' \in Queues
      <3>1. CASE CollectorError
        BY <1>4, <3>1
      <3>2. ASSUME NEW event \in RtcpEvents, ~InvalidReport(event),
                   ObserveAndFlush("rtcp_events", RtcpEventToStats(event), "flushing",
                                   collector.collected + 1)
            PROVE  collector' \in Collectors /\ rtcp' \in Queues
        <4>1. RtcpEventToStats(event) \in Stats
          BY <3>2 DEF Stats
        <4>2. collector.collected + 1 \in 0..MaxEvents
          BY <1>3, <1>6 DEF AmiEvent
        <4> QED
          BY <1>2, <3>2, <4>1, <4>2, ObserveKeepsShape
      <3> QED
        BY <1>6, <3>1, <3>2 DEF AmiEvent
    <2> QED
      BY <1>1, <1>2, <2>1, CollectorStepKeepsInv
  <1>7. CASE AmiEnds
    BY <1>1, <1>2, <1>4, <1>7, CollectorStepKeepsInv DEF AmiEnds
  <1>8. CASE AmiResets
    <2>1. collector' \in Collectors /\ rtcp' \in Queues
      BY <1>2, <1>8 DEF AmiResets, SetupShape, Collectors
    <2> QED
      BY <1>1, <1>2, <2>1, CollectorStepKeepsInv
  <1> QED
    BY <1>5, <1>6, <1>7, <1>8

(* A flush of the collector's observer returns or raises, also after the
   collector was cancelled and after the run has ended. *)
LEMMA ThreadFlushedKeepsInv ==
  ASSUME SetupInv, ThreadFlushed
  PROVE  SetupInv'
  <1>1. UNCHANGED <<setup, tried, waits, open, observer, call>> /\ rtcp.thread # <<>>
    BY DEF ThreadFlushed
  <1>2. SetupShape /\ setup.pc = "session"
    BY <1>1 DEF SetupInv, RunInv
  <1>3. PICK p \in Seq(Points) : p = rtcp.pending
    BY <1>2 DEF SetupShape, Queues
  <1>4. PICK t \in Seq(Points) : t = rtcp.thread
    BY <1>2 DEF SetupShape, Queues
  <1>5. t \o p \in Seq(Points) /\ <<>> \in Seq(Points)
    BY <1>3, <1>4
  <1>6. RestoredRtcp(TRUE) = p /\ RestoredRtcp(FALSE) = t \o p
    BY <1>3, <1>4 DEF RestoredRtcp
  <1>7. \A delivered \in BOOLEAN : RestoredRtcp(delivered) \in Seq(Points)
    BY <1>5, <1>6
  <1>8. PICK x \in Points : x = Point("rtcp_failures", NoStats)
    BY <1>2, PointFacts DEF Stats
  <1>9. Append(t \o p, x) \in Seq(Points)
    BY <1>5
  <1>10. rtcp' \in Queues
    <2>1. \/ \E delivered \in BOOLEAN :
               rtcp' = [pending |-> RestoredRtcp(delivered), thread |-> <<>>]
          \/ rtcp' = [pending |-> <<>>, thread |-> Append(t \o p, x)]
      BY <1>6, <1>8 DEF ThreadFlushed
    <2> QED
      <3>1. ASSUME NEW delivered \in BOOLEAN,
                   rtcp' = [pending |-> RestoredRtcp(delivered), thread |-> <<>>]
            PROVE  rtcp' \in Queues
        <4>1. RestoredRtcp(delivered) \in Seq(Points)
          BY <1>7
        <4> QED
          BY <1>5, <3>1, <4>1 DEF Queues
      <3>2. CASE rtcp' = [pending |-> <<>>, thread |-> Append(t \o p, x)]
        BY <1>5, <1>9, <3>2 DEF Queues
      <3> QED
        BY <2>1, <3>1, <3>2
  <1>11. collector' \in Collectors
    <2>1. /\ collector \in Collectors
          /\ \/ collector' = [collector EXCEPT !.pc = "events"]
             \/ collector' = [collector EXCEPT !.pc = "reporting", !.ts = @ + 1]
             \/ collector' = collector
             \/ collector' = [collector EXCEPT !.pc = "ended"]
      BY <1>2 DEF ThreadFlushed, SetupShape
    <2>2. collector.ts \in Nat /\ collector.ts + 1 \in Nat
      BY <2>1 DEF Collectors
    <2>3. CASE collector' = [collector EXCEPT !.pc = "reporting", !.ts = @ + 1]
      BY <2>1, <2>2, <2>3 DEF Collectors
    <2>4. CASE \/ collector' = [collector EXCEPT !.pc = "events"]
               \/ collector' = collector
               \/ collector' = [collector EXCEPT !.pc = "ended"]
      BY <2>1, <2>4 DEF Collectors
    <2> QED
      BY <2>1, <2>3, <2>4
  <1>12. run' = run \/ (\E batch \in Seq(Points) : run' = [run EXCEPT !.stored = @ \o batch])
    <2>1. run' = run \/ run' = [run EXCEPT !.stored = @ \o rtcp.thread]
      BY DEF ThreadFlushed, Store
    <2> QED
      BY <1>4, <2>1
  <1>13. faults' = faults \/ Fault("rtcp")
    BY DEF ThreadFlushed
  <1> QED
    BY <1>1, <1>2, <1>10, <1>11, <1>12, <1>13, CollectorStepKeepsInv

(* No error in the middle of a call is shown as one of the connection. *)
LEMMA CallAliasesAreOthers ==
  "provider-connect-error" \notin CallAliases
  BY DEF CallAliases, SessionErrorAlias

(* The call is over: its session is closed, and its collector cancelled unless a
   failed flush is raised first. *)
LEMMA CloseBeginsKeepsInv ==
  ASSUME SetupInv, CloseBegins
  PROVE  SetupInv'
  <1> USE DEF SetupInv
  <1>1. /\ call.pc = "active" /\ open' = open - 1
        /\ UNCHANGED <<setup, tried, waits, observer, rtcp, run>>
    BY DEF CloseBegins, SessionClosed
  <1>2. call' \in Calls /\ call'.pc \in {"closing", "closed"}
    BY DEF CloseBegins, Calls
  <1>3. collector' \in Collectors
    BY DEF CloseBegins, SetupShape, Collectors
  <1>4. setup.pc = "session" /\ HasConnected
    BY <1>1 DEF RunInv, AttemptsInv
  <1>5. /\ Cardinality(Unconfigured) \in Nat
        /\ open = Cardinality(Unconfigured) + 1 /\ open <= Len(tried)
    <2>1. IsFiniteSet(Unconfigured)
      <3>1. PICK n \in Nat : n = Len(tried)
        BY ShapeFacts
      <3>2. IsFiniteSet(1..n)
        BY FS_Interval
      <3>3. Unconfigured \subseteq 1..n
        BY <3>1, ShapeFacts DEF Unconfigured
      <3> QED
        BY <3>2, <3>3, FS_Subset
    <2> QED
      BY <1>1, <1>4, <2>1, FS_CardinalityType DEF OpenInv
  <1>5a. /\ faults' \in Seq(FaultNames)
         /\ "connected" \in Range(faults') <=> "connected" \in Range(faults)
    <2>1. CASE faults' = faults
      BY <2>1 DEF SetupShape
    <2>2. CASE Fault("close")
      BY <2>2, FaultAdds DEF FaultNames
    <2> QED
      BY <2>1, <2>2 DEF CloseBegins
  <1>6. SetupShape'
    <2>1. open' \in Nat
      BY <1>1, <1>5
    <2> QED
      BY <1>1, <1>2, <1>3, <1>5a, <2>1 DEF SetupShape
  <1>7. AttemptsInv'
    BY <1>1, AttemptsStay
  <1>8. RunInv'
    BY <1>1, <1>2, <1>4, <1>5a, TriedTells DEF RunInv
  <1>9. OpenInv'
    <2>1. /\ open' = Cardinality(Unconfigured) /\ open' <= Len(tried)
          /\ Cardinality(Unconfigured) \in Nat
      BY <1>1, <1>5, ShapeFacts
    <2> QED
      BY <1>1, <1>2, <2>1, TriedTells DEF OpenInv
  <1>10. MetricsInv'
    BY <1>1, TriedTells DEF MetricsInv, Named
  <1> QED
    BY <1>6, <1>7, <1>8, <1>9, <1>10

(* The run ends, or cannot be ended. *)
LEMMA CloseEndsRunKeepsInv ==
  ASSUME SetupInv, CloseEndsRun
  PROVE  SetupInv'
  <1> USE DEF SetupInv
  <1>1. /\ call.pc = "closing" /\ call' = [call EXCEPT !.pc = "closed"]
        /\ UNCHANGED <<setup, tried, waits, open, observer, collector, rtcp>>
    BY DEF CloseEndsRun
  <1>2. /\ run \in StoredRuns /\ call \in Calls /\ call.alias \in CallAliases
        /\ setup.pc = "session" /\ run.status = "running"
    BY <1>1 DEF SetupShape, RunInv, Calls
  <1>3. call' \in Calls /\ call'.pc = "closed"
    BY <1>1, <1>2 DEF Calls
  <1>4. PICK status \in {"completed", "failed"} :
          /\ run' = run \/ run' = [run EXCEPT !.status = status, !.alias = call.alias]
          /\ faults' = faults \/ Fault("close")
    <2>1. PICK status : status = (IF call.alias = "none" THEN "completed" ELSE "failed")
      OBVIOUS
    <2>2. status \in {"completed", "failed"}
      BY <2>1
    <2>3. /\ run' = run \/ run' = [run EXCEPT !.status = status, !.alias = call.alias]
          /\ faults' = faults \/ Fault("close")
      BY <1>2, <2>1 DEF CloseEndsRun, EndRun
    <2> QED
      BY <2>2, <2>3
  <1>5. /\ run' \in StoredRuns /\ run'.stored = run.stored
        /\ run'.alias # "provider-connect-error"
    <2>1. run.alias # "provider-connect-error"
      BY <1>2 DEF RunInv
    <2>2. CASE run' = run
      BY <1>2, <2>1, <2>2
    <2>3. CASE run' = [run EXCEPT !.status = status, !.alias = call.alias]
      <3>1. call.alias \in RunAliases /\ call.alias # "provider-connect-error"
        BY <1>2, CallAliasesAreOthers DEF RunAliases
      <3> QED
        BY <1>2, <1>4, <2>3, <3>1 DEF StoredRuns
    <2> QED
      BY <1>4, <2>2, <2>3
  <1>6. /\ faults' \in Seq(FaultNames)
        /\ "connected" \in Range(faults') <=> "connected" \in Range(faults)
    <2>1. CASE faults' = faults
      BY <2>1 DEF SetupShape
    <2>2. CASE Fault("close")
      BY <2>2, FaultAdds DEF FaultNames
    <2> QED
      BY <1>4, <2>1, <2>2
  <1>7. SetupShape'
    BY <1>1, <1>3, <1>5, <1>6 DEF SetupShape
  <1>8. AttemptsInv'
    BY <1>1, AttemptsStay
  <1>9. RunInv'
    BY <1>1, <1>2, <1>3, <1>5, <1>6, TriedTells DEF RunInv
  <1>10. OpenInv'
    BY <1>1, <1>3, TriedTells DEF OpenInv
  <1>11. MetricsInv'
    BY <1>1, <1>2, <1>5, TriedTells DEF MetricsInv, Named
  <1> QED
    BY <1>7, <1>8, <1>9, <1>10, <1>11

-----------------------------------------------------------------------------
(* What the live view shows *)

(* latest_host_metrics: the newest metric of a name is one of that name. *)
LEMMA LatestIsStored ==
  ASSUME SetupShape, NEW name
  PROVE  /\ ~Named(run.stored, name) => LatestValue(name) = 0
         /\ Named(run.stored, name) =>
              \E x \in Range(run.stored) : x.name = name /\ LatestValue(name) = x.value
  <1>1. PICK s \in Seq(Metrics \cup Points) : s = run.stored
    BY ShapeFacts
  <1>2. PICK n \in Nat : n = Len(s)
    OBVIOUS
  <1>3. PICK named : named = {i \in DOMAIN s : s[i].name = name}
    OBVIOUS
  <1>4. named \subseteq 0..n /\ DOMAIN s = 1..n
    BY <1>1, <1>2, <1>3
  <1>5. LatestValue(name) = IF named = {} THEN 0 ELSE s[Max(named)].value
    BY <1>1, <1>3 DEF LatestValue
  <1>6. Named(s, name) <=> named # {}
    BY <1>3 DEF Named, Range
  <1>7. ASSUME named # {}
        PROVE  \E x \in Range(s) : x.name = name /\ LatestValue(name) = x.value
    <2>1. PICK m \in named : \A i \in named : i <= m
      BY <1>4, <1>7, LargestMember
    <2>2. \A i \in named : m >= i
      BY <1>4, <2>1
    <2>3. Max(named) \in named
      BY <2>1, <2>2, Zenon DEF Max
    <2>4. PICK i \in named : i = Max(named)
      BY <2>3
    <2>5. i \in DOMAIN s /\ s[i].name = name /\ s[i] \in Range(s)
      BY <1>3, <2>4 DEF Range
    <2> QED
      BY <1>5, <1>7, <2>4, <2>5
  <1> QED
    BY <1>1, <1>5, <1>6, <1>7

(* What the stored metrics say, once they are there. *)
LEMMA LatestIsTrue ==
  ASSUME SetupInv
  PROVE  /\ LatestValue("exhausted") \in {0, 1}
         /\ LatestValue("exhausted") = 1 => Len(tried) = Attempts /\ NeverConnected
         /\ TellsAll(run.stored) =>
              /\ LatestValue("attempts") = Len(tried)
              /\ HasConnected => LatestValue("failures") = Len(tried) - 1
              /\ ~HasConnected => LatestValue("exhausted") = 1
         /\ ~TellsAll(run.stored) => LatestValue("attempts") = 0
  <1>1. /\ SetupShape /\ \A x \in Range(run.stored) : MetricIsTrue(x)
        /\ Named(run.stored, "attempts") => TellsAll(run.stored)
    BY DEF SetupInv, MetricsInv
  <1>2. Len(tried) \in Nat
    BY <1>1, ShapeFacts
  <1>3. Named(run.stored, "exhausted") =>
          LatestValue("exhausted") = 1 /\ Len(tried) = Attempts /\ NeverConnected
    BY <1>1, LatestIsStored DEF MetricIsTrue
  <1>4. ~Named(run.stored, "exhausted") => LatestValue("exhausted") = 0
    BY <1>1, LatestIsStored
  <1>5. /\ Named(run.stored, "attempts") => LatestValue("attempts") = Len(tried)
        /\ ~Named(run.stored, "attempts") => LatestValue("attempts") = 0
    BY <1>1, LatestIsStored DEF MetricIsTrue
  <1>6. ASSUME TellsAll(run.stored), HasConnected
        PROVE  LatestValue("failures") = Len(tried) - 1
    <2>1. CASE Named(run.stored, "failures")
      <3>1. PICK x \in Range(run.stored) :
              x.name = "failures" /\ LatestValue("failures") = x.value
        BY <1>1, <2>1, LatestIsStored
      <3>2. MetricIsTrue(x)
        BY <1>1
      <3> QED
        BY <1>6, <3>1, <3>2 DEF MetricIsTrue
    <2>2. CASE ~Named(run.stored, "failures")
      <3>1. LatestValue("failures") = 0
        BY <1>1, <2>2, LatestIsStored
      <3>2. Len(tried) > 0 /\ ~(Len(tried) > 1)
        BY <1>6, <2>2 DEF TellsAll, HasConnected
      <3> QED
        BY <1>2, <3>1, <3>2
    <2> QED
      BY <2>1, <2>2
  <1> QED
    BY <1>1, <1>3, <1>4, <1>5, <1>6 DEF TellsAll

(* provider_connection_status of a run in provider mode. *)
LEMMA StatusIsTrue ==
  ASSUME SetupInv
  PROVE  ConnectionStatusIsTrue
  <1>1. PICK n \in Nat : n = Len(tried) /\ DOMAIN tried = 1..n
    BY ShapeFacts DEF SetupInv
  <1>2. Attempts \in Nat \ {0}
    BY SetupAssumption
  <1>3. Last(tried) = tried[n]
    BY <1>1 DEF Last
  <1>4. NeverConnected /\ n > 0 => Last(tried) # "connected"
    BY <1>1, <1>3 DEF NeverConnected
  <1>5. HasConnected <=> n > 0 /\ Last(tried) = "connected"
    BY <1>1, <1>3 DEF HasConnected
  <1>6. Exhausted => n = Attempts /\ NeverConnected
    <2>1. run.alias = "provider-connect-error" => n = Attempts /\ NeverConnected
      BY <1>1 DEF SetupInv, RunInv
    <2>2. LatestValue("exhausted") > 0 => n = Attempts /\ NeverConnected
      BY <1>1, LatestIsTrue
    <2> QED
      BY <2>1, <2>2 DEF Exhausted
  <1>7. ProviderConnectionStatus = "exhausted" => Exhausted
    BY DEF ProviderConnectionStatus
  <1>8. ProviderConnectionStatus = "connected" <=> ~Exhausted /\ LatestValue("attempts") > 0
    BY DEF ProviderConnectionStatus
  <1>9. ASSUME ~Exhausted, LatestValue("attempts") > 0
        PROVE  /\ Last(tried) = "connected" /\ LatestValue("attempts") = Len(tried)
               /\ LatestValue("failures") = Len(tried) - 1
    <2>1. TellsAll(run.stored)
      BY <1>9, LatestIsTrue
    <2>2. HasConnected
      BY <1>9, <2>1, LatestIsTrue DEF Exhausted
    <2> QED
      BY <1>5, <2>1, <2>2, LatestIsTrue
  <1>10. ASSUME call.pc # "none"
         PROVE  ~Exhausted /\ LatestValue("attempts") > 0
    <2>1. setup.pc = "session" /\ HasConnected /\ TellsAll(run.stored)
      BY <1>10 DEF SetupInv, RunInv, AttemptsInv, MetricsInv
    <2>2. n > 0 /\ ~NeverConnected
      BY <1>4, <1>5, <2>1
    <2> QED
      BY <1>1, <1>6, <2>1, <2>2, LatestIsTrue
  <1> QED
    BY <1>1, <1>2, <1>4, <1>6, <1>7, <1>8, <1>9, <1>10 DEF ConnectionStatusIsTrue

(* The loss of an accepted event is a fraction of 256, or absent. *)
LEMMA LossIsInRange ==
  ASSUME NEW stats \in Stats
  PROVE  stats.loss \in Absent..255
  <1>1. CASE stats = NoStats
    BY <1>1 DEF NoStats, Absent
  <1>2. ASSUME NEW e \in RtcpEvents, ~InvalidReport(e), stats = RtcpEventToStats(e)
        PROVE  stats.loss \in Absent..255
    <2>1. PICK S : S = ReportsOf(e, "lost")
      OBVIOUS
    <2>2. \A f \in S : f \in 0..255
      BY <1>2, <2>1 DEF InvalidReport
    <2>3. stats.loss = Largest(S)
      BY <1>2, <2>1 DEF RtcpEventToStats
    <2>4. CASE S = {}
      BY <2>3, <2>4 DEF Largest, Absent
    <2>5. CASE S # {}
      <3>1. \E x \in S : \A y \in S : y <= x
        BY <2>2, <2>5, LargestMember, ZenonT(30)
      <3>2. Largest(S) \in S
        BY <2>5, <3>1, Zenon DEF Largest
      <3>3. PICK f \in 0..255 : f = Largest(S)
        BY <2>2, <3>2
      <3> QED
        BY <2>3, <3>3 DEF Absent
    <2> QED
      BY <2>4, <2>5
  <1> QED
    BY <1>1, <1>2 DEF Stats

(* The invariant says what the run checks. *)
LEMMA SetupInvImplies ==
  ASSUME SetupInv
  PROVE  ConnectionInv
  <1> USE DEF SetupInv
  <1>1. /\ Attempts \in Nat \ {0} /\ Len(tried) \in Nat /\ DOMAIN tried = 1..Len(tried)
        /\ Len(waits) \in Nat /\ DOMAIN waits = 1..Len(waits)
    BY ShapeFacts
  <1>2. SetupTypeOK
    <2>1. setup \in Setups /\ collector \in Collectors /\ call \in Calls /\ run \in StoredRuns
          /\ open \in Nat
      BY DEF SetupShape
    <2>2. Len(tried) <= Attempts /\ open <= Len(tried)
      BY DEF AttemptsInv, OpenInv
    <2>3. open \in 0..Attempts
      BY <1>1, <2>1, <2>2
    <2>4. {rtcp.thread[i].stats.loss : i \in DOMAIN rtcp.thread} \subseteq Absent..255
      <3>1. rtcp.thread \in Seq(Points)
        BY DEF SetupShape, Queues
      <3>2. ASSUME NEW i \in DOMAIN rtcp.thread
            PROVE  rtcp.thread[i].stats.loss \in Absent..255
        <4>1. rtcp.thread[i] \in Points
          BY <3>1
        <4>2. rtcp.thread[i].stats \in Stats
          BY <4>1 DEF Points
        <4> QED
          BY <4>2, LossIsInRange
      <3> QED
        BY <3>2
    <2>5. /\ setup.pc \in {"start", "connect", "backoff", "exhausted", "failing", "flush",
                           "session", "raised"}
          /\ setup.attempt \in 0..Attempts
      BY <2>1 DEF Setups
    <2>6. /\ collector.pc \in {"off", "connect", "flushing", "events", "reporting",
                               "ended", "broken", "cancelled"}
          /\ collector.collected \in 0..MaxEvents
      BY <2>1 DEF Collectors
    <2>7. /\ call.pc \in {"none", "active", "closing", "closed"}
          /\ run.status \in {"none", "running", "completed", "failed"}
      BY <2>1 DEF Calls, StoredRuns
    <2> QED
      BY <2>2, <2>3, <2>4, <2>5, <2>6, <2>7 DEF SetupTypeOK
  <1>3. RetriesAreBounded
    <2>0. Len(waits) < Attempts /\ \A i \in DOMAIN waits : waits[i] = Backoff(i)
      BY DEF AttemptsInv
    <2>1. \A i \in DOMAIN waits : waits[i] = Backoff(i) /\ i \in 1..Attempts
      BY <1>1, <2>0
    <2>2. \A i \in DOMAIN waits : waits[i] <= MaxBackoff
      BY <2>1, BackoffIsBounded
    <2>3. ASSUME NEW i \in DOMAIN waits, NEW j \in DOMAIN waits, i <= j
          PROVE  waits[i] <= waits[j]
      BY <2>1, <2>3, BackoffIsBounded
    <2>4. setup.pc \in {"exhausted", "failing", "flush", "session"} =>
            /\ Len(waits) = Len(tried) - 1
            /\ setup.pc \in {"exhausted", "failing"} => Len(tried) = Attempts
            /\ \A i \in DOMAIN tried : tried[i] = "connected" => i = Len(tried)
      BY DEF AttemptsInv
    <2> QED
      BY <2>2, <2>3, <2>4 DEF RetriesAreBounded
  <1>4. ConnectionStatusIsTrue
    BY StatusIsTrue
  <1>5. ExhaustedFailsRun
    <2> SUFFICES ASSUME setup.pc = "raised", Len(tried) = Attempts,
                        Range(faults) \subseteq {"exhausted"}
                 PROVE  run.status = "failed" /\ run.alias = "provider-connect-error"
      BY DEF ExhaustedFailsRun
    <2>1. "connected" \notin Range(faults) /\ "fail" \notin Range(faults)
      OBVIOUS
    <2>2. ~HasConnected
      BY <2>1 DEF RunInv
    <2>3. NeverConnected
      BY <1>1, <2>2 DEF AttemptsInv
    <2> QED
      BY <2>1, <2>3 DEF RunInv
  <1>6. LeftOpenOnlyByFailure
    <2> SUFFICES ASSUME setup.pc = "raised" \/ call.pc \in {"closing", "closed"}
                 PROVE  open = Cardinality(Unconfigured)
                                 + (IF "connected" \in Range(faults) THEN 1 ELSE 0)
      BY DEF LeftOpenOnlyByFailure, Unconfigured
    <2>1. CASE setup.pc = "raised"
      <3>1. call.pc = "none" /\ ("connected" \in Range(faults) <=> HasConnected)
        BY <2>1 DEF RunInv
      <3> QED
        BY <3>1 DEF OpenInv
    <2>2. CASE call.pc \in {"closing", "closed"}
      <3>1. setup.pc = "session" /\ "connected" \notin Range(faults)
        BY <2>2 DEF RunInv
      <3> QED
        BY <2>2, <3>1 DEF OpenInv
    <2> QED
      BY <2>1, <2>2
  <1> QED
    BY <1>2, <1>3, <1>4, <1>5, <1>6 DEF ConnectionInv

(* Every step keeps the invariant. *)
LEMMA SetupStepKeepsInv == SetupInv /\ [SetupNext]_setupVars => SetupInv'
  <1> SUFFICES ASSUME SetupInv, [SetupNext]_setupVars PROVE SetupInv'
    OBVIOUS
  <1>1. CASE StartRun \/ ConnectSucceeds \/ ConnectFails \/ BackoffOver
    BY <1>1, StartRunKeepsInv, ConnectSucceedsKeepsInv, ConnectFailsKeepsInv,
       BackoffOverKeepsInv
  <1>2. CASE ReportExhausted \/ FailExhausted \/ FlushConnected
    BY <1>2, ReportExhaustedKeepsInv, FailExhaustedKeepsInv, FlushConnectedKeepsInv
  <1>3. CASE AmiLogsIn \/ AmiEvent \/ AmiEnds \/ AmiResets
    BY <1>3, AmiKeepsInv
  <1>4. CASE ThreadFlushed \/ CloseBegins \/ CloseEndsRun
    BY <1>4, ThreadFlushedKeepsInv, CloseBeginsKeepsInv, CloseEndsRunKeepsInv
  <1>5. CASE UNCHANGED setupVars
    <2>1. UNCHANGED <<setup, tried, waits, open, observer, collector, rtcp, call, run,
                      faults>>
      BY <1>5 DEF setupVars
    <2> QED
      BY <2>1 DEF SetupInv, SetupShape, AttemptsInv, RunInv, OpenInv, MetricsInv,
         HasConnected, NeverConnected, Unconfigured, MetricIsTrue, TellsAll, Named
  <1> QED
    BY <1>1, <1>2, <1>3, <1>4, <1>5 DEF SetupNext

(* Whatever the attempts, the control plane, the collector and the call do, the
   run shows of the connection what happened, a run without a connection fails,
   and connections are left open only by what could not be sent. *)
THEOREM ConnectionsAreTrue == SetupSpec => []ConnectionInv
  <1>1. SetupInit => SetupInv
    BY InitSetup
  <1>2. SetupInv => ConnectionInv
    BY SetupInvImplies
  <1> QED
    BY <1>1, <1>2, SetupStepKeepsInv, PTL DEF SetupSpec

-----------------------------------------------------------------------------
(* The collector *)

(* Every point that the collector has observed, wherever it is. *)
Observed ==
  Range(rtcp.pending) \cup Range(rtcp.thread) \cup {x \in Range(run.stored) : OfCollector(x)}

(* The events among them that wait, and all of them. *)
WaitingTimes == EventTimes(rtcp.pending) \cup EventTimes(rtcp.thread)
ObservedTimes == WaitingTimes \cup EventTimes(run.stored)

(* A list that waits for its flush: one point, and behind it the failure of an
   earlier flush. *)
Waiting(s) ==
  Len(s) <= 2 /\ (Len(s) = 2 => s[2].name = "rtcp_failures")

(* The collector observes only when no flush is left to be done. *)
QueueInv ==
  /\ Waiting(rtcp.pending) /\ Waiting(rtcp.thread)
  /\ rtcp.pending = <<>> \/ rtcp.thread = <<>>
  /\ collector.pc \in {"off", "connect", "events", "broken"} =>
       rtcp.pending = <<>> /\ rtcp.thread = <<>>
  /\ collector.pc = "flushing" => Len(rtcp.thread) = 1
  /\ collector.pc = "ended" => rtcp.thread = <<>>

(* Points are numbered, and each event has one. *)
PointsInv ==
  /\ \A x \in Observed : x.ts <= collector.ts
  /\ Cardinality(ObservedTimes) = collector.collected
  /\ collector.pc \in {"off", "connect"} => Observed = {}

(* The failure of the collector is its last point, and not there before. *)
FailureInv ==
  /\ collector.pc \in {"off", "connect", "flushing", "events", "broken"} =>
       \A x \in Observed : x.name # "rtcp_failures"
  /\ collector.pc \in {"reporting", "ended"} =>
       /\ \E x \in Observed : x.name = "rtcp_failures" /\ x.ts = collector.ts
       /\ \A x \in Observed : x.ts = collector.ts => x.name = "rtcp_failures"

(* What a failed flush may have stored twice. *)
Failures == {i \in DOMAIN faults : faults[i] = "rtcp"}

RepeatsInv ==
  Cardinality(EventsIn(run.stored))
      + (IF WaitingTimes \cap EventTimes(run.stored) = {} THEN 0 ELSE 1)
    <= Cardinality(EventTimes(run.stored)) + Cardinality(Failures)

(* Until a flush fails what is stored is in order, and before what waits. *)
OrderInv ==
  Failures = {} =>
    /\ \A i, j \in EventsIn(run.stored) : i < j => run.stored[i].ts < run.stored[j].ts
    /\ \A i \in EventsIn(run.stored) : \A t \in WaitingTimes : run.stored[i].ts < t

CollectInv == QueueInv /\ PointsInv /\ FailureInv /\ RepeatsInv /\ OrderInv

(* What lists of observations count. *)
LEMMA EventsAreFinite ==
  ASSUME NEW s \in Seq(Metrics \cup Points)
  PROVE  /\ EventsIn(s) \subseteq 1..Len(s)
         /\ IsFiniteSet(EventsIn(s)) /\ Cardinality(EventsIn(s)) \in Nat
         /\ IsFiniteSet(EventTimes(s)) /\ Cardinality(EventTimes(s)) \in Nat
         /\ EventTimes(s) = {x.ts : x \in {y \in Range(s) : y.name = "rtcp_events"}}
  <1>1. PICK n \in Nat : n = Len(s) /\ DOMAIN s = 1..n
    OBVIOUS
  <1>2. IsFiniteSet(1..n) /\ EventsIn(s) \subseteq 1..n
    BY <1>1, FS_Interval DEF EventsIn
  <1>3. IsFiniteSet(EventsIn(s)) /\ Cardinality(EventsIn(s)) \in Nat
    BY <1>2, FS_Subset, FS_CardinalityType
  <1>4. PICK f : f = [i \in EventsIn(s) |-> s[i].ts]
    OBVIOUS
  <1>5. EventTimes(s) = {f[i] : i \in EventsIn(s)} /\ DOMAIN f = EventsIn(s)
    BY <1>4 DEF EventTimes
  <1>6. IsFiniteSet(EventTimes(s)) /\ Cardinality(EventTimes(s)) \in Nat
    <2>1. f \in Surjection(EventsIn(s), EventTimes(s))
      BY <1>4, <1>5 DEF Surjection
    <2>2. IsFiniteSet(EventTimes(s))
      BY <1>3, <2>1, FS_Surjection
    <2> QED
      BY <2>2, FS_CardinalityType
  <1>7. EventTimes(s) = {x.ts : x \in {y \in Range(s) : y.name = "rtcp_events"}}
    BY DEF EventTimes, EventsIn, Range
  <1> QED
    BY <1>1, <1>2, <1>3, <1>6, <1>7

(* The events of a list that waits: the first point, or none. *)
LEMMA WaitingEvents ==
  ASSUME NEW t \in Seq(Points), Waiting(t)
  PROVE  /\ t = <<>> => EventTimes(t) = {}
         /\ t # <<>> => EventTimes(t) = IF t[1].name = "rtcp_events" THEN {t[1].ts} ELSE {}
  <1>1. PICK n \in Nat : n = Len(t) /\ DOMAIN t = 1..n /\ n <= 2
    BY DEF Waiting
  <1>2. t = <<>> => EventTimes(t) = {}
    BY DEF EventTimes, EventsIn
  <1>3. ASSUME t # <<>>
        PROVE  EventTimes(t) = IF t[1].name = "rtcp_events" THEN {t[1].ts} ELSE {}
    <2>1. n > 0
      BY <1>1, <1>3
    <2>2. EventsIn(t) = IF t[1].name = "rtcp_events" THEN {1} ELSE {}
      <3>1. ASSUME NEW i \in 1..n, i # 1 PROVE t[i].name # "rtcp_events"
        <4>1. i = 2 /\ n = 2
          BY <1>1, <3>1
        <4> QED
          BY <1>1, <4>1 DEF Waiting
      <3> QED
        BY <1>1, <2>1, <3>1 DEF EventsIn
    <2> QED
      BY <2>2 DEF EventTimes
  <1> QED
    BY <1>2, <1>3

(* A list u that a flush has made of s: with at most one event more, at its end. *)
Flushed(s, t, u) ==
  /\ u \in Seq(Metrics \cup Points) /\ Range(u) = Range(s) \cup Range(t)
  /\ \A i \in EventsIn(s) : i <= Len(s) /\ u[i] = s[i]
  /\ u[Len(s) + 1] = t[1]
  /\ EventsIn(u) = IF t[1].name = "rtcp_events" THEN EventsIn(s) \cup {Len(s) + 1}
                   ELSE EventsIn(s)
  /\ EventTimes(u) = EventTimes(s) \cup EventTimes(t)

LEMMA StoreEvents ==
  ASSUME NEW s \in Seq(Metrics \cup Points), NEW t \in Seq(Points), Waiting(t), t # <<>>
  PROVE  Flushed(s, t, s \o t)
  <1>u. PICK u : u = s \o t
    OBVIOUS
  <1>n. PICK n \in Nat : n = Len(s)
    OBVIOUS
  <1>1. PICK m \in Nat : m = Len(t) /\ m > 0 /\ m <= 2 /\ DOMAIN t = 1..m
    BY DEF Waiting
  <1>2. DOMAIN s = 1..n
    BY <1>n
  <1>3. t \in Seq(Metrics \cup Points)
    OBVIOUS
  <1>4. u \in Seq(Metrics \cup Points) /\ Range(u) = Range(s) \cup Range(t)
    BY <1>u, <1>3, ConcatElements
  <1>5. /\ Len(u) = n + m /\ DOMAIN u = 1..(n + m)
        /\ \A i \in 1..n : u[i] = s[i]
        /\ \A i \in 1..m : u[n + i] = t[i]
    <2>1. Len(u) = Len(s) + Len(t)
      BY <1>u, <1>3
    <2>2. DOMAIN u = 1..Len(u)
      BY <1>4
    <2>3. \A i \in 1..Len(s) : u[i] = s[i]
      BY <1>u, <1>3
    <2>4. \A i \in 1..Len(t) : u[Len(s) + i] = t[i]
      BY <1>u, <1>3
    <2> QED
      BY <1>n, <1>1, <2>1, <2>2, <2>3, <2>4
  <1>6. u[n + 1] = t[1] /\ 1 \in 1..m
    BY <1>1, <1>5
  <1>7. m = 2 => t[2].name = "rtcp_failures" /\ u[n + 2] = t[2]
    BY <1>1, <1>5 DEF Waiting
  <1>8. 1..(n + m) = 1..n \cup {n + 1} \cup (IF m = 2 THEN {n + 2} ELSE {})
    <2>1. CASE m = 1
      <3>1. 1..(n + 1) = 1..n \cup {n + 1}
        OBVIOUS
      <3> QED
        BY <2>1, <3>1
    <2>2. CASE m = 2
      <3>1. 1..(n + 2) = 1..n \cup {n + 1} \cup {n + 2}
        OBVIOUS
      <3> QED
        BY <2>2, <3>1
    <2> QED
      BY <1>1, <2>1, <2>2
  <1>9. EventsIn(u) = IF t[1].name = "rtcp_events" THEN EventsIn(s) \cup {n + 1}
                      ELSE EventsIn(s)
    <2>1. EventsIn(u) = {i \in 1..n : u[i].name = "rtcp_events"}
                          \cup {i \in {n + 1} : u[i].name = "rtcp_events"}
                          \cup {i \in (IF m = 2 THEN {n + 2} ELSE {}) : u[i].name = "rtcp_events"}
      BY <1>5, <1>8 DEF EventsIn
    <2>2. {i \in 1..n : u[i].name = "rtcp_events"} = EventsIn(s)
      BY <1>2, <1>5 DEF EventsIn
    <2>3. {i \in {n + 1} : u[i].name = "rtcp_events"} =
            IF t[1].name = "rtcp_events" THEN {n + 1} ELSE {}
      BY <1>6
    <2>4. {i \in (IF m = 2 THEN {n + 2} ELSE {}) : u[i].name = "rtcp_events"} = {}
      BY <1>7
    <2> QED
      BY <2>1, <2>2, <2>3, <2>4
  <1>10. \A i \in EventsIn(s) : i <= n /\ u[i] = s[i]
    BY <1>2, <1>5 DEF EventsIn
  <1>11. EventTimes(u) = EventTimes(s) \cup EventTimes(t)
    BY <1>3, <1>4, EventsAreFinite
  <1> QED
    BY <1>u, <1>n, <1>4, <1>6, <1>9, <1>10, <1>11 DEF Flushed

(* Failed flushes are counted. *)
LEMMA FailuresCount ==
  ASSUME SetupShape
  PROVE  /\ IsFiniteSet(Failures) /\ Cardinality(Failures) \in Nat
         /\ Failures = {} <=> Cardinality(Failures) = 0
         /\ \A what \in FaultNames : Fault(what) =>
              /\ what # "rtcp" => Failures' = Failures
              /\ what = "rtcp" => /\ Failures' # {}
                                  /\ Cardinality(Failures') = Cardinality(Failures) + 1
  <1>1. PICK n \in Nat : n = Len(faults) /\ DOMAIN faults = 1..n
    BY DEF SetupShape
  <1>2. IsFiniteSet(Failures) /\ Failures \subseteq 1..n
    <2>1. IsFiniteSet(1..n) /\ Failures \subseteq 1..n
      BY <1>1, FS_Interval DEF Failures
    <2> QED
      BY <2>1, FS_Subset
  <1>3. Cardinality(Failures) \in Nat /\ (Failures = {} <=> Cardinality(Failures) = 0)
    BY <1>2, FS_CardinalityType, FS_EmptySet
  <1>4. ASSUME NEW what \in FaultNames, Fault(what)
        PROVE  /\ what # "rtcp" => Failures' = Failures
               /\ what = "rtcp" => /\ Failures' # {}
                                   /\ Cardinality(Failures') = Cardinality(Failures) + 1
    <2>1. /\ DOMAIN faults' = 1..(n + 1) /\ faults'[n + 1] = what
          /\ \A i \in 1..n : faults'[i] = faults[i]
      BY <1>1, <1>4, AppendElements DEF SetupShape, Fault
    <2>2. 1..(n + 1) = 1..n \cup {n + 1} /\ n + 1 \notin 1..n
      OBVIOUS
    <2>3. Failures' = IF what = "rtcp" THEN Failures \cup {n + 1} ELSE Failures
      BY <1>1, <2>1, <2>2 DEF Failures
    <2>4. Cardinality(Failures \cup {n + 1}) = Cardinality(Failures) + 1
      BY <1>2, <2>2, FS_AddElement
    <2> QED
      BY <2>3, <2>4
  <1> QED
    BY <1>2, <1>3, <1>4

(* Times of events: numbered points, and finitely many. *)
LEMMA TimesAreBounded ==
  ASSUME SetupShape
  PROVE  /\ IsFiniteSet(WaitingTimes) /\ IsFiniteSet(EventTimes(run.stored))
         /\ IsFiniteSet(ObservedTimes) /\ Cardinality(ObservedTimes) \in Nat
         /\ ObservedTimes = {x.ts : x \in {y \in Observed : y.name = "rtcp_events"}}
         /\ rtcp.pending \in Seq(Points) /\ rtcp.thread \in Seq(Points)
         /\ run.stored \in Seq(Metrics \cup Points)
         /\ collector.ts \in Nat /\ \A x \in Observed : x \in Points
  <1>1. PICK p \in Seq(Points) : p = rtcp.pending
    BY DEF SetupShape, Queues
  <1>2. PICK t \in Seq(Points) : t = rtcp.thread
    BY DEF SetupShape, Queues
  <1>3. PICK s \in Seq(Metrics \cup Points) : s = run.stored
    BY ShapeFacts
  <1>4. p \in Seq(Metrics \cup Points) /\ t \in Seq(Metrics \cup Points)
    OBVIOUS
  <1>5. /\ IsFiniteSet(EventTimes(p)) /\ IsFiniteSet(EventTimes(t))
        /\ IsFiniteSet(EventTimes(s))
    BY <1>4, EventsAreFinite
  <1>6. IsFiniteSet(WaitingTimes) /\ IsFiniteSet(ObservedTimes)
    <2>1. WaitingTimes = EventTimes(p) \cup EventTimes(t)
      BY <1>1, <1>2 DEF WaitingTimes
    <2>2. IsFiniteSet(WaitingTimes)
      BY <1>5, <2>1, FS_Union
    <2>3. ObservedTimes = WaitingTimes \cup EventTimes(s)
      BY <1>3 DEF ObservedTimes
    <2> QED
      BY <1>5, <2>2, <2>3, FS_Union
  <1>7. ObservedTimes = {x.ts : x \in {y \in Observed : y.name = "rtcp_events"}}
    <2>1. \A q \in {p, t, s} :
            EventTimes(q) = {x.ts : x \in {y \in Range(q) : y.name = "rtcp_events"}}
      BY <1>4, EventsAreFinite
    <2>2. Observed = Range(p) \cup Range(t) \cup {x \in Range(s) : OfCollector(x)}
      BY <1>1, <1>2, <1>3 DEF Observed
    <2>3. ObservedTimes = EventTimes(p) \cup EventTimes(t) \cup EventTimes(s)
      BY <1>1, <1>2, <1>3 DEF ObservedTimes, WaitingTimes
    <2> QED
      BY <2>1, <2>2, <2>3 DEF OfCollector
  <1>8. \A x \in Observed : x \in Points
    <2>1. \A x \in Range(p) \cup Range(t) : x \in Points
      BY DEF Range
    <2>2. \A x \in Range(s) : OfCollector(x) => x \in Points
      <3>1. \A x \in Range(s) : x \in Metrics \cup Points
        BY DEF Range
      <3> QED
        BY <3>1 DEF OfCollector, Metrics
    <2> QED
      BY <1>1, <1>2, <1>3, <2>1, <2>2 DEF Observed
  <1>9. collector.ts \in Nat
    BY DEF SetupShape, Collectors
  <1> QED
    BY <1>1, <1>2, <1>3, <1>5, <1>6, <1>7, <1>8, <1>9, FS_CardinalityType

(* Before the collector has observed anything. *)
Quiet ==
  /\ SetupShape
  /\ collector.pc \in {"off", "connect"} /\ collector.collected = 0
  /\ rtcp.pending = <<>> /\ rtcp.thread = <<>>
  /\ \A x \in Range(run.stored) : ~OfCollector(x)

LEMMA QuietIsInv == Quiet => CollectInv
  <1> SUFFICES ASSUME Quiet PROVE CollectInv
    OBVIOUS
  <1>1. Observed = {}
    BY DEF Quiet, Observed, Range
  <1>2. ObservedTimes = {} /\ EventTimes(run.stored) = {} /\ WaitingTimes = {}
    BY <1>1, TimesAreBounded DEF Quiet, ObservedTimes
  <1>3. EventsIn(run.stored) = {}
    BY <1>2 DEF EventTimes
  <1>4. Cardinality(Failures) \in Nat /\ Cardinality({}) = 0
    BY FailuresCount, FS_EmptySet DEF Quiet
  <1>5. QueueInv
    BY DEF Quiet, QueueInv, Waiting
  <1>6. PointsInv
    BY <1>1, <1>2, <1>4 DEF Quiet, PointsInv
  <1>7. FailureInv
    BY <1>1 DEF Quiet, FailureInv
  <1>8. RepeatsInv
    BY <1>2, <1>3, <1>4 DEF RepeatsInv
  <1>9. OrderInv
    BY <1>3 DEF OrderInv
  <1> QED
    BY <1>5, <1>6, <1>7, <1>8, <1>9 DEF CollectInv

LEMMA QuietStaysInv == Quiet' => CollectInv'
  BY QuietIsInv, PTL

(* create_session and connect_with_retry store metrics of their own only. *)
LEMMA SetupKeepsCollectInv ==
  ASSUME SetupInv, CollectInv, SetupInv',
         \/ StartRun \/ ConnectSucceeds \/ ConnectFails \/ BackoffOver
         \/ ReportExhausted \/ FailExhausted \/ FlushConnected
  PROVE  CollectInv'
  <1>1. /\ setup.pc # "session" /\ rtcp' = rtcp
        /\ collector' = collector \/ collector' = [collector EXCEPT !.pc = "connect"]
    BY DEF StartRun, ConnectSucceeds, ConnectFails, BackoffOver, ReportExhausted,
       FailExhausted, FlushConnected
  <1>2. /\ run \in StoredRuns /\ observer \in Seq(Metrics) /\ collector \in Collectors
        /\ collector.pc = "off" /\ rtcp.pending = <<>> /\ rtcp.thread = <<>>
    BY <1>1 DEF SetupInv, SetupShape, RunInv, CollectInv, QueueInv
  <1>3. Observed = {} /\ collector.collected = 0
    <2>1. Observed = {} /\ Cardinality(ObservedTimes) = collector.collected
      BY <1>2 DEF CollectInv, PointsInv
    <2>2. ObservedTimes = {}
      BY <2>1, TimesAreBounded DEF SetupInv
    <2> QED
      BY <2>1, <2>2, FS_EmptySet
  <1>4. \A x \in Range(observer) : ~OfCollector(x)
    <2>1. \A x \in Range(observer) : x \in Metrics
      BY <1>2 DEF Range
    <2> QED
      BY <2>1 DEF Metrics, OfCollector
  <1>5. Range(run'.stored) \subseteq Range(run.stored) \cup Range(observer)
    <2>1. \/ run' = run
          \/ run' = [run EXCEPT !.status = "running"]
          \/ run' = [run EXCEPT !.status = "failed", !.alias = "provider-connect-error"]
          \/ run' = [run EXCEPT !.stored = @ \o observer]
      BY DEF StartRun, ConnectSucceeds, ConnectFails, BackoffOver, ReportExhausted,
         FailExhausted, FlushConnected, FlushObserver, Store, EndRun
    <2>2. CASE run' = [run EXCEPT !.stored = @ \o observer]
      <3>1. observer \in Seq(Metrics \cup Points)
        BY <1>2
      <3> QED
        BY <1>2, <2>2, <3>1, RunStores
    <2>3. CASE \/ run' = [run EXCEPT !.status = "running"]
               \/ run' = [run EXCEPT !.status = "failed", !.alias = "provider-connect-error"]
      <3>1. run'.stored = run.stored
        BY <1>2, <2>3 DEF StoredRuns
      <3> QED
        BY <3>1
    <2> QED
      BY <2>1, <2>2, <2>3
  <1>6. Quiet'
    <2>1. /\ collector'.pc \in {"off", "connect"} /\ collector'.collected = 0
          /\ rtcp'.pending = <<>> /\ rtcp'.thread = <<>>
      BY <1>1, <1>2, <1>3 DEF Collectors
    <2>2. \A x \in Range(run.stored) : ~OfCollector(x)
      BY <1>3 DEF Observed
    <2>3. \A x \in Range(run'.stored) : ~OfCollector(x)
      BY <1>4, <1>5, <2>2
    <2> QED
      BY <2>1, <2>3 DEF Quiet, SetupInv
  <1> QED
    BY <1>6, QuietStaysInv

(* A reset and a cancellation leave the points where they are. *)
LEMMA StoppingKeepsCollectInv ==
  ASSUME SetupInv, CollectInv,
         AmiResets \/ CloseBegins \/ CloseEndsRun \/ UNCHANGED setupVars
  PROVE  CollectInv'
  <1>1. run \in StoredRuns /\ collector \in Collectors /\ call \in Calls /\ SetupShape
    BY DEF SetupInv, SetupShape
  <1>2. run'.stored = run.stored
    <2>1. CASE AmiResets \/ CloseBegins \/ UNCHANGED setupVars
      BY <2>1 DEF AmiResets, CloseBegins, setupVars
    <2>2. CASE CloseEndsRun
      BY <1>1, <2>2 DEF CloseEndsRun, EndRun, StoredRuns
    <2> QED
      BY <2>1, <2>2
  <1>3. /\ rtcp' = rtcp
        /\ \/ collector' = collector
           \/ collector' = [collector EXCEPT !.pc = "cancelled"]
           \/ /\ collector' = [collector EXCEPT !.pc = "broken"]
              /\ collector.pc \in {"connect", "events"}
    BY DEF AmiResets, CloseBegins, CloseEndsRun, setupVars
  <1>4. /\ collector'.ts = collector.ts /\ collector'.collected = collector.collected
        /\ \/ collector'.pc = collector.pc
           \/ collector'.pc = "cancelled"
           \/ collector'.pc = "broken" /\ collector.pc \in {"connect", "events"}
    BY <1>1, <1>3 DEF Collectors
  <1>5. Failures' = Failures
    <2>1. "close" \in FaultNames
      BY DEF FaultNames
    <2>2. faults' = faults \/ Fault("close")
      BY DEF AmiResets, CloseBegins, CloseEndsRun, setupVars
    <2>3. CASE faults' = faults
      BY <2>3 DEF Failures
    <2> QED
      BY <1>1, <2>1, <2>2, <2>3, FailuresCount
  <1>6. /\ Observed' = Observed /\ WaitingTimes' = WaitingTimes
        /\ ObservedTimes' = ObservedTimes
    BY <1>2, <1>3 DEF Observed, WaitingTimes, ObservedTimes
  <1>7. QueueInv'
    BY <1>3, <1>4 DEF CollectInv, QueueInv
  <1>8. PointsInv'
    BY <1>4, <1>6 DEF CollectInv, PointsInv
  <1>9. FailureInv'
    BY <1>4, <1>6 DEF CollectInv, FailureInv
  <1>10. RepeatsInv'
    BY <1>2, <1>5, <1>6 DEF CollectInv, RepeatsInv
  <1>11. OrderInv'
    BY <1>2, <1>5, <1>6 DEF CollectInv, OrderInv
  <1> QED
    BY <1>7, <1>8, <1>9, <1>10, <1>11 DEF CollectInv

(* The collector observes: a new point, alone in the thread. *)
LEMMA ObserveKeepsCollectInv ==
  ASSUME SetupInv, CollectInv, collector.pc \in {"connect", "events"}, UNCHANGED <<run, faults>>,
         NEW stats \in Stats, NEW name, NEW pc, NEW collected,
         ObserveAndFlush(name, stats, pc, collected),
         \/ name = "rtcp_connected" /\ pc = "flushing" /\ collected = collector.collected
         \/ name = "rtcp_failures" /\ pc = "reporting" /\ collected = collector.collected
         \/ name = "rtcp_events" /\ pc = "flushing" /\ collected = collector.collected + 1
  PROVE  CollectInv'
  <1>1. SetupShape /\ rtcp.pending = <<>> /\ rtcp.thread = <<>>
    BY DEF SetupInv, CollectInv, QueueInv
  <1>2. PICK n \in Nat : n = collector.ts
    BY <1>1, TimesAreBounded
  <1>3. PICK x \in Points : x = Point(name, stats)
    BY <1>1, PointFacts
  <1>4. x.name = name /\ x.ts = n + 1
    BY <1>2, <1>3 DEF Point
  <1>5. PICK t : t = <<x>>
    OBVIOUS
  <1>6. t \in Seq(Points) /\ Len(t) = 1 /\ t[1] = x /\ t # <<>> /\ Range(t) = {x}
    <2>1. t \in Seq(Points) /\ Len(t) = 1 /\ t[1] = x /\ t # <<>>
      BY <1>5
    <2> QED
      BY <1>5, <2>1, ShortLists
  <1>7. /\ collector'.pc = pc /\ collector'.ts = n + 1 /\ collector'.collected = collected
        /\ rtcp'.pending = <<>> /\ rtcp'.thread = t
    <2>1. Append(<<>>, x) = t
      BY <1>5
    <2> QED
      BY <1>1, <1>2, <1>3, <2>1 DEF ObserveAndFlush
  <1>8. EventTimes(t) = (IF name = "rtcp_events" THEN {n + 1} ELSE {}) /\ EventTimes(<<>>) = {}
    <2>1. Waiting(t) /\ Waiting(<<>>) /\ <<>> \in Seq(Points)
      BY <1>6 DEF Waiting
    <2> QED
      BY <1>4, <1>6, <2>1, WaitingEvents
  <1>9. Observed' = Observed \cup {x}
    <2>1. Range(<<>>) = {}
      BY DEF Range
    <2> QED
      BY <1>1, <1>6, <1>7, <2>1 DEF Observed
  <1>10. /\ WaitingTimes = {} /\ WaitingTimes' = EventTimes(t)
         /\ ObservedTimes = EventTimes(run.stored)
         /\ ObservedTimes' = ObservedTimes \cup EventTimes(t)
    BY <1>1, <1>7, <1>8 DEF WaitingTimes, ObservedTimes
  <1>11. /\ \A y \in Observed : y.ts \in Nat /\ y.ts <= n
         /\ \A y \in ObservedTimes : y \in Nat /\ y <= n
    <2>1. \A y \in Observed : y.ts \in Nat /\ y.ts <= n
      BY <1>1, <1>2, TimesAreBounded DEF CollectInv, PointsInv, Points
    <2> QED
      BY <1>1, <2>1, TimesAreBounded
  <1>12. Failures' = Failures
    BY DEF Failures
  <1>13. QueueInv'
    <2>1. Waiting(t) /\ Waiting(<<>>)
      BY <1>6 DEF Waiting
    <2>2. pc \in {"flushing", "reporting"}
      OBVIOUS
    <2> QED
      BY <1>6, <1>7, <2>1, <2>2 DEF QueueInv
  <1>14. PointsInv'
    <2>1. \A y \in Observed' : y.ts <= collector'.ts
      BY <1>4, <1>7, <1>9, <1>11
    <2>2. IsFiniteSet(ObservedTimes) /\ Cardinality(ObservedTimes) = collector.collected
      BY <1>1, TimesAreBounded DEF CollectInv, PointsInv
    <2>3. n + 1 \notin ObservedTimes
      BY <1>11
    <2>4. Cardinality(ObservedTimes') = collected
      <3>1. CASE name = "rtcp_events"
        <4>1. ObservedTimes' = ObservedTimes \cup {n + 1}
          BY <1>8, <1>10, <3>1
        <4>2. Cardinality(ObservedTimes \cup {n + 1}) = Cardinality(ObservedTimes) + 1
          BY <2>2, <2>3, FS_AddElement
        <4> QED
          BY <2>2, <3>1, <4>1, <4>2
      <3>2. CASE name # "rtcp_events"
        BY <1>8, <1>10, <2>2, <3>2
      <3> QED
        BY <3>1, <3>2
    <2> QED
      BY <1>7, <2>1, <2>4 DEF PointsInv
  <1>15. FailureInv'
    <2>1. \A y \in Observed : y.name # "rtcp_failures" /\ y.ts # n + 1
      BY <1>11 DEF CollectInv, FailureInv
    <2> QED
      BY <1>4, <1>7, <1>9, <2>1 DEF FailureInv
  <1>16. RepeatsInv'
    <2>1. /\ WaitingTimes' \cap EventTimes(run.stored) = {}
          /\ WaitingTimes \cap EventTimes(run.stored) = {}
      BY <1>8, <1>10, <1>11
    <2> QED
      BY <1>12, <2>1 DEF CollectInv, RepeatsInv
  <1>17. OrderInv'
    <2>1. \A i \in EventsIn(run.stored) : \A k \in WaitingTimes' : run.stored[i].ts < k
      <3>1. \A i \in EventsIn(run.stored) :
              run.stored[i].ts \in Nat /\ run.stored[i].ts <= n
        <4>1. \A i \in EventsIn(run.stored) : run.stored[i].ts \in EventTimes(run.stored)
          BY DEF EventTimes
        <4> QED
          BY <1>10, <1>11, <4>1
      <3> QED
        BY <1>8, <1>10, <3>1
    <2> QED
      BY <1>12, <2>1 DEF CollectInv, OrderInv
  <1> QED
    BY <1>13, <1>14, <1>15, <1>16, <1>17 DEF CollectInv

(* What the AMI sends, or how it ends. *)
LEMMA AmiKeepsCollectInv ==
  ASSUME SetupInv, CollectInv, AmiLogsIn \/ AmiEvent \/ AmiEnds
  PROVE  CollectInv'
  <1>1. collector.pc \in {"connect", "events"} /\ UNCHANGED <<run, faults>>
    BY DEF AmiLogsIn, AmiEvent, AmiEnds
  <1>2. NoStats \in Stats
    BY DEF Stats
  <1>3. CASE CollectorError
    BY <1>1, <1>2, <1>3, ObserveKeepsCollectInv DEF CollectorError
  <1>4. CASE AmiLogsIn /\ ~CollectorError
    <2>1. ObserveAndFlush("rtcp_connected", NoStats, "flushing", 0) /\ collector.pc = "connect"
      BY <1>4 DEF AmiLogsIn
    <2>2. Observed = {} /\ Cardinality(ObservedTimes) = collector.collected
      BY <2>1 DEF CollectInv, PointsInv
    <2>3. ObservedTimes = {}
      BY <2>2, TimesAreBounded DEF SetupInv
    <2>4. collector.collected = 0
      BY <2>2, <2>3, FS_EmptySet
    <2> QED
      BY <1>1, <1>2, <2>1, <2>4, ObserveKeepsCollectInv
  <1>5. CASE AmiEvent /\ ~CollectorError
    <2>1. PICK event \in RtcpEvents :
            /\ ~InvalidReport(event)
            /\ ObserveAndFlush("rtcp_events", RtcpEventToStats(event), "flushing",
                               collector.collected + 1)
      BY <1>5 DEF AmiEvent
    <2>2. RtcpEventToStats(event) \in Stats
      BY <2>1 DEF Stats
    <2> QED
      BY <1>1, <2>1, <2>2, ObserveKeepsCollectInv
  <1> QED
    BY <1>3, <1>4, <1>5 DEF AmiEnds

(* What a flush adds to the counts: as much to both, unless it repeats. *)
LEMMA StoreCounts ==
  ASSUME NEW s \in Seq(Metrics \cup Points), NEW t \in Seq(Points), Waiting(t), t # <<>>,
         NEW u, u = s \o t, NEW f \in Nat,
         Cardinality(EventsIn(s)) + (IF EventTimes(t) \cap EventTimes(s) = {} THEN 0 ELSE 1)
           <= Cardinality(EventTimes(s)) + f
  PROVE  /\ Cardinality(EventsIn(u)) <= Cardinality(EventTimes(u)) + f
         /\ Cardinality(EventsIn(u))
                + (IF EventTimes(t) \cap EventTimes(u) = {} THEN 0 ELSE 1)
              <= Cardinality(EventTimes(u)) + (f + 1)
  <1>1. PICK n \in Nat : n = Len(s)
    OBVIOUS
  <1>2. /\ EventsIn(u) = IF t[1].name = "rtcp_events" THEN EventsIn(s) \cup {n + 1}
                         ELSE EventsIn(s)
        /\ EventTimes(u) = EventTimes(s) \cup EventTimes(t)
    BY <1>1, StoreEvents DEF Flushed
  <1>3. EventTimes(t) = IF t[1].name = "rtcp_events" THEN {t[1].ts} ELSE {}
    BY WaitingEvents
  <1>4. PICK e \in Nat : e = Cardinality(EventsIn(s))
    BY EventsAreFinite
  <1>5. PICK k \in Nat : k = Cardinality(EventTimes(s))
    BY EventsAreFinite
  <1>6. IsFiniteSet(EventsIn(s)) /\ IsFiniteSet(EventTimes(s)) /\ EventsIn(s) \subseteq 1..n
    BY <1>1, EventsAreFinite
  <1>7. CASE t[1].name # "rtcp_events"
    <2>1. EventsIn(u) = EventsIn(s) /\ EventTimes(u) = EventTimes(s) /\ EventTimes(t) = {}
      BY <1>2, <1>3, <1>7
    <2>2. EventTimes(t) \cap EventTimes(s) = {} /\ EventTimes(t) \cap EventTimes(u) = {}
      BY <2>1
    <2>3. e <= k + f
      BY <1>4, <1>5, <2>2
    <2> QED
      BY <1>4, <1>5, <2>1, <2>2, <2>3
  <1>8. CASE t[1].name = "rtcp_events"
    <2>1. Cardinality(EventsIn(u)) = e + 1
      <3>1. EventsIn(u) = EventsIn(s) \cup {n + 1} /\ n + 1 \notin EventsIn(s)
        BY <1>2, <1>6, <1>8
      <3>2. Cardinality(EventsIn(s) \cup {n + 1}) = Cardinality(EventsIn(s)) + 1
        BY <1>6, <3>1, FS_AddElement
      <3> QED
        BY <1>4, <3>1, <3>2
    <2>2. PICK a : a = t[1].ts
      OBVIOUS
    <2>3. EventTimes(u) = EventTimes(s) \cup {a} /\ EventTimes(t) = {a}
      BY <1>2, <1>3, <1>8, <2>2
    <2>4. /\ a \in EventTimes(s) => Cardinality(EventTimes(s) \cup {a}) = k
          /\ a \notin EventTimes(s) => Cardinality(EventTimes(s) \cup {a}) = k + 1
      BY <1>5, <1>6, FS_AddElement
    <2>5. CASE a \in EventTimes(s)
      <3>1. EventTimes(t) \cap EventTimes(s) # {} /\ EventTimes(t) \cap EventTimes(u) # {}
        BY <2>3, <2>5
      <3>2. e + 1 <= k + f
        BY <1>4, <1>5, <3>1
      <3>3. Cardinality(EventTimes(u)) = k
        BY <2>3, <2>4, <2>5
      <3> QED
        BY <2>1, <3>1, <3>2, <3>3
    <2>6. CASE a \notin EventTimes(s)
      <3>1. EventTimes(t) \cap EventTimes(s) = {} /\ EventTimes(t) \cap EventTimes(u) # {}
        BY <2>3, <2>6
      <3>2. e <= k + f
        BY <1>4, <1>5, <3>1
      <3>3. Cardinality(EventTimes(u)) = k + 1
        BY <2>3, <2>4, <2>6
      <3> QED
        BY <2>1, <3>1, <3>2, <3>3
    <2> QED
      BY <2>5, <2>6
  <1> QED
    BY <1>7, <1>8

(* What the thread of a flush leaves behind. *)
ThreadLeft(delivered, x, t, s, n) ==
  /\ x.name = "rtcp_failures" /\ x.ts = n + 1
  /\ \/ delivered /\ run'.stored = s \o t /\ Failures' = Failures
     \/ ~delivered /\ run'.stored = s /\ Failures' = Failures
     \/ /\ ~delivered /\ (run'.stored = s \/ run'.stored = s \o t)
        /\ Failures' # {} /\ Cardinality(Failures') = Cardinality(Failures) + 1
  /\ collector'.collected = collector.collected
  /\ \/ /\ collector.pc = "flushing" /\ delivered
        /\ collector'.pc = "events" /\ collector'.ts = n
        /\ rtcp'.pending = <<>> /\ rtcp'.thread = <<>>
     \/ /\ collector.pc = "flushing" /\ ~delivered
        /\ collector'.pc = "reporting" /\ collector'.ts = n + 1
        /\ rtcp'.pending = <<>> /\ rtcp'.thread = Append(t, x)
     \/ /\ collector.pc \in {"reporting", "cancelled"}
        /\ collector'.pc = (IF collector.pc = "cancelled" THEN "cancelled" ELSE "ended")
        /\ collector'.ts = n
        /\ rtcp'.pending = (IF delivered THEN <<>> ELSE t) /\ rtcp'.thread = <<>>

LEMMA ThreadLeaves ==
  ASSUME SetupInv, CollectInv, ThreadFlushed
  PROVE  \E delivered \in BOOLEAN, x \in Points :
           ThreadLeft(delivered, x, rtcp.thread, run.stored, collector.ts)
  <1>t. PICK t : t = rtcp.thread
    OBVIOUS
  <1>s. PICK s : s = run.stored
    OBVIOUS
  <1>n. PICK n : n = collector.ts
    OBVIOUS
  <1>1. /\ SetupShape /\ run \in StoredRuns /\ collector \in Collectors
        /\ t \in Seq(Points) /\ t # <<>> /\ rtcp.pending = <<>> /\ n \in Nat
    BY <1>t, <1>n, TimesAreBounded
    DEF SetupInv, SetupShape, CollectInv, QueueInv, ThreadFlushed
  <1>2. collector.pc \in {"flushing", "reporting", "cancelled"}
    BY <1>t, <1>1 DEF CollectInv, QueueInv, Collectors
  <1>3. RestoredRtcp(TRUE) = <<>> /\ RestoredRtcp(FALSE) = t
    <2>1. t \o <<>> = t
      BY <1>1
    <2> QED
      BY <1>t, <1>1, <2>1 DEF RestoredRtcp
  <1>4. PICK x \in Points : x = Point("rtcp_failures", NoStats)
    BY <1>1, PointFacts DEF Stats
  <1>5. x.name = "rtcp_failures" /\ x.ts = n + 1
    BY <1>n, <1>4 DEF Point
  <1>6. PICK delivered \in BOOLEAN :
          /\ \/ delivered /\ run' = [run EXCEPT !.stored = @ \o t] /\ faults' = faults
             \/ ~delivered /\ run' = run /\ faults' = faults
             \/ /\ ~delivered /\ Fault("rtcp")
                /\ run' = run \/ run' = [run EXCEPT !.stored = @ \o t]
          /\ \/ /\ collector.pc = "flushing" /\ delivered
                /\ collector' = [collector EXCEPT !.pc = "events"]
                /\ rtcp' = [pending |-> RestoredRtcp(TRUE), thread |-> <<>>]
             \/ /\ collector.pc = "flushing" /\ ~delivered
                /\ collector' = [collector EXCEPT !.pc = "reporting", !.ts = @ + 1]
                /\ rtcp' = [pending |-> <<>>, thread |-> Append(RestoredRtcp(FALSE), x)]
             \/ /\ collector.pc # "flushing"
                /\ collector' = IF collector.pc = "cancelled" THEN collector
                                ELSE [collector EXCEPT !.pc = "ended"]
                /\ rtcp' = [pending |-> RestoredRtcp(delivered), thread |-> <<>>]
    BY <1>t, <1>4, Zenon DEF ThreadFlushed, Store
  <1>8. \/ delivered /\ run'.stored = s \o t /\ Failures' = Failures
        \/ ~delivered /\ run'.stored = s /\ Failures' = Failures
        \/ /\ ~delivered /\ (run'.stored = s \/ run'.stored = s \o t)
           /\ Failures' # {} /\ Cardinality(Failures') = Cardinality(Failures) + 1
    <2>1. run' = [run EXCEPT !.stored = @ \o t] => run'.stored = s \o t
      BY <1>s, <1>1 DEF StoredRuns
    <2>2. faults' = faults => Failures' = Failures
      BY DEF Failures
    <2>3. Fault("rtcp") =>
            Failures' # {} /\ Cardinality(Failures') = Cardinality(Failures) + 1
      BY <1>1, FailuresCount DEF FaultNames
    <2> QED
      BY <1>s, <1>6, <2>1, <2>2, <2>3
  <1>9. collector'.collected = collector.collected
    BY <1>1, <1>6 DEF Collectors
  <1>10. \/ /\ collector.pc = "flushing" /\ delivered
            /\ collector'.pc = "events" /\ collector'.ts = n
            /\ rtcp'.pending = <<>> /\ rtcp'.thread = <<>>
         \/ /\ collector.pc = "flushing" /\ ~delivered
            /\ collector'.pc = "reporting" /\ collector'.ts = n + 1
            /\ rtcp'.pending = <<>> /\ rtcp'.thread = Append(t, x)
         \/ /\ collector.pc \in {"reporting", "cancelled"}
            /\ collector'.pc = (IF collector.pc = "cancelled" THEN "cancelled" ELSE "ended")
            /\ collector'.ts = n
            /\ rtcp'.pending = (IF delivered THEN <<>> ELSE t) /\ rtcp'.thread = <<>>
    <2>1. CASE collector.pc = "flushing" /\ delivered
      <3>1. /\ collector' = [collector EXCEPT !.pc = "events"]
            /\ rtcp' = [pending |-> RestoredRtcp(TRUE), thread |-> <<>>]
        BY <1>6, <2>1, Zenon
      <3>2. collector'.pc = "events" /\ collector'.ts = n
        BY <1>n, <1>1, <3>1 DEF Collectors
      <3> QED
        BY <1>3, <2>1, <3>1, <3>2
    <2>2. CASE collector.pc = "flushing" /\ ~delivered
      <3>1. /\ collector' = [collector EXCEPT !.pc = "reporting", !.ts = @ + 1]
            /\ rtcp' = [pending |-> <<>>, thread |-> Append(RestoredRtcp(FALSE), x)]
        BY <1>6, <2>2, Zenon
      <3>2. collector'.pc = "reporting" /\ collector'.ts = n + 1
        BY <1>n, <1>1, <3>1 DEF Collectors
      <3> QED
        BY <1>3, <2>2, <3>1, <3>2
    <2>3. CASE collector.pc \in {"reporting", "cancelled"}
      <3>0. /\ collector' = IF collector.pc = "cancelled" THEN collector
                             ELSE [collector EXCEPT !.pc = "ended"]
            /\ rtcp' = [pending |-> RestoredRtcp(delivered), thread |-> <<>>]
        <4>1. collector.pc # "flushing"
          BY <2>3
        <4> QED
          BY <1>6, <4>1, Zenon
      <3>1. rtcp'.pending = RestoredRtcp(delivered) /\ rtcp'.thread = <<>>
        BY <3>0
      <3>2. RestoredRtcp(delivered) = IF delivered THEN <<>> ELSE t
        BY <1>3
      <3>3. /\ collector'.pc = (IF collector.pc = "cancelled" THEN "cancelled" ELSE "ended")
            /\ collector'.ts = n
        BY <1>n, <1>1, <2>3, <3>0 DEF Collectors
      <3> QED
        BY <2>3, <3>1, <3>2, <3>3
    <2> QED
      BY <1>2, <2>1, <2>2, <2>3
  <1> QED
    <2>1. ThreadLeft(delivered, x, t, s, n)
      BY <1>5, <1>8, <1>9, <1>10 DEF ThreadLeft
    <2> QED
      BY <1>t, <1>s, <1>n, <2>1

(* A flush that returns or raises loses nothing of what it carried. *)
LEMMA ThreadKeepsCollectInv ==
  ASSUME SetupInv, CollectInv, ThreadFlushed
  PROVE  CollectInv'
  <1>1. PICK t \in Seq(Points) : t = rtcp.thread
    BY TimesAreBounded DEF SetupInv
  <1>2. PICK s \in Seq(Metrics \cup Points) : s = run.stored
    BY TimesAreBounded DEF SetupInv
  <1>3. PICK n \in Nat : n = collector.ts
    BY TimesAreBounded DEF SetupInv
  <1>4. PICK delivered \in BOOLEAN, x \in Points :
          /\ x.name = "rtcp_failures" /\ x.ts = n + 1
          /\ \/ delivered /\ run'.stored = s \o t /\ Failures' = Failures
             \/ ~delivered /\ run'.stored = s /\ Failures' = Failures
             \/ /\ ~delivered /\ (run'.stored = s \/ run'.stored = s \o t)
                /\ Failures' # {} /\ Cardinality(Failures') = Cardinality(Failures) + 1
          /\ collector'.collected = collector.collected
          /\ \/ /\ collector.pc = "flushing" /\ delivered
                /\ collector'.pc = "events" /\ collector'.ts = n
                /\ rtcp'.pending = <<>> /\ rtcp'.thread = <<>>
             \/ /\ collector.pc = "flushing" /\ ~delivered
                /\ collector'.pc = "reporting" /\ collector'.ts = n + 1
                /\ rtcp'.pending = <<>> /\ rtcp'.thread = Append(t, x)
             \/ /\ collector.pc \in {"reporting", "cancelled"}
                /\ collector'.pc = (IF collector.pc = "cancelled" THEN "cancelled" ELSE "ended")
                /\ collector'.ts = n
                /\ rtcp'.pending = (IF delivered THEN <<>> ELSE t) /\ rtcp'.thread = <<>>
    <2>1. PICK delivered \in BOOLEAN, x \in Points :
            ThreadLeft(delivered, x, rtcp.thread, run.stored, collector.ts)
      BY ThreadLeaves
    <2>2. ThreadLeft(delivered, x, t, s, n)
      BY <1>1, <1>2, <1>3, <2>1
    <2> QED
      BY <2>2, Zenon DEF ThreadLeft
  <1>5. /\ t # <<>> /\ Waiting(t) /\ rtcp.pending = <<>>
        /\ collector.pc = "flushing" => Len(t) = 1
    BY <1>1 DEF ThreadFlushed, CollectInv, QueueInv
  <1>6. PICK u : u = run'.stored
    OBVIOUS
  <1>7. u = s \/ u = s \o t
    BY <1>4, <1>6
  <1>8. /\ Waiting(<<>>) /\ EventTimes(<<>>) = {} /\ Range(<<>>) = {}
        /\ EventTimes(t) = IF t[1].name = "rtcp_events" THEN {t[1].ts} ELSE {}
    <2>1. Waiting(<<>>) /\ <<>> \in Seq(Points)
      BY DEF Waiting
    <2>2. EventTimes(<<>>) = {}
      BY <2>1, WaitingEvents
    <2>3. EventTimes(t) = IF t[1].name = "rtcp_events" THEN {t[1].ts} ELSE {}
      BY <1>5, WaitingEvents, Zenon
    <2> QED
      BY <2>1, <2>2, <2>3 DEF Range
  <1>9. ASSUME collector.pc = "flushing"
        PROVE  LET w == Append(t, x)
               IN  Waiting(w) /\ w # <<>> /\ EventTimes(w) = EventTimes(t) /\ Range(w) = Range(t) \cup {x}
    <2>1. PICK w \in Seq(Points) : w = Append(t, x)
      BY AppendElements
    <2>2. Len(t) = 1
      BY <1>5, <1>9
    <2>3. Len(w) = 2 /\ w[1] = t[1] /\ w[2] = x /\ Range(w) = Range(t) \cup {x}
      <3>1. /\ Len(w) = Len(t) + 1 /\ w[Len(t) + 1] = x
            /\ \A i \in 1..Len(t) : w[i] = t[i]
            /\ Range(w) = Range(t) \cup {x}
        <4>1. /\ Len(Append(t, x)) = Len(t) + 1 /\ Append(t, x)[Len(t) + 1] = x
              /\ \A i \in 1..Len(t) : Append(t, x)[i] = t[i]
              /\ Range(Append(t, x)) = Range(t) \cup {x}
          BY AppendElements
        <4> QED
          BY <2>1, <4>1
      <3> QED
        BY <2>2, <3>1
    <2>4. Waiting(w) /\ w # <<>>
      <3>1. w # <<>>
        <4>1. \A v : v = <<>> => Len(v) = 0
          OBVIOUS
        <4>2. 0 # 2
          OBVIOUS
        <4> QED
          BY <2>3, <4>1, <4>2, Zenon
      <3>2. x.name = "rtcp_failures"
        BY <1>4
      <3>3. Waiting(w)
        BY <2>3, <3>2 DEF Waiting
      <3> QED
        BY <3>1, <3>3
    <2>5. EventTimes(w) = EventTimes(t)
      BY <1>8, <2>3, <2>4, WaitingEvents
    <2> QED
      BY <2>1, <2>3, <2>4, <2>5
  <1>10. WaitingTimes = EventTimes(t) /\ WaitingTimes' = IF delivered THEN {} ELSE EventTimes(t)
    BY <1>1, <1>4, <1>5, <1>8, <1>9 DEF WaitingTimes
  <1>11. /\ delivered => u = s \o t
         /\ u = s \o t => /\ Range(u) = Range(s) \cup Range(t)
                          /\ EventTimes(u) = EventTimes(s) \cup EventTimes(t)
    <2>1. PICK m \in Nat : m = Len(s)
      OBVIOUS
    <2>2. delivered => u = s \o t
      BY <1>4, <1>6
    <2>3. u = s \o t => /\ Range(u) = Range(s) \cup Range(t)
                        /\ EventTimes(u) = EventTimes(s) \cup EventTimes(t)
      BY <1>5, <2>1, StoreEvents DEF Flushed
    <2> QED
      BY <2>2, <2>3
  <1>12. ObservedTimes = EventTimes(s) \cup EventTimes(t) /\ ObservedTimes' = ObservedTimes
    BY <1>2, <1>6, <1>7, <1>10, <1>11 DEF ObservedTimes
  <1>13. Observed = Range(t) \cup {y \in Range(s) : OfCollector(y)}
    BY <1>1, <1>2, <1>5, <1>8 DEF Observed
  <1>14. \A y \in Range(t) : OfCollector(y)
    BY <1>1, TimesAreBounded DEF SetupInv, Observed, Points, OfCollector
  <1>15. /\ {y \in Range(u) : OfCollector(y)} \subseteq Observed
         /\ {y \in Range(s) : OfCollector(y)} \subseteq {y \in Range(u) : OfCollector(y)}
         /\ delivered => {y \in Range(u) : OfCollector(y)} = Observed
    BY <1>7, <1>11, <1>13, <1>14
  <1>16. /\ collector.pc = "flushing" /\ ~delivered => Observed' = Observed \cup {x}
         /\ collector.pc # "flushing" \/ delivered => Observed' = Observed
    <2>1. Observed' = Range(rtcp'.pending) \cup Range(rtcp'.thread)
                        \cup {y \in Range(u) : OfCollector(y)}
      BY <1>6 DEF Observed
    <2>2. CASE delivered
      BY <1>4, <1>8, <1>15, <2>1, <2>2
    <2>3. CASE ~delivered /\ collector.pc = "flushing"
      BY <1>4, <1>8, <1>9, <1>13, <1>15, <2>1, <2>3
    <2>4. CASE ~delivered /\ collector.pc # "flushing"
      BY <1>4, <1>8, <1>13, <1>15, <2>1, <2>4
    <2> QED
      BY <2>2, <2>3, <2>4
  <1>17. QueueInv'
    BY <1>4, <1>5, <1>8, <1>9 DEF QueueInv
  <1>18. PointsInv'
    <2>1. /\ \A y \in Observed : y.ts \in Nat /\ y.ts <= n
          /\ Cardinality(ObservedTimes') = collector'.collected
      BY <1>3, <1>4, <1>12, TimesAreBounded DEF SetupInv, CollectInv, PointsInv, Points
    <2> QED
      BY <1>4, <1>16, <2>1 DEF PointsInv
  <1>19. FailureInv'
    <2>1. \A y \in Observed : y.ts \in Nat /\ y.ts <= n
      BY <1>3, TimesAreBounded DEF SetupInv, CollectInv, PointsInv, Points
    <2>2. collector.pc = "flushing" => \A y \in Observed : y.name # "rtcp_failures"
      BY DEF CollectInv, FailureInv
    <2>3. collector.pc = "reporting" =>
            /\ \E y \in Observed : y.name = "rtcp_failures" /\ y.ts = n
            /\ \A y \in Observed : y.ts = n => y.name = "rtcp_failures"
      BY <1>3 DEF CollectInv, FailureInv
    <2>4. CASE collector.pc = "flushing" /\ delivered
      BY <1>4, <1>16, <2>2, <2>4 DEF FailureInv
    <2>5. CASE collector.pc = "flushing" /\ ~delivered
      <3>1. \A y \in Observed : y.ts # n + 1
        BY <2>1
      <3> QED
        BY <1>4, <1>16, <2>5, <3>1 DEF FailureInv
    <2>6. CASE collector.pc \in {"reporting", "cancelled"}
      <3>1. Observed' = Observed /\ collector'.ts = n
            /\ collector'.pc = (IF collector.pc = "cancelled" THEN "cancelled" ELSE "ended")
        BY <1>4, <1>16, <2>6
      <3> QED
        BY <2>3, <2>6, <3>1 DEF FailureInv
    <2> QED
      BY <1>4, <2>4, <2>5, <2>6
  <1>20. PICK f \in Nat : f = Cardinality(Failures)
    BY FailuresCount DEF SetupInv
  <1>21. RepeatsInv'
    <2>1. Cardinality(EventsIn(s)) + (IF EventTimes(t) \cap EventTimes(s) = {} THEN 0 ELSE 1)
            <= Cardinality(EventTimes(s)) + f
      BY <1>2, <1>10, <1>20 DEF CollectInv, RepeatsInv
    <2>2. u = s \o t =>
            /\ Cardinality(EventsIn(u)) <= Cardinality(EventTimes(u)) + f
            /\ Cardinality(EventsIn(u))
                   + (IF EventTimes(t) \cap EventTimes(u) = {} THEN 0 ELSE 1)
                 <= Cardinality(EventTimes(u)) + (f + 1)
      BY <1>5, <1>20, <2>1, StoreCounts
    <2>3. CASE delivered
      <3>1. u = s \o t /\ WaitingTimes' = {} /\ Failures' = Failures
        BY <1>4, <1>10, <1>11, <2>3
      <3>2. WaitingTimes' \cap EventTimes(u) = {}
        BY <3>1
      <3>3. Cardinality(EventsIn(u)) \in Nat
        <4>1. u \in Seq(Metrics \cup Points)
          BY <3>1
        <4> QED
          BY <4>1, EventsAreFinite
      <3> QED
        BY <1>6, <1>20, <2>2, <3>1, <3>2, <3>3 DEF RepeatsInv
    <2>4. CASE ~delivered /\ Failures' = Failures
      <3>1. u = s
        BY <1>4, <1>6, <1>20, <2>4
      <3> QED
        BY <1>2, <1>6, <1>10, <1>20, <2>1, <2>4, <3>1 DEF RepeatsInv
    <2>5. CASE ~delivered /\ Cardinality(Failures') = f + 1
      <3>1. WaitingTimes' = EventTimes(t)
        BY <1>10, <2>5
      <3>2. Cardinality(EventsIn(u)) + (IF EventTimes(t) \cap EventTimes(u) = {} THEN 0 ELSE 1)
              <= Cardinality(EventTimes(u)) + (f + 1)
        <4>1. CASE u = s
          <5>1. Cardinality(EventsIn(s)) \in Nat /\ Cardinality(EventTimes(s)) \in Nat
            BY EventsAreFinite
          <5> QED
            BY <1>20, <2>1, <4>1, <5>1
        <4> QED
          BY <1>7, <2>2, <4>1
      <3> QED
        BY <1>6, <2>5, <3>1, <3>2 DEF RepeatsInv
    <2> QED
      BY <1>4, <1>20, <2>3, <2>4, <2>5
  <1>22. OrderInv'
    <2> SUFFICES ASSUME Failures' = {}
                 PROVE  /\ \A i, j \in EventsIn(u) : i < j => u[i].ts < u[j].ts
                        /\ \A i \in EventsIn(u) : \A k \in WaitingTimes' : u[i].ts < k
      BY <1>6 DEF OrderInv
    <2>1. Failures' = Failures /\ (delivered \/ u = s)
      BY <1>4, <1>6
    <2>2. /\ \A i, j \in EventsIn(s) : i < j => s[i].ts < s[j].ts
          /\ \A i \in EventsIn(s) : \A k \in EventTimes(t) : s[i].ts < k
      BY <1>2, <1>10, <2>1 DEF CollectInv, OrderInv
    <2>3. CASE ~delivered
      BY <1>10, <2>1, <2>2, <2>3
    <2>4. CASE delivered
      <3>1. PICK m \in Nat : m = Len(s)
        OBVIOUS
      <3>2. u = s \o t /\ WaitingTimes' = {}
        BY <1>10, <1>11, <2>4
      <3>3. /\ \A i \in EventsIn(s) : i <= m /\ u[i] = s[i]
            /\ u[m + 1] = t[1]
            /\ EventsIn(u) = IF t[1].name = "rtcp_events" THEN EventsIn(s) \cup {m + 1}
                             ELSE EventsIn(s)
        BY <1>5, <3>1, <3>2, StoreEvents DEF Flushed
      <3>4. EventsIn(s) \subseteq 1..m
        BY <3>1, EventsAreFinite
      <3>5. CASE t[1].name # "rtcp_events"
        BY <2>2, <3>2, <3>3, <3>5
      <3>6. CASE t[1].name = "rtcp_events"
        <4>1. EventsIn(u) = EventsIn(s) \cup {m + 1}
          BY <3>3, <3>6
        <4>2. \A i \in EventsIn(s) : s[i].ts < t[1].ts
          BY <1>8, <2>2, <3>6
        <4>3. ASSUME NEW i \in EventsIn(u), NEW j \in EventsIn(u), i < j
              PROVE  u[i].ts < u[j].ts
          <5>1. i \in EventsIn(s)
            BY <3>1, <3>4, <4>1, <4>3
          <5>2. CASE j \in EventsIn(s)
            BY <2>2, <3>3, <4>3, <5>1, <5>2
          <5>3. CASE j = m + 1
            BY <3>3, <4>2, <5>1, <5>3
          <5> QED
            BY <4>1, <5>2, <5>3
        <4> QED
          BY <3>2, <4>3
      <3> QED
        BY <3>5, <3>6
    <2> QED
      BY <2>3, <2>4
  <1> QED
    BY <1>17, <1>18, <1>19, <1>21, <1>22 DEF CollectInv

-----------------------------------------------------------------------------
(* What the live view shows of the collector *)

(* The newest of stored points. *)
LEMMA LatestStatusIsLast ==
  ASSUME NEW S \in SUBSET Points, S # {}, NEW n \in Nat, \A x \in S : x.ts <= n
  PROVE  LatestStatus(S) \in S /\ \A y \in S : y.ts <= LatestStatus(S).ts
  <1>1. PICK T : T = {x.ts : x \in S}
    OBVIOUS
  <1>2. T \subseteq 0..n /\ T # {}
    <2>1. \A x \in S : x.ts \in Nat /\ x.ts <= n
      BY DEF Points
    <2> QED
      BY <1>1, <2>1
  <1>3. PICK m \in T : \A k \in T : k <= m
    BY <1>2, LargestMember
  <1>4. \E x \in S : \A y \in S : y.ts <= x.ts
    <2>1. PICK x \in S : x.ts = m
      BY <1>1
    <2>2. \A y \in S : y.ts <= x.ts
      BY <1>1, <1>3, <2>1
    <2> QED
      BY <2>2
  <1> QED
    BY <1>4, Zenon DEF LatestStatus

(* The invariant says what the run checks. *)
LEMMA CollectInvImplies ==
  ASSUME SetupInv, CollectInv
  PROVE  CollectorInv
  <1>1. PICK s \in Seq(Metrics \cup Points) : s = run.stored
    BY TimesAreBounded DEF SetupInv
  <1>2. PICK f \in Nat : f = Cardinality(Failures) /\ (f = 0 <=> Failures = {})
    BY FailuresCount DEF SetupInv
  <1>3. PICK c \in Nat : c = collector.collected
    BY SetupAssumption DEF SetupInv, SetupShape, Collectors
  <1>4. /\ ObservedTimes = WaitingTimes \cup EventTimes(s) /\ Cardinality(ObservedTimes) = c
        /\ IsFiniteSet(ObservedTimes) /\ IsFiniteSet(WaitingTimes)
        /\ ObservedTimes = {x.ts : x \in {y \in Observed : y.name = "rtcp_events"}}
    BY <1>1, <1>3, TimesAreBounded DEF SetupInv, CollectInv, PointsInv, ObservedTimes
  <1>5. PICK e \in Nat : e = Cardinality(EventsIn(s))
    BY EventsAreFinite
  <1>6. PICK k \in Nat : k = Cardinality(EventTimes(s))
    BY EventsAreFinite
  <1>7. RtcpPointsArrive
    <2>1. \A i, j \in EventsIn(s) : i < j => s[i].ts < s[j].ts \/ f > 0
      BY <1>1, <1>2 DEF CollectInv, OrderInv
    <2>2. k >= e - f
      <3>1. PICK a \in {0, 1} : e + a <= k + f
        BY <1>1, <1>2, <1>5, <1>6 DEF CollectInv, RepeatsInv
      <3> QED
        BY <1>2, <1>5, <1>6, <3>1
    <2>3. k <= e
      <3>1. PICK g : g = [i \in EventsIn(s) |-> s[i].ts]
        OBVIOUS
      <3>2. g \in Surjection(EventsIn(s), EventTimes(s))
        BY <3>1 DEF Surjection, EventTimes
      <3> QED
        BY <1>5, <1>6, <3>2, EventsAreFinite, FS_Surjection
    <2>4. c <= k + 1
      <3>1. PICK a : WaitingTimes \subseteq {a}
        <4>1. PICK p \in Seq(Points) : p = rtcp.pending
          BY TimesAreBounded DEF SetupInv
        <4>2. PICK t \in Seq(Points) : t = rtcp.thread
          BY TimesAreBounded DEF SetupInv
        <4>3. Waiting(p) /\ Waiting(t) /\ (p = <<>> \/ t = <<>>)
          BY <4>1, <4>2 DEF CollectInv, QueueInv
        <4>4. /\ p = <<>> => EventTimes(p) = {} /\ EventTimes(t) \subseteq {t[1].ts}
              /\ t = <<>> => EventTimes(t) = {} /\ EventTimes(p) \subseteq {p[1].ts}
          BY <4>3, WaitingEvents
        <4> QED
          BY <4>1, <4>2, <4>3, <4>4 DEF WaitingTimes
      <3>2. ObservedTimes \subseteq EventTimes(s) \cup {a}
        BY <1>4, <3>1
      <3>3. /\ IsFiniteSet(EventTimes(s) \cup {a})
            /\ Cardinality(EventTimes(s) \cup {a}) \in {k, k + 1}
        BY <1>6, EventsAreFinite, FS_AddElement
      <3>4. Cardinality(ObservedTimes) <= Cardinality(EventTimes(s) \cup {a})
        BY <3>2, <3>3, FS_Subset
      <3> QED
        BY <1>4, <1>6, <3>3, <3>4
    <2>5. f = 0 => e >= c - 1
      BY <1>2, <1>3, <1>5, <1>6, <2>3, <2>4
    <2> QED
      BY <1>1, <1>2, <1>3, <1>5, <1>6, <2>1, <2>2, <2>5 DEF RtcpPointsArrive, Failures
  <1>8. RtcpPointsAreKept
    BY <1>1, <1>3, <1>4 DEF RtcpPointsAreKept, WaitingTimes
  <1>9. CollectorStatusIsTrue
    <2>1. PICK stored : stored = {x \in Range(run.stored) : OfCollector(x)}
      OBVIOUS
    <2>2. PICK n \in Nat : n = collector.ts
      BY TimesAreBounded DEF SetupInv
    <2>3. /\ stored \subseteq Observed /\ stored \in SUBSET Points
          /\ \A x \in Observed : x.ts \in Nat /\ x.ts <= n
      BY <2>1, <2>2, TimesAreBounded DEF SetupInv, Observed, CollectInv, PointsInv, Points
    <2>4. stored # {} =>
            LatestStatus(stored) \in stored /\ \A y \in stored : y.ts <= LatestStatus(stored).ts
      BY <2>3, LatestStatusIsLast
    <2>5. /\ RtpCollectorStatus = "failed" <=>
               stored # {} /\ LatestStatus(stored).name = "rtcp_failures"
          /\ RtpCollectorStatus = "collecting" =>
               stored # {} /\ LatestStatus(stored).name = "rtcp_events"
      <3>1. stored = {} => RtpCollectorStatus = "inactive"
        BY <2>1 DEF RtpCollectorStatus
      <3>2. ASSUME stored # {}
            PROVE  /\ RtpCollectorStatus = "failed" <=>
                        LatestStatus(stored).name = "rtcp_failures"
                   /\ RtpCollectorStatus = "collecting" =>
                        LatestStatus(stored).name = "rtcp_events"
        <4>1. LatestStatus(stored).name \in {"rtcp_connected", "rtcp_events", "rtcp_failures"}
          BY <2>3, <2>4, <3>2 DEF Points
        <4> QED
          BY <2>1, <3>2, <4>1 DEF RtpCollectorStatus
      <3> QED
        BY <3>1, <3>2
    <2>6. RtpCollectorStatus = "failed" =>
            collector.pc \in {"reporting", "ended", "cancelled"}
      <3>1. RtpCollectorStatus = "failed" => \E x \in Observed : x.name = "rtcp_failures"
        BY <2>3, <2>4, <2>5
      <3> QED
        BY <3>1 DEF SetupInv, SetupShape, Collectors, CollectInv, FailureInv
    <2>7. RtpCollectorStatus = "collecting" => collector.collected > 0
      <3>1. RtpCollectorStatus = "collecting" => \E x \in Observed : x.name = "rtcp_events"
        BY <2>3, <2>4, <2>5
      <3>2. RtpCollectorStatus = "collecting" => ObservedTimes # {}
        BY <1>4, <3>1
      <3>3. ObservedTimes # {} => c # 0
        BY <1>4, FS_EmptySet
      <3> QED
        BY <1>3, <3>2, <3>3
    <2>8. ASSUME collector.pc = "ended", rtcp.pending = <<>>
          PROVE  RtpCollectorStatus = "failed"
      <3>1. rtcp.thread = <<>> /\ Range(<<>>) = {}
        BY <2>8 DEF CollectInv, QueueInv, Range
      <3>2. Observed = stored
        BY <2>1, <2>8, <3>1 DEF Observed
      <3>3. /\ \E x \in stored : x.name = "rtcp_failures" /\ x.ts = n
            /\ \A x \in stored : x.ts = n => x.name = "rtcp_failures"
        BY <2>2, <2>8, <3>2 DEF CollectInv, FailureInv
      <3>4. LatestStatus(stored) \in stored /\ LatestStatus(stored).ts >= n
        BY <2>2, <2>3, <2>4, <3>3
      <3>5. LatestStatus(stored).ts = n
        BY <2>2, <2>3, <3>2, <3>4
      <3> QED
        BY <2>5, <3>3, <3>4, <3>5
    <2> QED
      BY <2>6, <2>7, <2>8 DEF CollectorStatusIsTrue
  <1> QED
    BY <1>7, <1>8, <1>9 DEF CollectorInv

(* Every step keeps it, beside the invariant of the connection. *)
LEMMA CollectStepKeepsInv ==
  SetupInv /\ CollectInv /\ [SetupNext]_setupVars => CollectInv'
  <1> SUFFICES ASSUME SetupInv, CollectInv, [SetupNext]_setupVars PROVE CollectInv'
    OBVIOUS
  <1>1. SetupInv'
    BY SetupStepKeepsInv
  <1>2. CASE \/ StartRun \/ ConnectSucceeds \/ ConnectFails \/ BackoffOver
             \/ ReportExhausted \/ FailExhausted \/ FlushConnected
    BY <1>1, <1>2, SetupKeepsCollectInv
  <1>3. CASE AmiLogsIn \/ AmiEvent \/ AmiEnds
    BY <1>3, AmiKeepsCollectInv
  <1>4. CASE ThreadFlushed
    BY <1>4, ThreadKeepsCollectInv
  <1>5. CASE AmiResets \/ CloseBegins \/ CloseEndsRun \/ UNCHANGED setupVars
    BY <1>5, StoppingKeepsCollectInv
  <1> QED
    BY <1>2, <1>3, <1>4, <1>5 DEF SetupNext

(* Whatever the AMI, the flushes in threads, their failures and the close of the
   call do, no point of the collector is lost, one is stored again only by a
   delivery that failed after it was stored, and the live view shows the collector
   as failed only after an AmiError, and always once the metric of it is stored. *)
THEOREM CollectorIsTrue == SetupSpec => []CollectorInv
  <1>1. SetupInit => SetupInv
    BY InitSetup
  <1>2. SetupInit => CollectInv
    <2> SUFFICES ASSUME SetupInit PROVE Quiet
      BY QuietIsInv
    <2>1. SetupShape
      BY InitSetup DEF SetupInv
    <2>2. Range(<<>>) = {}
      BY DEF Range
    <2> QED
      BY <2>1, <2>2 DEF Quiet, SetupInit
  <1>3. SetupInv /\ CollectInv => CollectorInv
    BY CollectInvImplies
  <1> QED
    BY <1>1, <1>2, <1>3, SetupStepKeepsInv, CollectStepKeepsInv, PTL DEF SetupSpec

=============================================================================
