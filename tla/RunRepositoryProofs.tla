------------------------- MODULE RunRepositoryProofs -------------------------
(***************************************************************************)
(* Proofs about the two run repositories: MemoryRuns, where the live view  *)
(* reads runs that a thread is assigning to, and RunStore, where a save is *)
(* a transaction of several statements.                                    *)
(***************************************************************************)
EXTENDS RunStore, MemoryRuns, FiniteSetTheorems, SequenceTheorems, TLAPS

-----------------------------------------------------------------------------
(* InMemoryRunRepository: the inductive invariant *)

(* What a run in memory may look like. *)
MemoryRun ==
  [status : {"absent", "running", "completed", "failed"}, alias : BOOLEAN,
   ended : BOOLEAN, metrics : BOOLEAN, verifications : BOOLEAN]

Completes == Assign("status", "completed")
Fails == Assign("status", "failed")
Names == Assign("alias", TRUE)
Ends == Assign("ended", TRUE)
Measures == Assign("metrics", TRUE)
Verifies == Assign("verifications", TRUE)

(* A thread in the middle of its assignments: what the run looks like, and what
   is left to do. *)
Progress(s, left) ==
  \/ s.status = "absent" /\ s.ended = FALSE /\ left = <<>>
  \/ /\ s.status = "running" /\ s.ended = FALSE
     /\ left \in {<<Completes, Ends, Measures, Verifies>>, <<Completes, Ends, Measures>>,
                  <<Fails, Names, Ends>>}
  \/ /\ s.status = "completed" /\ s.ended = FALSE
     /\ left \in {<<Ends, Measures, Verifies>>, <<Ends, Measures>>}
  \/ s.status = "failed" /\ s.ended = FALSE /\ left = <<Names, Ends>>
  \/ s.status = "failed" /\ s.alias = TRUE /\ s.ended = FALSE /\ left = <<Ends>>
  \/ s.status = "failed" /\ s.alias = TRUE /\ s.ended = TRUE /\ left = <<>>
  \/ /\ s.status = "completed" /\ s.ended = TRUE
     /\ left \in {<<Measures, Verifies>>, <<Measures>>, <<Verifies>>, <<>>}

(* Which field of a run the view reads next: of a run it is not at, the first
   or none. *)
NextField(r) ==
  IF r = view.run THEN view.field ELSE IF read[r].status = "absent" THEN 1 ELSE 6

(* What the view has read of a run is what the run is. *)
ReadTruly(r) ==
  /\ NextField(r) > 1 => read[r].status = run[r].status
  /\ NextField(r) > 2 => read[r].alias = run[r].alias
  /\ NextField(r) > 3 => read[r].ended = TRUE

(* An end that was read or shown is the run's, and of a run whose end was shown
   the next view reads what is true. *)
MemoryInv ==
  /\ run \in [Runs -> MemoryRun] /\ thread = [r \in Runs |-> thread[r]]
  /\ read \in [Runs -> MemoryRun] /\ shown \in [Runs -> MemoryRun]
  /\ view \in {Nothing} \cup [run : Runs, field : 1..5]
  /\ \A r \in Runs :
       /\ Progress(run[r], thread[r])
       /\ read[r].ended = TRUE => run[r].ended = TRUE
       /\ shown[r].ended = TRUE => run[r].ended = TRUE
       /\ ~Free /\ shown[r].ended = TRUE => ReadTruly(r)

(* What the view is at. *)
LEMMA ViewFacts ==
  ASSUME MemoryInv
  PROVE  /\ Free => view = Nothing
         /\ ~Free => view \in [run : Runs, field : 1..5]
  BY MemoryAssumption DEF MemoryInv, Free, Nothing

(* The runs that the handlers begin with. *)
LEMMA FirstRuns ==
  /\ Absent \in MemoryRun /\ Running \in MemoryRun
  /\ DOMAIN Running = {"status", "alias", "ended", "metrics", "verifications"}
  /\ Absent.status = "absent" /\ Absent.ended = FALSE
  /\ Running.status = "running" /\ Running.ended = FALSE
  BY DEF Absent, Running, MemoryRun

(* What is left of a short sequence. *)
LEMMA ShortTails ==
  ASSUME NEW a, NEW b, NEW c, NEW d
  PROVE  /\ Head(<<a, b, c, d>>) = a /\ Tail(<<a, b, c, d>>) = <<b, c, d>>
         /\ Head(<<a, b, c>>) = a /\ Tail(<<a, b, c>>) = <<b, c>>
         /\ Head(<<a, b>>) = a /\ Tail(<<a, b>>) = <<b>>
         /\ Head(<<a>>) = a /\ Tail(<<a>>) = <<>>
  OBVIOUS

(* The first three of four. *)
LEMMA FirstThree ==
  ASSUME NEW S, NEW a \in S, NEW b \in S, NEW c \in S, NEW d \in S
  PROVE  SubSeq(<<a, b, c, d>>, 1, 3) = <<a, b, c>>
  <1>1. PICK s \in Seq(S) : s = <<a, b, c, d>>
    <2>1. <<a, b, c, d>> \in Seq(S)
      OBVIOUS
    <2> QED
      BY <2>1
  <1>2. Len(s) = 4 /\ s[1] = a /\ s[2] = b /\ s[3] = c
    BY <1>1
  <1>3. /\ SubSeq(s, 1, 3) \in Seq(S) /\ Len(SubSeq(s, 1, 3)) = 3
        /\ \A i \in 1..3 : SubSeq(s, 1, 3)[i] = s[i]
    BY <1>2
  <1>4. PICK t \in Seq(S) : t = SubSeq(s, 1, 3)
    BY <1>3
  <1>5. Len(t) = 3 /\ t[1] = a /\ t[2] = b /\ t[3] = c
    BY <1>2, <1>3, <1>4
  <1>6. t = <<a, b, c>>
    BY <1>5
  <1> QED
    BY <1>1, <1>4, <1>6

(* The outcomes of a harness are these three. *)
LEMMA ThreeOutcomes ==
  Outcomes = {<<Completes, Ends, Measures, Verifies>>, <<Completes, Ends, Measures>>,
              <<Fails, Names, Ends>>}
  <1>1. SubSeq(<<Completes, Ends, Measures, Verifies>>, 1, 3)
          = <<Completes, Ends, Measures>>
    <2>1. PICK S : Completes \in S /\ Ends \in S /\ Measures \in S /\ Verifies \in S
      <3>1. \A x : x \in {Completes, Ends, Measures, Verifies} <=>
                    x = Completes \/ x = Ends \/ x = Measures \/ x = Verifies
        OBVIOUS
      <3> QED
        BY <3>1
    <2> QED
      BY <2>1, FirstThree
  <1> QED
    BY <1>1 DEF Outcomes, Completes, Ends, Measures, Verifies, Fails, Names

(* One assignment of a thread: it ends the run only after its status and alias
   are set, and changes neither afterwards. *)
LEMMA AssignmentProgresses ==
  ASSUME NEW s \in MemoryRun, NEW left, Progress(s, left), left # <<>>
  PROVE  LET t == [s EXCEPT ![Head(left).field] = Head(left).value]
         IN  /\ t \in MemoryRun /\ Progress(t, Tail(left))
             /\ s.ended = TRUE => /\ t.ended = TRUE /\ t.status = s.status
                                  /\ t.alias = s.alias
  <1> DEFINE t == [s EXCEPT ![Head(left).field] = Head(left).value]
  <1>1. /\ Completes.field = "status" /\ Completes.value = "completed"
        /\ Fails.field = "status" /\ Fails.value = "failed"
        /\ Names.field = "alias" /\ Names.value = TRUE
        /\ Ends.field = "ended" /\ Ends.value = TRUE
        /\ Measures.field = "metrics" /\ Measures.value = TRUE
        /\ Verifies.field = "verifications" /\ Verifies.value = TRUE
    BY DEF Completes, Fails, Names, Ends, Measures, Verifies, Assign
  <1>2. CASE /\ s.status = "running" /\ s.ended = FALSE
             /\ left \in {<<Completes, Ends, Measures, Verifies>>,
                          <<Completes, Ends, Measures>>}
    <2>1. /\ Head(left) = Completes
          /\ Tail(left) \in {<<Ends, Measures, Verifies>>, <<Ends, Measures>>}
      <3>1. CASE left = <<Completes, Ends, Measures, Verifies>>
        BY <3>1, ShortTails
      <3>2. CASE left = <<Completes, Ends, Measures>>
        BY <3>2, ShortTails
      <3> QED
        BY <1>2, <3>1, <3>2
    <2>2. t \in MemoryRun /\ t.status = "completed" /\ t.ended = FALSE
      BY <1>1, <1>2, <2>1 DEF MemoryRun
    <2> QED
      BY <1>2, <2>1, <2>2 DEF Progress
  <1>3. CASE s.status = "running" /\ s.ended = FALSE /\ left = <<Fails, Names, Ends>>
    <2>1. Head(left) = Fails /\ Tail(left) = <<Names, Ends>>
      BY <1>3, ShortTails
    <2>2. t \in MemoryRun /\ t.status = "failed" /\ t.ended = FALSE
      BY <1>1, <1>3, <2>1 DEF MemoryRun
    <2> QED
      BY <1>3, <2>1, <2>2 DEF Progress
  <1>4. CASE /\ s.status = "completed" /\ s.ended = FALSE
             /\ left \in {<<Ends, Measures, Verifies>>, <<Ends, Measures>>}
    <2>1. Head(left) = Ends /\ Tail(left) \in {<<Measures, Verifies>>, <<Measures>>}
      <3>1. CASE left = <<Ends, Measures, Verifies>>
        BY <3>1, ShortTails
      <3>2. CASE left = <<Ends, Measures>>
        BY <3>2, ShortTails
      <3> QED
        BY <1>4, <3>1, <3>2
    <2>2. t \in MemoryRun /\ t.status = "completed" /\ t.ended = TRUE
      BY <1>1, <1>4, <2>1 DEF MemoryRun
    <2> QED
      BY <1>4, <2>1, <2>2 DEF Progress
  <1>5. CASE s.status = "failed" /\ s.ended = FALSE /\ left = <<Names, Ends>>
    <2>1. Head(left) = Names /\ Tail(left) = <<Ends>>
      BY <1>5, ShortTails
    <2>2. t \in MemoryRun /\ t.status = "failed" /\ t.alias = TRUE /\ t.ended = FALSE
      BY <1>1, <1>5, <2>1 DEF MemoryRun
    <2> QED
      BY <1>5, <2>1, <2>2 DEF Progress
  <1>6. CASE s.status = "failed" /\ s.alias = TRUE /\ s.ended = FALSE /\ left = <<Ends>>
    <2>1. Head(left) = Ends /\ Tail(left) = <<>>
      BY <1>6, ShortTails
    <2>2. t \in MemoryRun /\ t.status = "failed" /\ t.alias = TRUE /\ t.ended = TRUE
      BY <1>1, <1>6, <2>1 DEF MemoryRun
    <2> QED
      BY <1>6, <2>1, <2>2 DEF Progress
  <1>7. CASE /\ s.status = "completed" /\ s.ended = TRUE
             /\ left \in {<<Measures, Verifies>>, <<Measures>>, <<Verifies>>}
    <2>1. Head(left) \in {Measures, Verifies} /\ Tail(left) \in {<<Verifies>>, <<>>}
      <3>1. CASE left = <<Measures, Verifies>>
        BY <3>1, ShortTails
      <3>2. CASE left = <<Measures>>
        BY <3>2, ShortTails
      <3>3. CASE left = <<Verifies>>
        BY <3>3, ShortTails
      <3> QED
        BY <1>7, <3>1, <3>2, <3>3
    <2>2. /\ t \in MemoryRun /\ t.status = "completed" /\ t.ended = TRUE
          /\ t.alias = s.alias
      BY <1>1, <1>7, <2>1 DEF MemoryRun
    <2> QED
      BY <1>7, <2>1, <2>2 DEF Progress
  <1> QED
    BY <1>2, <1>3, <1>4, <1>5, <1>6, <1>7 DEF Progress

(* What the event loop makes of an outcome in one step is a run that has ended:
   each field has the value assigned to it, or none was. *)
LEMMA SyncRunEnds ==
  ASSUME NEW outcome \in Outcomes, NEW s,
         s = [f \in DOMAIN Running |->
                LET set == {n \in DOMAIN outcome : outcome[n].field = f}
                IN  IF set = {} THEN Running[f]
                    ELSE outcome[CHOOSE n \in set : TRUE].value]
  PROVE  s \in MemoryRun /\ Progress(s, <<>>) /\ s.status # "absent"
  <1>1. DOMAIN s = {"status", "alias", "ended", "metrics", "verifications"}
    BY FirstRuns
  <1>2. ASSUME NEW f \in DOMAIN s
        PROVE  \/ /\ \A n \in DOMAIN outcome : outcome[n].field # f
                  /\ s[f] = Running[f]
               \/ \E n \in DOMAIN outcome :
                    outcome[n].field = f /\ s[f] = outcome[n].value
    <2> DEFINE set == {n \in DOMAIN outcome : outcome[n].field = f}
    <2>1. s[f] = IF set = {} THEN Running[f] ELSE outcome[CHOOSE n \in set : TRUE].value
      BY <1>1, FirstRuns
    <2>2. set # {} => (CHOOSE n \in set : TRUE) \in set
      <3> HIDE DEF set
      <3> QED
        OBVIOUS
    <2>3. CASE set = {}
      BY <2>1, <2>3
    <2>4. CASE set # {}
      <3>1. PICK n : n = CHOOSE m \in set : TRUE
        OBVIOUS
      <3>2. n \in set /\ s[f] = outcome[n].value
        BY <2>1, <2>2, <2>4, <3>1
      <3> QED
        BY <3>2
    <2> QED
      BY <2>3, <2>4
  <1>3. /\ Completes = [field |-> "status", value |-> "completed"]
        /\ Fails = [field |-> "status", value |-> "failed"]
        /\ Names = [field |-> "alias", value |-> TRUE]
        /\ Ends = [field |-> "ended", value |-> TRUE]
        /\ Measures = [field |-> "metrics", value |-> TRUE]
        /\ Verifies = [field |-> "verifications", value |-> TRUE]
    BY DEF Completes, Fails, Names, Ends, Measures, Verifies, Assign
  <1>4. /\ Running.alias = FALSE /\ Running.metrics = FALSE /\ Running.verifications = FALSE
    BY DEF Running, Absent
  <1>5. s = [status |-> s["status"], alias |-> s["alias"], ended |-> s["ended"],
             metrics |-> s["metrics"], verifications |-> s["verifications"]]
    BY <1>1
  <1>6. CASE outcome = <<Completes, Ends, Measures, Verifies>>
    <2>1. /\ DOMAIN outcome = 1..4 /\ outcome[1] = Completes /\ outcome[2] = Ends
          /\ outcome[3] = Measures /\ outcome[4] = Verifies
      BY <1>6
    <2>2. s["status"] = "completed" /\ s["alias"] = FALSE /\ s["ended"] = TRUE
      BY <1>1, <1>2, <1>3, <1>4, <2>1
    <2>3. s["metrics"] = TRUE /\ s["verifications"] = TRUE
      BY <1>1, <1>2, <1>3, <2>1
    <2> QED
      BY <1>5, <2>2, <2>3 DEF MemoryRun, Progress
  <1>7. CASE outcome = <<Completes, Ends, Measures>>
    <2>1. /\ DOMAIN outcome = 1..3 /\ outcome[1] = Completes /\ outcome[2] = Ends
          /\ outcome[3] = Measures
      BY <1>7
    <2>2. s["status"] = "completed" /\ s["alias"] = FALSE /\ s["ended"] = TRUE
      BY <1>1, <1>2, <1>3, <1>4, <2>1
    <2>3. s["metrics"] = TRUE /\ s["verifications"] = FALSE
      BY <1>1, <1>2, <1>3, <1>4, <2>1
    <2> QED
      BY <1>5, <2>2, <2>3 DEF MemoryRun, Progress
  <1>8. CASE outcome = <<Fails, Names, Ends>>
    <2>1. /\ DOMAIN outcome = 1..3 /\ outcome[1] = Fails /\ outcome[2] = Names
          /\ outcome[3] = Ends
      BY <1>8
    <2>2. s["status"] = "failed" /\ s["alias"] = TRUE /\ s["ended"] = TRUE
      BY <1>1, <1>2, <1>3, <2>1
    <2>3. s["metrics"] = FALSE /\ s["verifications"] = FALSE
      BY <1>1, <1>2, <1>3, <1>4, <2>1
    <2> QED
      BY <1>5, <2>2, <2>3 DEF MemoryRun, Progress
  <1> QED
    BY <1>6, <1>7, <1>8, ThreeOutcomes

(* Creating a run, and every assignment of its thread, leave what was read and
   shown of the runs true. *)
LEMMA RunChangeKeepsInv ==
  ASSUME MemoryInv, NEW r \in Runs, NEW s \in MemoryRun, NEW left,
         run' = [run EXCEPT ![r] = s], thread' = [thread EXCEPT ![r] = left],
         UNCHANGED <<view, read, shown>>, Progress(s, left),
         run[r].ended = TRUE => /\ s.ended = TRUE /\ s.status = run[r].status
                                /\ s.alias = run[r].alias
  PROVE  MemoryInv'
  <1>1. /\ run'[r] = s /\ thread'[r] = left
        /\ \A q \in Runs \ {r} : run'[q] = run[q] /\ thread'[q] = thread[q]
        /\ run' \in [Runs -> MemoryRun] /\ thread' = [q \in Runs |-> thread'[q]]
    BY DEF MemoryInv
  <1>2. ASSUME NEW q \in Runs
        PROVE  /\ Progress(run'[q], thread'[q])
               /\ run[q].ended = TRUE => /\ run'[q].ended = TRUE
                                         /\ run'[q].status = run[q].status
                                         /\ run'[q].alias = run[q].alias
    BY <1>1 DEF MemoryInv
  <1>3. ASSUME NEW q \in Runs, ~Free, shown[q].ended = TRUE
        PROVE  ReadTruly(q)'
    <2>1. ReadTruly(q) /\ run[q].ended = TRUE /\ NextField(q)' = NextField(q)
      BY <1>3 DEF MemoryInv, NextField
    <2> QED
      BY <1>2, <2>1 DEF ReadTruly
  <1>4. Free' = Free
    BY DEF Free
  <1> QED
    BY <1>1, <1>2, <1>3, <1>4 DEF MemoryInv

(* POST /runs and /runs/async, and the threads, preserve the invariant. *)
LEMMA RunStepKeepsInv ==
  ASSUME MemoryInv, NEW r \in Runs,
         CreateRunAsync(r) \/ CreateRunSync(r) \/ PopulateStoredRunResult(r)
  PROVE  MemoryInv'
  <1>1. run[r] \in MemoryRun /\ Progress(run[r], thread[r])
    BY DEF MemoryInv
  <1>2. run[r].status = "absent" => run[r].ended = FALSE /\ thread[r] = <<>>
    BY <1>1 DEF Progress
  <1>3. CASE CreateRunAsync(r)
    <2>1. PICK left \in Outcomes : thread' = [thread EXCEPT ![r] = left]
      BY <1>3 DEF CreateRunAsync
    <2>2. Progress(Running, left)
      BY <2>1, ThreeOutcomes, FirstRuns DEF Progress
    <2>3. PICK s \in MemoryRun : s = Running
      BY FirstRuns
    <2> QED
      BY <1>2, <1>3, <2>1, <2>2, <2>3, RunChangeKeepsInv DEF CreateRunAsync
  <1>4. CASE CreateRunSync(r)
    <2>1. PICK outcome \in Outcomes :
            run' = [run EXCEPT
                      ![r] = [f \in DOMAIN Running |->
                                LET set == {n \in DOMAIN outcome : outcome[n].field = f}
                                IN  IF set = {} THEN Running[f]
                                    ELSE outcome[CHOOSE n \in set : TRUE].value]]
      BY <1>4 DEF CreateRunSync
    <2>2. PICK s : s = [f \in DOMAIN Running |->
                          LET set == {n \in DOMAIN outcome : outcome[n].field = f}
                          IN  IF set = {} THEN Running[f]
                              ELSE outcome[CHOOSE n \in set : TRUE].value]
      OBVIOUS
    <2>3. s \in MemoryRun /\ Progress(s, <<>>)
      BY <2>2, SyncRunEnds
    <2>4. run' = [run EXCEPT ![r] = s]
      BY <2>1, <2>2
    <2>5. thread' = [thread EXCEPT ![r] = <<>>] /\ UNCHANGED <<view, read, shown>>
      BY <1>2, <1>4 DEF CreateRunSync, MemoryInv
    <2> QED
      BY <1>2, <1>4, <2>3, <2>4, <2>5, RunChangeKeepsInv DEF CreateRunSync
  <1>5. CASE PopulateStoredRunResult(r)
    <2>1. PICK left : left = thread[r]
      OBVIOUS
    <2>2. PICK s : s = [run[r] EXCEPT ![Head(left).field] = Head(left).value]
      OBVIOUS
    <2>3. /\ s \in MemoryRun /\ Progress(s, Tail(left))
          /\ run[r].ended = TRUE => /\ s.ended = TRUE /\ s.status = run[r].status
                                    /\ s.alias = run[r].alias
      BY <1>1, <1>5, <2>1, <2>2, AssignmentProgresses, ZenonT(30) DEF PopulateStoredRunResult
    <2>4. run' = [run EXCEPT ![r] = s] /\ thread' = [thread EXCEPT ![r] = Tail(left)]
      BY <1>5, <2>1, <2>2 DEF PopulateStoredRunResult
    <2> QED
      BY <1>5, <2>3, <2>4, RunChangeKeepsInv DEF PopulateStoredRunResult
  <1> QED
    BY <1>3, <1>4, <1>5

(* A view begins with nothing read. *)
LEMMA BeginLivePreviewKeepsInv ==
  ASSUME MemoryInv, BeginLivePreview
  PROVE  MemoryInv'
  <1>1. PICK v \in Runs : view' = [run |-> v, field |-> 1]
    BY DEF BeginLivePreview, Pending
  <1>2. /\ \A q \in Runs : read'[q] = Absent
        /\ read' \in [Runs -> MemoryRun] /\ UNCHANGED <<run, thread, shown>>
    BY FirstRuns DEF BeginLivePreview
  <1>3. view' \in [run : Runs, field : 1..5] /\ view'.run = v /\ view'.field = 1
    BY <1>1
  <1>4. \A q \in Runs : NextField(q)' = 1
    BY <1>2, <1>3, FirstRuns DEF NextField
  <1>5. \A q \in Runs : ReadTruly(q)'
    BY <1>4 DEF ReadTruly
  <1> QED
    BY <1>2, <1>3, <1>5, FirstRuns DEF MemoryInv

(* Reading a field of a run whose end was shown: status and alias do not change
   any more, and the end is there. *)
LEMMA ToLiveStatusKeepsInv ==
  ASSUME MemoryInv, ToLiveStatus
  PROVE  /\ MemoryInv'
         /\ \A r \in Runs : shown[r].ended /\ shown' # shown =>
              /\ shown'[r].ended /\ shown'[r].status \in EndStates
              /\ shown'[r].status = "failed" => shown'[r].alias
  <1>1. PICK v \in Runs : v = view.run
    BY DEF ToLiveStatus, Free
  <1>2. PICK n \in 1..5 : n = view.field
    BY ViewFacts DEF ToLiveStatus
  <1>3. ~Free /\ view = [run |-> v, field |-> n] /\ UNCHANGED <<run, thread>>
    BY <1>1, <1>2, ViewFacts DEF ToLiveStatus
  <1>4. PICK f : f = Fields[n]
    OBVIOUS
  <1>5. f = (CASE n = 1 -> "status" [] n = 2 -> "alias" [] n = 3 -> "ended"
               [] n = 4 -> "metrics" [] n = 5 -> "verifications")
    BY <1>4 DEF Fields
  <1>6. run[v] \in MemoryRun /\ read[v] \in MemoryRun
    BY DEF MemoryInv
  <1>7. PICK s : s = [read[v] EXCEPT ![f] = run[v][f]]
    OBVIOUS
  <1>8. /\ s \in MemoryRun
        /\ n = 1 => s.status = run[v].status
        /\ n # 1 => s.status = read[v].status
        /\ n = 2 => s.alias = run[v].alias
        /\ n # 2 => s.alias = read[v].alias
        /\ n = 3 => s.ended = run[v].ended
        /\ n # 3 => s.ended = read[v].ended
    <2>1. CASE n = 1
      BY <1>5, <1>6, <1>7, <2>1 DEF MemoryRun
    <2>2. CASE n = 2
      BY <1>5, <1>6, <1>7, <2>2 DEF MemoryRun
    <2>3. CASE n = 3
      BY <1>5, <1>6, <1>7, <2>3 DEF MemoryRun
    <2>4. CASE n = 4
      BY <1>5, <1>6, <1>7, <2>4 DEF MemoryRun
    <2>5. CASE n = 5
      BY <1>5, <1>6, <1>7, <2>5 DEF MemoryRun
    <2> QED
      BY <2>1, <2>2, <2>3, <2>4, <2>5
  <1>9. read' = [read EXCEPT ![v] = s]
    BY <1>1, <1>2, <1>4, <1>7 DEF ToLiveStatus
  <1>10. /\ read'[v] = s /\ read' \in [Runs -> MemoryRun]
         /\ \A q \in Runs \ {v} : read'[q] = read[q]
    BY <1>8, <1>9 DEF MemoryInv
  <1>11. \A q \in Runs : read'[q].ended = TRUE => run[q].ended = TRUE
    BY <1>2, <1>8, <1>10 DEF MemoryInv
  <1>12. \A q \in Runs \ {v} : /\ NextField(q) = IF read[q].status = "absent" THEN 1 ELSE 6
    BY <1>1 DEF NextField
  <1>13. NextField(v) = n
    BY <1>1, <1>2 DEF NextField
  <1>14. ASSUME shown[v].ended = TRUE
         PROVE  /\ s.status = run[v].status
                /\ n > 1 => s.alias = run[v].alias
                /\ n > 2 => s.ended = TRUE
    BY <1>2, <1>3, <1>8, <1>13, <1>14 DEF MemoryInv, ReadTruly
  <1>15. ASSUME NEW q \in Runs \ {v}, shown[q].ended = TRUE, read[q].status # "absent"
         PROVE  /\ read[q].status = run[q].status /\ read[q].alias = run[q].alias
                /\ read[q].ended = TRUE
    BY <1>3, <1>12, <1>15 DEF MemoryInv, ReadTruly
  <1>16. \A q \in Runs : shown[q].ended = TRUE =>
           /\ run[q].ended = TRUE /\ run[q].status \in EndStates
           /\ run[q].status = "failed" => run[q].alias = TRUE
           /\ run[q].status # "absent"
    BY DEF MemoryInv, Progress, EndStates
  <1>17. CASE n < 5
    <2>1. view' = [view EXCEPT !.field = @ + 1] /\ shown' = shown
      BY <1>2, <1>17 DEF ToLiveStatus, Fields
    <2>2. view' = [run |-> v, field |-> n + 1] /\ n + 1 \in 1..5
      BY <1>3, <1>17, <2>1
    <2>3. view' \in [run : Runs, field : 1..5] /\ view'.run = v /\ view'.field = n + 1
      BY <2>2
    <2>4. ASSUME NEW q \in Runs, shown[q].ended = TRUE PROVE ReadTruly(q)'
      <3>1. CASE q = v
        <4>1. NextField(q)' = n + 1
          BY <2>3, <3>1 DEF NextField
        <4> QED
          <5>1. /\ s.status = run[v].status
                /\ n + 1 > 2 => s.alias = run[v].alias
                /\ n + 1 > 3 => s.ended = TRUE
            <6>1. n + 1 > 2 => n > 1
              BY <1>2
            <6>2. n + 1 > 3 => n > 2
              BY <1>2
            <6> QED
              BY <1>14, <2>4, <3>1, <6>1, <6>2
          <5> QED
            BY <1>3, <1>10, <3>1, <4>1, <5>1 DEF ReadTruly
      <3>2. CASE q # v
        <4>1. NextField(q)' = NextField(q)
          BY <1>10, <1>12, <2>3, <3>2 DEF NextField
        <4> QED
          BY <1>3, <1>10, <2>4, <3>2, <4>1 DEF ReadTruly, MemoryInv
      <3> QED
        BY <3>1, <3>2
    <2> QED
      BY <1>3, <1>10, <1>11, <2>1, <2>3, <2>4 DEF MemoryInv
  <1>18. CASE n = 5
    <2> DEFINE rest == Pending({q \in Runs : q # v /\ read[q].status = "absent"})
    <2>1. \/ \E q \in rest : view' = [run |-> q, field |-> 1] /\ shown' = shown
          \/ rest = {} /\ view' = Nothing /\ shown' = read'
      BY <1>1, <1>2, <1>18 DEF ToLiveStatus, Fields
    <2>2. CASE \E q \in rest : view' = [run |-> q, field |-> 1] /\ shown' = shown
      <3>1. PICK w \in Runs : /\ w # v /\ read[w].status = "absent"
                              /\ view' = [run |-> w, field |-> 1] /\ shown' = shown
        BY <2>2 DEF Pending
      <3>2. view' \in [run : Runs, field : 1..5] /\ view'.run = w /\ view'.field = 1
        BY <3>1
      <3>3. ASSUME NEW q \in Runs, shown[q].ended = TRUE PROVE ReadTruly(q)'
        <4>1. CASE q = w
          BY <3>2, <4>1 DEF ReadTruly, NextField
        <4>2. CASE q = v
          <5>1. s.status = run[v].status /\ s.alias = run[v].alias /\ s.ended = TRUE
            <6>1. n > 1 /\ n > 2
              BY <1>18
            <6> QED
              BY <1>14, <3>3, <4>2, <6>1
          <5> QED
            BY <1>3, <1>10, <4>2, <5>1 DEF ReadTruly
        <4>3. CASE q # v /\ q # w
          <5>1. CASE read[q].status = "absent"
            <6>1. NextField(q)' = 1
              BY <1>10, <3>2, <4>3, <5>1 DEF NextField
            <6> QED
              BY <6>1 DEF ReadTruly
          <5>2. CASE read[q].status # "absent"
            BY <1>3, <1>10, <1>15, <3>3, <4>3, <5>2 DEF ReadTruly
          <5> QED
            BY <5>1, <5>2
        <4> QED
          BY <4>1, <4>2, <4>3
      <3> QED
        BY <1>3, <1>10, <1>11, <3>1, <3>2, <3>3 DEF MemoryInv
    <2>3. CASE rest = {} /\ view' = Nothing /\ shown' = read'
      <3>1. Free'
        BY <2>3, MemoryAssumption DEF Free, Nothing
      <3>2. MemoryInv'
        BY <1>3, <1>10, <1>11, <2>3, <3>1 DEF MemoryInv
      <3>3. ASSUME NEW q \in Runs, shown[q].ended = TRUE
            PROVE  /\ shown'[q].ended = TRUE /\ shown'[q].status = run[q].status
                   /\ shown'[q].alias = run[q].alias
        <4>1. CASE q = v
          <5>1. s.status = run[v].status /\ s.alias = run[v].alias /\ s.ended = TRUE
            <6>1. n > 1 /\ n > 2
              BY <1>18
            <6> QED
              BY <1>14, <3>3, <4>1, <6>1
          <5> QED
            BY <1>10, <2>3, <4>1, <5>1
        <4>2. CASE q # v
          <5>1. read[q].status # "absent"
            BY <1>16, <2>3, <3>3, <4>2 DEF Pending
          <5> QED
            BY <1>10, <1>15, <2>3, <3>3, <4>2, <5>1
        <4> QED
          BY <4>1, <4>2
      <3>4. \A q \in Runs : shown[q].ended \in BOOLEAN
        BY DEF MemoryInv, MemoryRun
      <3> QED
        BY <1>16, <3>2, <3>3, <3>4
    <2> QED
      BY <2>1, <2>2, <2>3
  <1> QED
    BY <1>17, <1>18

(* Every step preserves the invariant, and shows an end that was shown whole. *)
LEMMA MemoryStepKeepsInv ==
  ASSUME MemoryInv, [MemoryNext]_memoryVars
  PROVE  /\ MemoryInv'
         /\ [\A r \in Runs : shown[r].ended =>
               /\ shown'[r].ended /\ shown'[r].status \in EndStates
               /\ shown'[r].status = "failed" => shown'[r].alias]_shown
  <1>1. ASSUME NEW r \in Runs,
               CreateRunAsync(r) \/ CreateRunSync(r) \/ PopulateStoredRunResult(r)
        PROVE  MemoryInv' /\ shown' = shown
    BY <1>1, RunStepKeepsInv DEF CreateRunAsync, CreateRunSync, PopulateStoredRunResult
  <1>2. CASE BeginLivePreview
    BY <1>2, BeginLivePreviewKeepsInv DEF BeginLivePreview
  <1>3. CASE ToLiveStatus
    BY <1>3, ToLiveStatusKeepsInv
  <1>4. CASE UNCHANGED memoryVars
    <2>1. MemoryInv'
      BY <1>4 DEF memoryVars, MemoryInv, Progress, ReadTruly, NextField, Free
    <2> QED
      BY <1>4, <2>1 DEF memoryVars
  <1> QED
    BY <1>1, <1>2, <1>3, <1>4 DEF MemoryNext

(* The invariant holds throughout: no thread and no view ever leaves the order
   in which fields are assigned and read. *)
THEOREM MemoryInvariance == MemorySpec => []MemoryInv
  <1>1. MemoryInit => MemoryInv
    BY FirstRuns DEF MemoryInit, MemoryInv, Progress, Free, Nothing
  <1>2. MemoryInv /\ [MemoryNext]_memoryVars => MemoryInv'
    BY MemoryStepKeepsInv
  <1> QED
    BY <1>1, <1>2, PTL DEF MemorySpec

(* After /live has shown that a run has ended, every later view shows how: the
   status that _populate_stored_run_result assigned before the end, and the
   alias of a failed run, although the view reads a run in pieces while a thread
   assigns it. *)
THEOREM ShownEndIsWhole == MemorySpec => EndIsShownWhole
  <1>1. MemoryInv /\ [MemoryNext]_memoryVars =>
          [\A r \in Runs : shown[r].ended =>
             /\ shown'[r].ended /\ shown'[r].status \in EndStates
             /\ shown'[r].status = "failed" => shown'[r].alias]_shown
    BY MemoryStepKeepsInv
  <1> QED
    BY <1>1, MemoryInvariance, PTL DEF MemorySpec, EndIsShownWhole

-----------------------------------------------------------------------------
(* PostgresRunRepository: the inductive invariants *)

(* Where a session is while it saves its copy. *)
Saves ==
  {"save", "delete-results", "deleting-results", "delete-points", "deleting-points",
   "insert"}

IsSeq(s) == Len(s) \in Nat /\ s = [n \in 1..Len(s) |-> s[n]]

IsSession(s) ==
  /\ s = [pc |-> s.pc, want |-> s.want, copy |-> s.copy, point |-> s.point,
          changed |-> s.changed, snapshot |-> s.snapshot, marked |-> s.marked]
  /\ s.copy = [status |-> s.copy.status, results |-> s.copy.results,
               points |-> s.copy.points]
  /\ IsSeq(s.copy.results) /\ IsSeq(s.copy.points)

(* The shape of the state. *)
StoreInv ==
  /\ session = [a \in Actors |-> session[a]]
  /\ \A a \in Actors : IsSession(session[a])
  /\ seen = [p \in Processes |-> seen[p]]
  /\ IsFiniteSet(rows)
  /\ points \in Nat

(* The view of a process on its way: the row is read first, and a row that says
   completed has its results. *)
ViewsTruly(s) ==
  /\ s.pc \in {"idle", "row", "results", "points", "got"}
  /\ s.pc # "idle" => s.want = "view"
  /\ s.copy.status = "completed" =>
       /\ s.pc = "results" => row = "completed"
       /\ s.pc \in {"points", "got"} => s.copy.results # <<>>

(* The copy that a worker saves. *)
HasExecuted(copy) ==
  copy.status \in Ended /\ (copy.status = "completed" => copy.results # <<>>)

(* A process shows a run as completed only with results: a worker that has the
   lease commits them, with the row, once. *)
ViewsInv ==
  /\ row = "completed" => job = "ended" /\ \E r \in rows : r.table = "results"
  /\ row = "absent" => job = "none"
  /\ session[Worker].pc # "idle" => job = "leased"
  /\ session[Worker].pc \in Saves => HasExecuted(session[Worker].copy)
  /\ \A p \in Processes : ViewsTruly(session[p])
  /\ CompletedViewHasResults

(* The rows of a sequence of points, as one save inserts them. *)
RowsOf(s, base) ==
  {[table |-> "points", ordinal |-> n, value |-> s[n], id |-> base + n] : n \in DOMAIN s}

(* What process p has of the points that were answered, on its way from the
   first SELECT to the commit. *)
SavesAll(p) ==
  LET s == session[p]
  IN  /\ s.pc \in {"points", "got"} \cup Saves => s.copy.results = <<>>
      /\ s.pc = "got" => s.copy.points = acked
      /\ s.pc \in Saves => s.copy.points = Append(acked, s.point)
      /\ s.pc = "deleting-points" => s.snapshot = IdsOf(rows)
      /\ s.pc = "insert" => IdsOf(rows) \subseteq s.marked

(* The rows of an observed run are the points that were answered. *)
PointsInv ==
  /\ job = "none" /\ session[Worker] = Idle
  /\ acked \in Seq(Nat) /\ ids \in Nat
  /\ \E base \in Nat : rows = RowsOf(acked, base)
  /\ \A p \in Processes : session[p].point \in Nat /\ SavesAll(p)

-----------------------------------------------------------------------------
(* What get reads *)

(* What a function makes of the first numbers is finite. *)
LEMMA ImageIsFinite ==
  ASSUME NEW n \in Nat, NEW f
  PROVE  IsFiniteSet({f[i] : i \in 1..n})
  <1>1. IsFiniteSet(1..n)
    BY FS_Interval
  <1>2. [i \in 1..n |-> f[i]] \in Surjection(1..n, {f[i] : i \in 1..n})
    BY DEF Surjection
  <1> QED
    BY <1>1, <1>2, FS_Surjection

(* A function on the first numbers is a sequence. *)
LEMMA FunctionIsSeq ==
  ASSUME NEW k \in Nat, NEW f
  PROVE  IsSeq([n \in 1..k |-> f[n]]) /\ Len([n \in 1..k |-> f[n]]) = k
  <1>1. PICK g : g = [n \in 1..k |-> f[n]]
    OBVIOUS
  <1>2. g \in Seq({f[n] : n \in 1..k}) /\ DOMAIN g = 1..k
    BY <1>1
  <1>3. Len(g) = k
    BY <1>2
  <1>4. \A n \in 1..k : g[n] = f[n]
    BY <1>1
  <1>5. g = [n \in 1..k |-> g[n]]
    BY <1>1, <1>4
  <1> QED
    BY <1>1, <1>3, <1>5 DEF IsSeq

(* Appending to a sequence makes a sequence. *)
LEMMA AppendIsSeq ==
  ASSUME NEW s, IsSeq(s), NEW x
  PROVE  IsSeq(Append(s, x))
  <1>1. PICK k \in Nat : k = Len(s)
    BY DEF IsSeq
  <1>2. PICK S : S = {s[n] : n \in 1..k} \cup {x}
    OBVIOUS
  <1>3. s = [n \in 1..k |-> s[n]]
    BY <1>1 DEF IsSeq
  <1>4. \A n \in 1..k : s[n] \in S
    BY <1>2
  <1>5. s \in Seq(S) /\ x \in S
    BY <1>2, <1>3, <1>4
  <1>6. Append(s, x) \in Seq(S)
    BY <1>5
  <1>7. PICK t \in Seq(S) : t = Append(s, x)
    BY <1>6
  <1>8. PICK m \in Nat : m = Len(t)
    BY <1>7
  <1>9. t \in [1..m -> S]
    BY <1>7, <1>8, LenProperties
  <1>10. t = [n \in 1..m |-> t[n]]
    BY <1>9
  <1> QED
    BY <1>7, <1>8, <1>10 DEF IsSeq

(* A table is read as a sequence, which is empty only if the table is. *)
LEMMA StoredIsSeq ==
  ASSUME IsFiniteSet(rows), NEW table
  PROVE  /\ IsSeq(Stored(table))
         /\ (\E r \in rows : r.table = table) => Stored(table) # <<>>
  <1> DEFINE all == {r \in rows : r.table = table}
             place(r) == Cardinality({q \in all : \/ q.ordinal < r.ordinal
                                                  \/ /\ q.ordinal = r.ordinal
                                                     /\ q.id <= r.id})
             value(n) == (CHOOSE r \in all : place(r) = n).value
  <1>1. IsFiniteSet(all)
    BY FS_Subset
  <1>2. PICK k \in Nat : k = Cardinality(all)
    BY <1>1, FS_CardinalityType
  <1>3. Stored(table) = [n \in 1..k |-> value(n)]
    BY <1>2 DEF Stored
  <1>4. PICK f : f = [n \in 1..k |-> value(n)]
    OBVIOUS
  <1>5. f = [n \in 1..k |-> f[n]]
    BY <1>4
  <1>6. IsSeq(f) /\ Len(f) = k
    BY <1>5, FunctionIsSeq
  <1>7. ASSUME NEW r \in rows, r.table = table PROVE k # 0
    <2>1. all # {}
      BY <1>7
    <2> QED
      BY <1>1, <1>2, <2>1, FS_EmptySet
  <1>8. f = <<>> => Len(f) = 0
    OBVIOUS
  <1> QED
    BY <1>3, <1>4, <1>6, <1>7, <1>8

-----------------------------------------------------------------------------
(* What a step makes of a session *)

(* Thread a goes on with session s. *)
GoesOn(a, s) == IsSession(s) /\ session' = [session EXCEPT ![a] = s]

(* A step of one thread leaves the sessions of the others alone. *)
LEMMA OneSessionMoves ==
  ASSUME StoreInv, NEW a \in Actors, NEW s, GoesOn(a, s)
  PROVE  /\ session' = [b \in Actors |-> session'[b]]
         /\ \A b \in Actors : IsSession(session'[b])
         /\ session'[a] = s
         /\ \A b \in Actors \ {a} : session'[b] = session[b]
  <1>1. PICK f : f = session
    OBVIOUS
  <1>2. f = [b \in Actors |-> f[b]] /\ \A b \in Actors : IsSession(f[b])
    BY <1>1 DEF StoreInv
  <1>3. PICK g : g = session'
    OBVIOUS
  <1>4. g = [f EXCEPT ![a] = s] /\ IsSession(s)
    BY <1>1, <1>3 DEF GoesOn
  <1>5. g = [b \in Actors |-> g[b]] /\ g[a] = s /\ \A b \in Actors \ {a} : g[b] = f[b]
    BY <1>2, <1>4
  <1>6. \A b \in Actors : IsSession(g[b])
    BY <1>2, <1>4, <1>5
  <1> QED
    BY <1>1, <1>3, <1>5, <1>6

(* The blank session and the ones that begin have the shape of a session. *)
LEMMA IdleIsSession ==
  /\ IsSession(Idle) /\ Idle.pc = "idle" /\ Idle.copy = Blank
  /\ Blank.status = "absent" /\ Blank.results = <<>> /\ Blank.points = <<>>
  <1>1. IsSeq(<<>>)
    BY DEF IsSeq
  <1> QED
    BY <1>1 DEF IsSession, Idle, Blank

(* get: one SELECT. *)
LEMMA GetMoves ==
  ASSUME StoreInv, NEW a \in Actors, Get(a)
  PROVE  \E s : /\ GoesOn(a, s) /\ s.want = session[a].want /\ s.point = session[a].point
                /\ \/ /\ At(a, "row") /\ s.pc = "results" /\ s.copy.status = row
                      /\ s.copy.results = session[a].copy.results
                   \/ /\ At(a, "results") /\ s.pc = "points"
                      /\ s.copy.status = session[a].copy.status
                      /\ s.copy.results = Stored("results")
                   \/ /\ At(a, "points") /\ s.pc = "got"
                      /\ s.copy.status = session[a].copy.status
                      /\ s.copy.results = session[a].copy.results
                      /\ s.copy.points = Stored("points")
  <1>1. PICK o : o = session[a]
    OBVIOUS
  <1>2. IsSession(o)
    BY <1>1 DEF StoreInv
  <1>3. CASE At(a, "row") /\ session' = [session EXCEPT ![a].pc = "results",
                                                       ![a].copy.status = row]
    <2>1. PICK s : s = [o EXCEPT !.pc = "results", !.copy.status = row]
      OBVIOUS
    <2>2. IsSession(s) /\ s.want = o.want /\ s.point = o.point /\ s.pc = "results"
          /\ s.copy.status = row /\ s.copy.results = o.copy.results
      BY <1>2, <2>1 DEF IsSession
    <2>3. session' = [session EXCEPT ![a] = s]
      BY <1>1, <1>3, <2>1, ZenonT(30) DEF StoreInv
    <2> QED
      BY <1>1, <1>3, <2>2, <2>3 DEF GoesOn
  <1>4. CASE At(a, "results") /\ session' = [session EXCEPT ![a].pc = "points",
                                              ![a].copy.results = Stored("results")]
    <2>1. PICK s : s = [o EXCEPT !.pc = "points", !.copy.results = Stored("results")]
      OBVIOUS
    <2>2. IsSeq(Stored("results"))
      BY StoredIsSeq DEF StoreInv
    <2>3. IsSession(s) /\ s.want = o.want /\ s.point = o.point /\ s.pc = "points"
          /\ s.copy.status = o.copy.status /\ s.copy.results = Stored("results")
      BY <1>2, <2>1, <2>2 DEF IsSession
    <2>4. session' = [session EXCEPT ![a] = s]
      BY <1>1, <1>4, <2>1, ZenonT(30) DEF StoreInv
    <2> QED
      BY <1>1, <1>4, <2>3, <2>4 DEF GoesOn
  <1>5. CASE At(a, "points") /\ session' = [session EXCEPT ![a].pc = "got",
                                              ![a].copy.points = Stored("points")]
    <2>1. PICK s : s = [o EXCEPT !.pc = "got", !.copy.points = Stored("points")]
      OBVIOUS
    <2>2. IsSeq(Stored("points"))
      BY StoredIsSeq DEF StoreInv
    <2>3. IsSession(s) /\ s.want = o.want /\ s.point = o.point /\ s.pc = "got"
          /\ s.copy.status = o.copy.status /\ s.copy.results = o.copy.results
          /\ s.copy.points = Stored("points")
      BY <1>2, <2>1, <2>2 DEF IsSession
    <2>4. session' = [session EXCEPT ![a] = s]
      BY <1>1, <1>5, <2>1, ZenonT(30) DEF StoreInv
    <2> QED
      BY <1>1, <1>5, <2>3, <2>4 DEF GoesOn
  <1> QED
    BY <1>3, <1>4, <1>5 DEF Get, Read

(* The statements of a save before its commit: the copy stays as it is. *)
LEMMA SaveMoves ==
  ASSUME StoreInv, NEW a \in Actors,
         \/ UpdateRow(a)
         \/ \E n \in DOMAIN Tables : DeleteBegins(a, n) \/ DeleteEnds(a, n)
  PROVE  \E s : /\ GoesOn(a, s) /\ s.want = session[a].want /\ s.point = session[a].point
                /\ s.copy = session[a].copy
                /\ session[a].pc \in Saves \ {"insert"} /\ s.pc \in Saves \ {"save"}
                /\ s.pc = "deleting-points" =>
                     s.snapshot = IdsOf({r \in rows : r.table = "points"})
                /\ s.pc = "insert" =>
                     /\ session[a].pc = "deleting-points"
                     /\ session[a].snapshot \cap IdsOf(rows) \subseteq s.marked
  <1>1. PICK o : o = session[a]
    OBVIOUS
  <1>2. IsSession(o)
    BY <1>1 DEF StoreInv
  <1>3. CASE UpdateRow(a)
    <2>1. PICK c : c = (o.copy.status # row)
      OBVIOUS
    <2>2. PICK s : s = [o EXCEPT !.pc = "delete-results", !.changed = c]
      OBVIOUS
    <2>3. IsSession(s) /\ s.want = o.want /\ s.point = o.point /\ s.copy = o.copy
          /\ s.pc = "delete-results"
      BY <1>2, <2>2 DEF IsSession
    <2>4. session' = [session EXCEPT ![a] = s] /\ o.pc = "save"
      BY <1>1, <1>3, <2>1, <2>2 DEF StoreInv, UpdateRow, At
    <2> QED
      BY <1>1, <2>3, <2>4 DEF GoesOn, Saves
  <1>4. ASSUME NEW n \in {1, 2}, DeleteBegins(a, n)
        PROVE  \E s : /\ GoesOn(a, s) /\ s.want = o.want /\ s.point = o.point
                      /\ s.copy = o.copy /\ o.pc = Delete[n] /\ s.pc = Deleting[n]
                      /\ s.snapshot = IdsOf({r \in rows : r.table = Tables[n]})
    <2>1. PICK i : i = IdsOf({r \in rows : r.table = Tables[n]})
      OBVIOUS
    <2>2. PICK s : s = [o EXCEPT !.pc = Deleting[n], !.snapshot = i]
      OBVIOUS
    <2>3. IsSession(s) /\ s.want = o.want /\ s.point = o.point /\ s.copy = o.copy
          /\ s.pc = Deleting[n] /\ s.snapshot = i
      BY <1>2, <2>2 DEF IsSession
    <2>4. session' = [session EXCEPT ![a] = s] /\ o.pc = Delete[n]
      BY <1>1, <1>4, <2>1, <2>2 DEF StoreInv, DeleteBegins, At
    <2> QED
      BY <2>1, <2>3, <2>4 DEF GoesOn
  <1>5. ASSUME NEW n \in {1, 2}, DeleteEnds(a, n)
        PROVE  \E s : /\ GoesOn(a, s) /\ s.want = o.want /\ s.point = o.point
                      /\ s.copy = o.copy /\ o.pc = Deleting[n]
                      /\ s.pc = IF n = 1 THEN "delete-points" ELSE "insert"
                      /\ o.snapshot \cap IdsOf(rows) \subseteq s.marked
    <2>1. PICK i : i = o.marked \cup (o.snapshot \cap IdsOf(rows))
      OBVIOUS
    <2>2. PICK q : q = IF n = 1 THEN "delete-points" ELSE "insert"
      OBVIOUS
    <2>3. q = IF n < Len(Tables) THEN Delete[n + 1] ELSE "insert"
      BY <2>2 DEF Tables, Delete
    <2>4. PICK s : s = [o EXCEPT !.pc = q, !.marked = i, !.snapshot = {}]
      OBVIOUS
    <2>5. IsSession(s) /\ s.want = o.want /\ s.point = o.point /\ s.copy = o.copy
          /\ s.pc = q /\ s.marked = i
      BY <1>2, <2>4 DEF IsSession
    <2>6. session' = [session EXCEPT ![a] = s] /\ o.pc = Deleting[n]
      <3>1. session' = [session EXCEPT ![a].pc = q, ![a].marked = i, ![a].snapshot = {}]
        BY <1>1, <1>5, <2>1, <2>3 DEF DeleteEnds
      <3> QED
        BY <1>1, <1>5, <2>4, <3>1 DEF StoreInv, DeleteEnds, At
    <2> QED
      BY <2>1, <2>2, <2>5, <2>6 DEF GoesOn
  <1>6. CASE \E n \in DOMAIN Tables : DeleteBegins(a, n) \/ DeleteEnds(a, n)
    <2>1. DOMAIN Tables = {1, 2}
      BY DEF Tables
    <2>2. Delete[1] = "delete-results" /\ Deleting[1] = "deleting-results"
          /\ Delete[2] = "delete-points" /\ Deleting[2] = "deleting-points"
          /\ Tables[2] = "points"
      BY DEF Delete, Deleting, Tables
    <2>3. CASE DeleteBegins(a, 1)
      BY <1>1, <1>4, <2>2, <2>3 DEF Saves
    <2>4. CASE DeleteBegins(a, 2)
      BY <1>1, <1>4, <2>2, <2>4 DEF Saves
    <2>5. CASE DeleteEnds(a, 1)
      BY <1>1, <1>5, <2>2, <2>5 DEF Saves
    <2>6. CASE DeleteEnds(a, 2)
      BY <1>1, <1>5, <2>2, <2>6 DEF Saves
    <2> QED
      BY <1>6, <2>1, <2>3, <2>4, <2>5, <2>6
  <1> QED
    BY <1>3, <1>6

(* What a save inserts is finite, and has the results of its copy. *)
LEMMA InsertsFinitely ==
  ASSUME StoreInv, NEW a \in Actors
  PROVE  /\ IsFiniteSet(ReplaceRows(a))
         /\ session[a].copy.results # <<>> =>
              \E r \in ReplaceRows(a) : r.table = "results"
  <1>1. PICK s : s = session[a].copy.results
    OBVIOUS
  <1>2. PICK t : t = session[a].copy.points
    OBVIOUS
  <1>3. IsSeq(s) /\ IsSeq(t)
    BY <1>1, <1>2 DEF StoreInv, IsSession
  <1>4. PICK k \in Nat : k = Len(s)
    BY <1>3 DEF IsSeq
  <1>5. PICK m \in Nat : m = Len(t)
    BY <1>3 DEF IsSeq
  <1>6. s = [n \in 1..k |-> s[n]] /\ t = [n \in 1..m |-> t[n]]
    BY <1>3, <1>4, <1>5 DEF IsSeq
  <1>7. DOMAIN s = 1..k /\ DOMAIN t = 1..m
    BY <1>6
  <1>8. PICK f : f = [n \in 1..k |-> [table |-> "results", ordinal |-> n,
                                      value |-> s[n], id |-> ids + n]]
    OBVIOUS
  <1>9. PICK g : g = [n \in 1..m |-> [table |-> "points", ordinal |-> n,
                                      value |-> t[n], id |-> ids + k + n]]
    OBVIOUS
  <1>10. NewRows(a) = {f[n] : n \in 1..k} \cup {g[n] : n \in 1..m}
    <2>1. NewRows(a) = {[table |-> "results", ordinal |-> n, value |-> s[n],
                         id |-> ids + n] : n \in 1..k}
                       \cup {[table |-> "points", ordinal |-> n, value |-> t[n],
                              id |-> ids + k + n] : n \in 1..m}
      BY <1>1, <1>2, <1>4, <1>7 DEF NewRows
    <2> QED
      BY <1>8, <1>9, <2>1
  <1>11. IsFiniteSet(NewRows(a))
    BY <1>10, ImageIsFinite, FS_Union, ZenonT(30)
  <1>12. IsFiniteSet({r \in rows : r.id \notin session[a].marked})
    BY FS_Subset DEF StoreInv
  <1>13. IsFiniteSet(ReplaceRows(a))
    BY <1>11, <1>12, FS_Union DEF ReplaceRows
  <1>14. ASSUME s # <<>> PROVE \E r \in ReplaceRows(a) : r.table = "results"
    <2>1. k # 0
      BY <1>6, <1>14
    <2>2. 1 \in 1..k
      BY <2>1
    <2>3. f[1] \in ReplaceRows(a) /\ f[1].table = "results"
      BY <1>8, <1>10, <2>2 DEF ReplaceRows
    <2> QED
      BY <2>3
  <1> QED
    BY <1>1, <1>13, <1>14

(* A handler begins. *)
LEMMA BeginMoves ==
  ASSUME StoreInv, NEW p \in Processes, NEW want, Begin(p, want)
  PROVE  \E s : /\ GoesOn(p, s) /\ At(p, "idle") /\ s.pc = "row" /\ s.want = want
                /\ s.point = points + 1 /\ s.copy = Blank
  <1>1. PICK s : s = [Idle EXCEPT !.pc = "row", !.want = want, !.point = points + 1]
    OBVIOUS
  <1>2. IsSession(s) /\ s.pc = "row" /\ s.want = want /\ s.point = points + 1
        /\ s.copy = Blank
    BY <1>1, IdleIsSession DEF IsSession, Idle
  <1> QED
    BY <1>1, <1>2 DEF Begin, GoesOn

(* AppendPoint: the copy gets the point, and is to be saved. *)
LEMMA AppendPointMoves ==
  ASSUME StoreInv, NEW p \in Processes, AppendPoint(p)
  PROVE  \E s : /\ GoesOn(p, s) /\ At(p, "got") /\ s.pc = "save"
                /\ session[p].want = "point" /\ s.want = "point"
                /\ s.point = session[p].point
                /\ s.copy.results = session[p].copy.results
                /\ s.copy.points = Append(session[p].copy.points, session[p].point)
  <1>1. PICK o : o = session[p]
    OBVIOUS
  <1>2. IsSession(o) /\ p \in Actors
    BY <1>1 DEF StoreInv, Actors
  <1>3. PICK c : c = Append(o.copy.points, o.point)
    OBVIOUS
  <1>4. IsSeq(c)
    BY <1>2, <1>3, AppendIsSeq DEF IsSession
  <1>5. PICK s : s = [o EXCEPT !.pc = "save", !.copy.points = c]
    OBVIOUS
  <1>6. IsSession(s) /\ s.pc = "save" /\ s.want = o.want /\ s.point = o.point
        /\ s.copy.results = o.copy.results /\ s.copy.points = c
    BY <1>2, <1>4, <1>5 DEF IsSession
  <1>7. session' = [session EXCEPT ![p] = s] /\ o.pc = "got" /\ o.want = "point"
    <2>1. session' = [session EXCEPT ![p].pc = "save",
                                     ![p].copy.points = Append(@, session[p].point)]
      BY DEF AppendPoint
    <2>2. session' = [session EXCEPT ![p].pc = "save", ![p].copy.points = c]
      BY <1>1, <1>2, <1>3, <2>1 DEF IsSession, StoreInv
    <2> QED
      BY <1>1, <1>2, <1>5, <2>2 DEF AppendPoint, At, StoreInv
  <1> QED
    BY <1>1, <1>3, <1>6, <1>7 DEF GoesOn, At

(* The worker begins with its copy, and has executed the run. *)
LEMMA WorkerMoves ==
  ASSUME StoreInv, Claim \/ \E status \in Ended : Execute(status)
  PROVE  \E s : /\ GoesOn(Worker, s)
                /\ \/ Claim /\ s.pc = "row" /\ s.copy = Blank
                   \/ ~Claim /\ At(Worker, "got") /\ s.pc = "save" /\ HasExecuted(s.copy)
  <1>1. CASE Claim
    <2>1. PICK s : s = [Idle EXCEPT !.pc = "row"]
      OBVIOUS
    <2>2. IsSession(s) /\ s.pc = "row" /\ s.copy = Blank
      BY <2>1, IdleIsSession DEF IsSession, Idle
    <2> QED
      BY <1>1, <2>1, <2>2 DEF Claim, GoesOn
  <1>2. ASSUME NEW status \in Ended, Execute(status), ~Claim
        PROVE  \E s : /\ GoesOn(Worker, s) /\ At(Worker, "got") /\ s.pc = "save"
                      /\ HasExecuted(s.copy)
    <2>1. PICK o : o = session[Worker]
      OBVIOUS
    <2>2. IsSession(o) /\ Worker \in Actors
      BY <2>1 DEF StoreInv, Actors
    <2>3. PICK results \in {o.copy.results, <<attempts>>} :
            /\ status = "completed" => results = <<attempts>>
            /\ session' = [session EXCEPT ![Worker].pc = "save",
                                          ![Worker].copy.status = status,
                                          ![Worker].copy.results = results]
      BY <1>2, <2>1 DEF Execute
    <2>4. IsSeq(<<attempts>>) /\ <<attempts>> # <<>>
      BY DEF IsSeq
    <2>5. IsSeq(results) /\ (status = "completed" => results # <<>>)
      BY <2>2, <2>3, <2>4 DEF IsSession
    <2>6. PICK s : s = [o EXCEPT !.pc = "save", !.copy.status = status,
                                 !.copy.results = results]
      OBVIOUS
    <2>7. IsSession(s) /\ s.pc = "save" /\ s.copy.status = status
          /\ s.copy.results = results
      BY <2>2, <2>5, <2>6 DEF IsSession
    <2>8. session' = [session EXCEPT ![Worker] = s]
      BY <2>1, <2>2, <2>3, <2>6, ZenonT(30) DEF StoreInv
    <2> QED
      BY <1>2, <2>5, <2>7, <2>8 DEF GoesOn, Execute, HasExecuted
  <1> QED
    BY <1>1, <1>2

-----------------------------------------------------------------------------
(* Every step keeps the shape *)

(* A step of one session that commits nothing. *)
LEMMA MoveKeepsStoreInv ==
  ASSUME StoreInv, NEW a \in Actors, NEW s, GoesOn(a, s), rows' = rows, seen' = seen,
         points' \in Nat
  PROVE  StoreInv'
  <1>1. /\ session' = [b \in Actors |-> session'[b]]
        /\ \A b \in Actors : IsSession(session'[b])
    BY OneSessionMoves
  <1> QED
    BY <1>1 DEF StoreInv

(* A commit, and what ends a session without one. *)
LEMMA EndKeepsStoreInv ==
  ASSUME StoreInv, NEW a \in Actors, session' = [session EXCEPT ![a] = Idle],
         rows' \in {rows, ReplaceRows(a)},
         seen' = [p \in Processes |-> seen'[p]], points' = points
  PROVE  StoreInv' /\ GoesOn(a, Idle)
  <1>1. GoesOn(a, Idle)
    BY IdleIsSession DEF GoesOn
  <1>2. /\ session' = [b \in Actors |-> session'[b]]
        /\ \A b \in Actors : IsSession(session'[b])
    BY <1>1, OneSessionMoves
  <1>3. IsFiniteSet(rows')
    BY InsertsFinitely DEF StoreInv
  <1> QED
    BY <1>1, <1>2, <1>3 DEF StoreInv

(* Every step keeps the shape, and posted points are never fewer. *)
LEMMA StepKeepsStoreInv ==
  ASSUME StoreInv, [Next]_vars
  PROVE  StoreInv' /\ points' >= points
  <1>1. CASE CreateRun
    BY <1>1 DEF CreateRun, StoreInv
  <1>2. ASSUME NEW a \in Actors, Get(a) PROVE StoreInv' /\ points' = points
    <2>1. rows' = rows /\ seen' = seen /\ points' = points /\ points' \in Nat
      BY <1>2 DEF Get, StoreInv
    <2> QED
      BY <1>2, <2>1, GetMoves, MoveKeepsStoreInv
  <1>3. ASSUME NEW a \in Actors,
               \/ UpdateRow(a)
               \/ \E n \in DOMAIN Tables : DeleteBegins(a, n) \/ DeleteEnds(a, n)
        PROVE  StoreInv' /\ points' = points
    <2>1. rows' = rows /\ seen' = seen /\ points' = points /\ points' \in Nat
      BY <1>3 DEF UpdateRow, DeleteBegins, DeleteEnds, StoreInv
    <2> QED
      BY <1>3, <2>1, SaveMoves, MoveKeepsStoreInv
  <1>4. ASSUME NEW a \in Actors, Abort(a) PROVE StoreInv' /\ points' = points
    <2>1. rows' = rows /\ seen' = seen /\ points' = points
          /\ session' = [session EXCEPT ![a] = Idle]
      BY <1>4 DEF Abort
    <2> QED
      BY <2>1, EndKeepsStoreInv DEF StoreInv
  <1>5. ASSUME NEW p \in Processes, BeginView(p) \/ BeginPoint(p)
        PROVE  StoreInv' /\ points' >= points
    <2>1. PICK n \in Nat : n = points
      BY DEF StoreInv
    <2>2. rows' = rows /\ seen' = seen /\ points' \in {n, n + 1}
          /\ \E want : Begin(p, want)
      BY <1>5, <2>1 DEF BeginView, BeginPoint, Begin
    <2>3. points' \in Nat /\ points' >= n /\ p \in Actors
      BY <2>1, <2>2 DEF Actors
    <2> QED
      BY <2>1, <2>2, <2>3, BeginMoves, MoveKeepsStoreInv
  <1>6. ASSUME NEW p \in Processes, ReturnView(p) PROVE StoreInv' /\ points' = points
    <2>1. rows' = rows /\ points' = points /\ session' = [session EXCEPT ![p] = Idle]
          /\ seen' = [seen EXCEPT ![p] = session[p].copy] /\ p \in Actors
      BY <1>6 DEF ReturnView, Actors
    <2>2. seen' = [q \in Processes |-> seen'[q]]
      BY <2>1 DEF StoreInv
    <2> QED
      BY <2>1, <2>2, EndKeepsStoreInv
  <1>7. ASSUME NEW p \in Processes, AppendPoint(p) PROVE StoreInv' /\ points' = points
    <2>1. rows' = rows /\ seen' = seen /\ points' = points /\ points' \in Nat
          /\ p \in Actors
      BY <1>7 DEF AppendPoint, StoreInv, Actors
    <2> QED
      BY <1>7, <2>1, AppendPointMoves, MoveKeepsStoreInv
  <1>8. ASSUME NEW p \in Processes, SavePoint(p) PROVE StoreInv' /\ points' = points
    <2>1. rows' = ReplaceRows(p) /\ points' = points /\ seen' = seen
          /\ session' = [session EXCEPT ![p] = Idle] /\ p \in Actors
      BY <1>8 DEF SavePoint, InsertAndCommit, Actors
    <2> QED
      BY <2>1, EndKeepsStoreInv DEF StoreInv
  <1>9. CASE Claim \/ \E status \in Ended : Execute(status)
    <2>1. rows' = rows /\ seen' = seen /\ points' = points /\ points' \in Nat
          /\ Worker \in Actors
      BY <1>9 DEF Claim, Execute, StoreInv, Actors
    <2> QED
      BY <1>9, <2>1, WorkerMoves, MoveKeepsStoreInv DEF StoreInv
  <1>10. CASE CommitLeasedResult
    <2>1. rows' = ReplaceRows(Worker) /\ points' = points /\ seen' = seen
          /\ session' = [session EXCEPT ![Worker] = Idle] /\ Worker \in Actors
      BY <1>10 DEF CommitLeasedResult, InsertAndCommit, Actors
    <2> QED
      BY <2>1, EndKeepsStoreInv DEF StoreInv
  <1>11. CASE UNCHANGED vars
    BY <1>11 DEF vars, StoreInv
  <1>12. points \in Nat /\ points >= points
    BY DEF StoreInv
  <1> QED
    BY <1>1, <1>2, <1>3, <1>4, <1>5, <1>6, <1>7, <1>8, <1>9, <1>10, <1>11, <1>12
       DEF Next, CreateRun, vars

-----------------------------------------------------------------------------
(* A completed run is shown with its results *)

(* A step of a process that changes neither the run nor what was shown. *)
LEMMA ProcessKeepsViewsInv ==
  ASSUME StoreInv, ViewsInv, NEW p \in Processes, NEW s, GoesOn(p, s), ViewsTruly(s),
         UNCHANGED <<row, rows, job, seen>>
  PROVE  ViewsInv'
  <1>1. p \in Actors /\ Worker \in Actors \ {p} /\ Processes \subseteq Actors
    BY StoreAssumption DEF Actors
  <1>2. session'[p] = s /\ session'[Worker] = session[Worker]
        /\ \A q \in Processes \ {p} : session'[q] = session[q]
    BY <1>1, OneSessionMoves
  <1>3. \A q \in Processes : ViewsTruly(session[q])'
    BY <1>2 DEF ViewsInv, ViewsTruly
  <1> QED
    BY <1>2, <1>3 DEF ViewsInv, CompletedViewHasResults

(* A step of the worker before its commit. *)
LEMMA WorkerKeepsViewsInv ==
  ASSUME StoreInv, ViewsInv, NEW s, GoesOn(Worker, s), s.pc # "idle" => job' = "leased",
         s.pc \in Saves => HasExecuted(s.copy), UNCHANGED <<row, rows, seen>>,
         row = "completed" => job' = "ended", row = "absent" => job' = "none"
  PROVE  ViewsInv'
  <1>1. Worker \in Actors /\ Processes \subseteq Actors \ {Worker}
    BY StoreAssumption DEF Actors
  <1>2. session'[Worker] = s /\ \A q \in Processes : session'[q] = session[q]
    BY <1>1, OneSessionMoves
  <1>3. \A q \in Processes : ViewsTruly(session[q])'
    BY <1>2 DEF ViewsInv, ViewsTruly
  <1> QED
    BY <1>2, <1>3 DEF ViewsInv, CompletedViewHasResults

(* Every step, of a run to which no point has been posted, keeps the views true:
   the commit of the worker is the one that completes the row, and with results. *)
LEMMA StepKeepsViewsInv ==
  ASSUME StoreInv, ViewsInv, [Next]_vars, points' = 0
  PROVE  ViewsInv'
  <1>a. Processes \subseteq Actors /\ Worker \in Actors /\ Worker \notin Processes
    BY StoreAssumption DEF Actors
  <1>b. \A p \in Processes : ViewsTruly(session[p])
    BY DEF ViewsInv
  <1>1. CASE CreateRun
    BY <1>1 DEF CreateRun, ViewsInv, ViewsTruly, CompletedViewHasResults
  <1>2. ASSUME NEW a \in Actors, Get(a) PROVE ViewsInv'
    <2>1. UNCHANGED <<row, rows, job, seen>>
      BY <1>2 DEF Get
    <2>2. PICK s : /\ GoesOn(a, s) /\ s.want = session[a].want
                   /\ \/ /\ At(a, "row") /\ s.pc = "results" /\ s.copy.status = row
                      \/ /\ At(a, "results") /\ s.pc = "points"
                         /\ s.copy.status = session[a].copy.status
                         /\ s.copy.results = Stored("results")
                      \/ /\ At(a, "points") /\ s.pc = "got"
                         /\ s.copy.status = session[a].copy.status
                         /\ s.copy.results = session[a].copy.results
      BY <1>2, GetMoves
    <2>3. CASE a \in Processes
      <3>1. ViewsTruly(session[a])
        BY <1>b, <2>3
      <3>2. row = "completed" => Stored("results") # <<>>
        BY StoredIsSeq DEF StoreInv, ViewsInv
      <3>3. ViewsTruly(s)
        BY <2>2, <3>1, <3>2 DEF ViewsTruly, At
      <3> QED
        BY <2>1, <2>2, <2>3, <3>3, ProcessKeepsViewsInv
    <2>4. CASE a = Worker
      <3>1. session[Worker].pc # "idle" /\ s.pc \notin Saves
        BY <2>2, <2>4 DEF At, Saves
      <3>2. job' = "leased" /\ row \notin {"completed", "absent"}
        BY <2>1, <3>1 DEF ViewsInv
      <3> QED
        BY <2>1, <2>2, <2>4, <3>1, <3>2, WorkerKeepsViewsInv
    <2> QED
      BY <1>2, <2>3, <2>4 DEF Actors
  <1>3. ASSUME NEW a \in Actors,
               \/ UpdateRow(a)
               \/ \E n \in DOMAIN Tables : DeleteBegins(a, n) \/ DeleteEnds(a, n)
        PROVE  ViewsInv'
    <2>1. UNCHANGED <<row, rows, job, seen>>
      BY <1>3 DEF UpdateRow, DeleteBegins, DeleteEnds
    <2>2. PICK s : /\ GoesOn(a, s) /\ s.copy = session[a].copy
                   /\ session[a].pc \in Saves
      BY <1>3, SaveMoves
    <2>3. a = Worker
      BY <1>3, <1>b, <2>2 DEF ViewsTruly, Saves, Actors
    <2>4. session[Worker].pc # "idle" /\ session[Worker].pc \in Saves
      BY <2>2, <2>3 DEF Saves
    <2>5. job' = "leased" /\ row \notin {"completed", "absent"}
      BY <2>1, <2>4 DEF ViewsInv
    <2>6. HasExecuted(s.copy)
      BY <2>2, <2>3, <2>4 DEF ViewsInv
    <2> QED
      BY <2>1, <2>2, <2>3, <2>5, <2>6, WorkerKeepsViewsInv
  <1>4. ASSUME NEW a \in Actors, Abort(a) PROVE ViewsInv'
    <2>1. UNCHANGED <<row, rows, seen>> /\ GoesOn(a, Idle)
      BY <1>4, IdleIsSession DEF Abort, GoesOn
    <2>2. CASE a \in Processes
      <3>1. ViewsTruly(Idle)
        BY IdleIsSession DEF ViewsTruly
      <3>2. job' = job
        BY <1>4, <1>a, <2>2 DEF Abort
      <3> QED
        BY <2>1, <2>2, <3>1, <3>2, ProcessKeepsViewsInv
    <2>3. CASE a = Worker
      <3>1. Idle.pc = "idle" /\ Idle.pc \notin Saves
        BY IdleIsSession DEF Saves
      <3>2. (row = "completed" => job' = "ended") /\ (row = "absent" => job' = "none")
        BY <1>4 DEF Abort, ViewsInv
      <3> QED
        BY <2>1, <2>3, <3>1, <3>2, WorkerKeepsViewsInv
    <2> QED
      BY <1>4, <2>2, <2>3 DEF Actors
  <1>5. ASSUME NEW p \in Processes, BeginView(p) \/ BeginPoint(p) PROVE ViewsInv'
    <2>1. BeginView(p)
      BY <1>5 DEF BeginPoint, StoreInv
    <2>2. Begin(p, "view") /\ UNCHANGED <<row, rows, job, seen>>
      BY <2>1 DEF BeginView, Begin
    <2>3. PICK s : GoesOn(p, s) /\ s.pc = "row" /\ s.want = "view"
      BY <2>2, BeginMoves
    <2>4. ViewsTruly(s)
      BY <2>3 DEF ViewsTruly
    <2> QED
      BY <2>2, <2>3, <2>4, ProcessKeepsViewsInv
  <1>6. ASSUME NEW p \in Processes, ReturnView(p) PROVE ViewsInv'
    <2>1. /\ UNCHANGED <<row, rows, job>> /\ GoesOn(p, Idle) /\ At(p, "got")
          /\ seen' = [seen EXCEPT ![p] = session[p].copy] /\ p \in Actors
      BY <1>6, <1>a, IdleIsSession DEF ReturnView, GoesOn
    <2>2. /\ session'[p] = Idle /\ session'[Worker] = session[Worker]
          /\ \A q \in Processes \ {p} : session'[q] = session[q]
      BY <1>a, <2>1, OneSessionMoves
    <2>3. ViewsTruly(session[p])
      BY <1>b
    <2>4. CompletedViewHasResults'
      BY <2>1, <2>3 DEF ViewsTruly, At, ViewsInv, CompletedViewHasResults, StoreInv
    <2>5. \A q \in Processes : ViewsTruly(session[q])'
      BY <2>1, <2>2, IdleIsSession DEF ViewsInv, ViewsTruly
    <2> QED
      BY <2>1, <2>2, <2>4, <2>5 DEF ViewsInv
  <1>7. ASSUME NEW p \in Processes, AppendPoint(p) PROVE ViewsInv'
    BY <1>7, <1>b DEF AppendPoint, At, ViewsTruly
  <1>8. ASSUME NEW p \in Processes, SavePoint(p) PROVE ViewsInv'
    BY <1>8, <1>b DEF SavePoint, InsertAndCommit, At, ViewsTruly
  <1>9. CASE Claim \/ \E status \in Ended : Execute(status)
    <2>1. PICK s : /\ GoesOn(Worker, s)
                   /\ \/ Claim /\ s.pc = "row"
                      \/ ~Claim /\ At(Worker, "got") /\ s.pc = "save" /\ HasExecuted(s.copy)
      BY <1>9, WorkerMoves
    <2>2. UNCHANGED <<row, rows, seen>> /\ job' = "leased"
          /\ row \notin {"completed", "absent"}
      <3>1. CASE Claim
        BY <3>1 DEF Claim, ViewsInv
      <3>2. CASE ~Claim
        <4>1. session[Worker].pc # "idle"
          BY <2>1, <3>2 DEF At
        <4> QED
          BY <1>9, <3>2, <4>1 DEF Execute, ViewsInv
      <3> QED
        BY <3>1, <3>2
    <2>3. s.pc \in Saves => HasExecuted(s.copy)
      BY <2>1 DEF Saves
    <2> QED
      BY <2>1, <2>2, <2>3, WorkerKeepsViewsInv
  <1>10. CASE CommitLeasedResult
    <2>1. /\ At(Worker, "insert") /\ job = "leased" /\ job' = "ended"
          /\ rows' = ReplaceRows(Worker) /\ seen' = seen /\ GoesOn(Worker, Idle)
          /\ row' = IF session[Worker].changed THEN session[Worker].copy.status ELSE row
      BY <1>10, IdleIsSession DEF CommitLeasedResult, InsertAndCommit, GoesOn
    <2>2. session'[Worker] = Idle /\ \A q \in Processes : session'[q] = session[q]
      BY <1>a, <2>1, OneSessionMoves
    <2>3. /\ row \notin {"completed", "absent"} /\ session[Worker].pc \in Saves
          /\ HasExecuted(session[Worker].copy)
      BY <2>1 DEF ViewsInv, At, Saves
    <2>4. \A q \in Processes : ViewsTruly(session[q])'
      BY <2>2, <2>3 DEF ViewsInv, ViewsTruly
    <2>5. ASSUME row' = "completed" PROVE \E r \in rows' : r.table = "results"
      <3>1. session[Worker].copy.status = "completed"
        BY <2>1, <2>3, <2>5
      <3>2. session[Worker].copy.results # <<>>
        BY <2>3, <3>1 DEF HasExecuted
      <3> QED
        BY <1>a, <2>1, <3>2, InsertsFinitely
    <2>6. Idle.pc = "idle" /\ Idle.pc \notin Saves
      BY IdleIsSession DEF Saves
    <2>7. row' # "absent"
      BY <2>1, <2>3 DEF HasExecuted, Ended
    <2> QED
      BY <2>1, <2>2, <2>4, <2>5, <2>6, <2>7 DEF ViewsInv, CompletedViewHasResults
  <1>11. CASE UNCHANGED vars
    BY <1>11 DEF vars, ViewsInv, ViewsTruly, CompletedViewHasResults
  <1> QED
    BY <1>1, <1>2, <1>3, <1>4, <1>5, <1>6, <1>7, <1>8, <1>9, <1>10, <1>11 DEF Next

(* The shape holds throughout, and as long as no point is posted the views show
   what is true. *)
THEOREM StoreInvariance == Spec => [](StoreInv /\ (points = 0 => ViewsInv))
  <1>1. Init => StoreInv /\ ViewsInv
    <2> SUFFICES ASSUME Init PROVE StoreInv /\ ViewsInv
      OBVIOUS
    <2>1. \A a \in Actors : session[a] = Idle
      BY DEF Init
    <2>2. IsFiniteSet(rows)
      BY FS_EmptySet DEF Init
    <2>3. StoreInv
      BY <2>1, <2>2, IdleIsSession DEF Init, StoreInv
    <2>4. Worker \in Actors /\ Processes \subseteq Actors
      BY DEF Actors
    <2>5. \A p \in Processes : ViewsTruly(session[p])
      BY <2>1, <2>4, IdleIsSession DEF ViewsTruly
    <2>6. CompletedViewHasResults
      BY IdleIsSession DEF Init, CompletedViewHasResults
    <2> QED
      BY <2>1, <2>3, <2>4, <2>5, <2>6, IdleIsSession DEF Init, ViewsInv, Saves
  <1>2. StoreInv /\ (points = 0 => ViewsInv) /\ [Next]_vars
          => (StoreInv /\ (points = 0 => ViewsInv))'
    <2> SUFFICES ASSUME StoreInv, points = 0 => ViewsInv, [Next]_vars
                 PROVE  StoreInv' /\ (points' = 0 => ViewsInv')
      OBVIOUS
    <2>1. StoreInv' /\ points' >= points
      BY StepKeepsStoreInv
    <2>2. points' = 0 => points = 0
      BY <2>1 DEF StoreInv
    <2> QED
      BY <2>1, <2>2, StepKeepsViewsInv
  <1> QED
    BY <1>1, <1>2, PTL DEF Spec

(* CompletedViewHasResults, of every number of processes, attempts and failures:
   as long as no point is posted to the run, get never returns it as completed
   without its results, although it reads row and results by two SELECTs between
   which a worker may commit, fail or begin the next attempt. *)
THEOREM CompletedIsShownWhole == Spec => [](points = 0 => CompletedViewHasResults)
  <1>1. StoreInv /\ (points = 0 => ViewsInv) => (points = 0 => CompletedViewHasResults)
    BY DEF ViewsInv
  <1> QED
    BY <1>1, StoreInvariance, PTL

-----------------------------------------------------------------------------
(* The points of an observed run *)

(* An injection counts: its first n values are n. *)
LEMMA InjectionCounts ==
  ASSUME NEW n \in Nat, NEW f, \A i, j \in 1..n : f[i] = f[j] => i = j
  PROVE  IsFiniteSet({f[i] : i \in 1..n}) /\ Cardinality({f[i] : i \in 1..n}) = n
  <1>1. PICK T : T = {f[i] : i \in 1..n}
    OBVIOUS
  <1>2. PICK g : g = [i \in 1..n |-> f[i]]
    OBVIOUS
  <1>3. g \in Surjection(1..n, T)
    BY <1>1, <1>2 DEF Surjection
  <1>4. g \in Injection(1..n, T)
    BY <1>1, <1>2 DEF Injection, IsInjective
  <1>5. IsFiniteSet(1..n) /\ Cardinality(1..n) = n
    BY FS_Interval
  <1> QED
    BY <1>1, <1>3, <1>4, <1>5, FS_Surjection

(* get reads the rows of a save as the points that were saved. *)
LEMMA StoredPoints ==
  ASSUME NEW s \in Seq(Nat), NEW base \in Nat, rows = RowsOf(s, base)
  PROVE  Stored("points") = s /\ Stored("results") = <<>>
  <1>1. PICK k \in Nat : k = Len(s)
    OBVIOUS
  <1>2. DOMAIN s = 1..k /\ s = [n \in 1..k |-> s[n]]
    BY <1>1
  <1>3. PICK f : f = [n \in 1..k |-> [table |-> "points", ordinal |-> n,
                                      value |-> s[n], id |-> base + n]]
    OBVIOUS
  <1>4. rows = {f[i] : i \in 1..k}
    BY <1>2, <1>3 DEF RowsOf
  <1>5. \A n \in 1..k : /\ f[n].table = "points" /\ f[n].ordinal = n
                        /\ f[n].value = s[n] /\ f[n].id = base + n
    BY <1>3
  <1>6. \A i, j \in 1..k : f[i] = f[j] => i = j
    BY <1>5
  <1>e. ASSUME NEW n \in Nat, n <= k PROVE Cardinality({f[i] : i \in 1..n}) = n
    <2>1. \A i, j \in 1..n : f[i] = f[j] => i = j
      BY <1>1, <1>6, <1>e
    <2> QED
      BY <2>1, InjectionCounts, ZenonT(30)
  <1> DEFINE all(table) == {r \in rows : r.table = table}
             upTo(r, table) == {q \in all(table) : \/ q.ordinal < r.ordinal
                                                   \/ /\ q.ordinal = r.ordinal
                                                      /\ q.id <= r.id}
             place(r, table) == Cardinality(upTo(r, table))
             value(n, table) == (CHOOSE r \in all(table) : place(r, table) = n).value
  <1>7. all("points") = rows /\ all("results") = {}
    BY <1>4, <1>5
  <1>8. Cardinality(all("points")) = k /\ Cardinality(all("results")) = 0
    <2>1. k \in Nat /\ k <= k
      BY <1>1
    <2>2. Cardinality({f[i] : i \in 1..k}) = k
      BY <1>e, <2>1
    <2> QED
      BY <1>4, <1>7, <2>2, FS_EmptySet
  <1>9. /\ Stored("points") = [n \in 1..k |-> value(n, "points")]
        /\ Stored("results") = [n \in 1..0 |-> value(n, "results")]
    BY <1>8 DEF Stored
  <1>10. ASSUME NEW n \in 1..k PROVE place(f[n], "points") = n
    <2>1. \A i \in 1..k : f[i] \in upTo(f[n], "points") <=> i <= n
      <3> SUFFICES ASSUME NEW i \in 1..k
                   PROVE  f[i] \in upTo(f[n], "points") <=> i <= n
        OBVIOUS
      <3>1. i \in Int /\ n \in Int /\ f[i] \in all("points")
        BY <1>4, <1>7
      <3>2. /\ f[i].ordinal = i /\ f[i].id = base + i
            /\ f[n].ordinal = n /\ f[n].id = base + n
        BY <1>5, <1>10
      <3> HIDE DEF all
      <3> QED
        BY <3>1, <3>2
    <2>2. upTo(f[n], "points") = {f[i] : i \in 1..n}
      <3>1. ASSUME NEW q \in upTo(f[n], "points") PROVE q \in {f[i] : i \in 1..n}
        <4>1. PICK i \in 1..k : q = f[i]
          BY <1>4, <1>7, <3>1
        <4>2. i \in 1..n
          BY <2>1, <3>1, <4>1
        <4> QED
          BY <4>1, <4>2
      <3>2. ASSUME NEW i \in 1..n PROVE f[i] \in upTo(f[n], "points")
        BY <2>1
      <3> HIDE DEF upTo
      <3> QED
        BY <3>1, <3>2
    <2>3. n \in Nat /\ n <= k
      BY <1>1
    <2>4. Cardinality({f[i] : i \in 1..n}) = n
      BY <1>e, <2>3
    <2> HIDE DEF upTo
    <2> QED
      BY <2>2, <2>4
  <1>11. ASSUME NEW n \in 1..k PROVE value(n, "points") = s[n]
    <2> HIDE DEF upTo, place, all
    <2>1. \A r \in all("points") : place(r, "points") = n => r = f[n]
      <3>1. ASSUME NEW r \in all("points"), place(r, "points") = n PROVE r = f[n]
        <4>1. PICK i \in 1..k : r = f[i]
          BY <1>4, <1>7, <3>1
        <4> QED
          BY <1>10, <3>1, <4>1
      <3> QED
        BY <3>1
    <2>2. f[n] \in all("points") /\ place(f[n], "points") = n
      BY <1>4, <1>7, <1>10
    <2>3. (CHOOSE r \in all("points") : place(r, "points") = n) = f[n]
      BY <2>1, <2>2
    <2> QED
      BY <1>5, <2>3
  <1>12. [n \in 1..k |-> value(n, "points")] = s
    <2> HIDE DEF value
    <2>1. [n \in 1..k |-> value(n, "points")] = [n \in 1..k |-> s[n]]
      BY <1>11
    <2> QED
      BY <1>2, <2>1
  <1>13. [n \in 1..0 |-> value(n, "results")] = <<>>
    <2> HIDE DEF value
    <2> QED
      OBVIOUS
  <1> QED
    BY <1>9, <1>12, <1>13

(* A step of the only process that changes none of the rows. *)
LEMMA ProcessKeepsPointsInv ==
  ASSUME StoreInv, PointsInv, NEW p \in Processes, Processes = {p}, NEW s, GoesOn(p, s),
         s.point \in Nat, SavesAll(p)', UNCHANGED <<job, acked, rows, ids>>
  PROVE  PointsInv'
  <1>1. p \in Actors /\ Worker \in Actors \ {p}
    BY StoreAssumption DEF Actors
  <1>2. session'[p] = s /\ session'[Worker] = session[Worker]
    BY <1>1, OneSessionMoves
  <1> QED
    BY <1>2 DEF PointsInv

(* A step of a run that one process serves, as it answers and saves points. *)
LEMMA StepKeepsPointsInv ==
  ASSUME StoreInv, PointsInv, [Next]_vars, kind = "observed", NEW p, Processes = {p}
  PROVE  PointsInv'
  <1>a. p \in Processes /\ p \in Actors /\ Worker \in Actors \ {p} /\ Actors = {p, Worker}
    BY StoreAssumption DEF Actors
  <1>b. At(Worker, "idle") /\ job = "none" /\ SavesAll(p) /\ session[p].point \in Nat
    BY <1>a, IdleIsSession DEF PointsInv, At
  <1>c. Stored("points") = acked /\ Stored("results") = <<>>
    BY StoredPoints DEF PointsInv
  <1>d. IsSession(session[p])
    BY <1>a DEF StoreInv
  <1>1. CASE CreateRun
    BY <1>1 DEF CreateRun, PointsInv, SavesAll, Saves
  <1>2. ASSUME NEW a \in Actors, Get(a) PROVE PointsInv'
    <2>1. a = p /\ UNCHANGED <<job, acked, rows, ids>>
      BY <1>2, <1>a, <1>b DEF Get, Read, At
    <2>2. PICK s : /\ GoesOn(p, s) /\ s.point = session[p].point
                   /\ \/ At(p, "row") /\ s.pc = "results"
                      \/ /\ At(p, "results") /\ s.pc = "points"
                         /\ s.copy.results = Stored("results")
                      \/ /\ At(p, "points") /\ s.pc = "got"
                         /\ s.copy.results = session[p].copy.results
                         /\ s.copy.points = Stored("points")
      BY <1>2, <1>a, <2>1, GetMoves
    <2>3. session'[p] = s
      BY <1>a, <2>2, OneSessionMoves
    <2>4. SavesAll(p)'
      BY <1>b, <1>c, <2>1, <2>2, <2>3 DEF SavesAll, Saves, At
    <2> QED
      BY <1>a, <1>b, <2>1, <2>2, <2>4, ProcessKeepsPointsInv
  <1>3. ASSUME NEW a \in Actors,
               \/ UpdateRow(a)
               \/ \E n \in DOMAIN Tables : DeleteBegins(a, n) \/ DeleteEnds(a, n)
        PROVE  PointsInv'
    <2>1. UNCHANGED <<job, acked, rows, ids>>
      BY <1>3 DEF UpdateRow, DeleteBegins, DeleteEnds
    <2>2. PICK s : /\ GoesOn(a, s) /\ s.point = session[a].point
                   /\ s.copy = session[a].copy
                   /\ session[a].pc \in Saves \ {"insert"} /\ s.pc \in Saves \ {"save"}
                   /\ s.pc = "deleting-points" =>
                        s.snapshot = IdsOf({r \in rows : r.table = "points"})
                   /\ s.pc = "insert" =>
                        /\ session[a].pc = "deleting-points"
                        /\ session[a].snapshot \cap IdsOf(rows) \subseteq s.marked
      BY <1>3, SaveMoves
    <2>3. a = p
      BY <1>3, <1>a, <1>b, <2>2 DEF At, Saves
    <2>4. session'[p] = s
      BY <1>a, <2>2, <2>3, OneSessionMoves
    <2>5. {r \in rows : r.table = "points"} = rows
      BY DEF PointsInv, RowsOf
    <2>6. s.pc = "insert" => IdsOf(rows) \subseteq s.marked
      BY <1>b, <2>2, <2>3 DEF SavesAll
    <2>7. SavesAll(p)'
      BY <1>b, <2>1, <2>2, <2>3, <2>4, <2>5, <2>6 DEF SavesAll, Saves, IdsOf
    <2> QED
      BY <1>a, <1>b, <2>1, <2>2, <2>3, <2>7, ProcessKeepsPointsInv
  <1>4. ASSUME GoesOn(p, Idle), UNCHANGED <<job, acked, rows, ids>> PROVE PointsInv'
    <2>1. session'[p] = Idle /\ Idle.point = 0
      BY <1>4, <1>a, OneSessionMoves DEF Idle
    <2>2. SavesAll(p)'
      BY <2>1, IdleIsSession DEF SavesAll, Saves
    <2> QED
      BY <1>4, <1>a, <2>1, <2>2, ProcessKeepsPointsInv
  <1>5. ASSUME NEW a \in Actors, Abort(a) PROVE PointsInv'
    <2>1. a = p
      BY <1>5, <1>a, <1>b DEF Abort
    <2> QED
      BY <1>4, <1>5, <1>a, <2>1, IdleIsSession DEF Abort, GoesOn
  <1>6. ASSUME BeginView(p) \/ BeginPoint(p) PROVE PointsInv'
    <2>1. PICK want : Begin(p, want)
      BY <1>6 DEF BeginView, BeginPoint
    <2>2. PICK s : GoesOn(p, s) /\ s.pc = "row" /\ s.point = points + 1
      BY <1>a, <2>1, BeginMoves
    <2>3. session'[p] = s /\ s.point \in Nat
      BY <1>a, <2>2, OneSessionMoves DEF StoreInv
    <2>4. SavesAll(p)'
      BY <2>2, <2>3 DEF SavesAll, Saves
    <2> QED
      BY <1>a, <2>1, <2>2, <2>3, <2>4, ProcessKeepsPointsInv DEF Begin
  <1>7. CASE ReturnView(p)
    BY <1>4, <1>7, IdleIsSession DEF ReturnView, GoesOn
  <1>8. CASE AppendPoint(p)
    <2>1. UNCHANGED <<job, acked, rows, ids>>
      BY <1>8 DEF AppendPoint
    <2>2. PICK s : /\ GoesOn(p, s) /\ At(p, "got") /\ s.pc = "save"
                   /\ s.point = session[p].point
                   /\ s.copy.results = session[p].copy.results
                   /\ s.copy.points = Append(session[p].copy.points, session[p].point)
      BY <1>8, <1>a, AppendPointMoves
    <2>3. session'[p] = s
      BY <1>a, <2>2, OneSessionMoves
    <2>4. SavesAll(p)'
      BY <1>b, <2>1, <2>2, <2>3 DEF SavesAll, Saves, At
    <2> QED
      BY <1>a, <1>b, <2>1, <2>2, <2>4, ProcessKeepsPointsInv
  <1>9. CASE SavePoint(p)
    <2>1. /\ At(p, "insert") /\ rows' = ReplaceRows(p) /\ job' = job
          /\ ids' = ids + Cardinality(NewRows(p)) /\ GoesOn(p, Idle)
          /\ acked' = Append(acked, session[p].point)
      BY <1>9, IdleIsSession DEF SavePoint, InsertAndCommit, GoesOn
    <2>2. /\ session'[p] = Idle /\ session'[Worker] = session[Worker]
          /\ Idle.point = 0 /\ Idle.pc = "idle"
      BY <1>a, <2>1, OneSessionMoves, IdleIsSession DEF Idle
    <2>3. /\ session[p].copy.results = <<>> /\ session[p].copy.points = acked'
          /\ IdsOf(rows) \subseteq session[p].marked
      BY <1>b, <2>1 DEF SavesAll, Saves, At
    <2>4. PICK t \in Seq(Nat) : t = acked'
      <3>1. acked' \in Seq(Nat)
        BY <1>b, <2>1 DEF PointsInv
      <3> QED
        BY <3>1
    <2>5. PICK i \in Nat : i = ids
      BY DEF PointsInv
    <2>6. NewRows(p) = RowsOf(t, i)
      <3>1. DOMAIN session[p].copy.results = {} /\ Len(session[p].copy.results) = 0
        BY <2>3
      <3>2. NewRows(p) = {[table |-> "points", ordinal |-> n, value |-> t[n],
                           id |-> i + 0 + n] : n \in DOMAIN t}
        BY <2>3, <2>4, <2>5, <3>1 DEF NewRows
      <3>3. \A n \in DOMAIN t : i + 0 + n = i + n
        BY <2>4, <2>5
      <3> QED
        BY <3>2, <3>3 DEF RowsOf
    <2>7. {r \in rows : r.id \notin session[p].marked} = {}
      BY <2>3 DEF IdsOf
    <2>8. rows' = RowsOf(t, i)
      BY <2>1, <2>6, <2>7 DEF ReplaceRows
    <2>9. ids' \in Nat
      <3>1. IsFiniteSet(rows')
        BY <1>a, <2>1, InsertsFinitely
      <3>2. Cardinality(NewRows(p)) \in Nat
        BY <2>6, <2>8, <3>1, FS_CardinalityType
      <3> QED
        BY <2>1, <2>5, <3>2
    <2>10. SavesAll(p)'
      BY <2>2 DEF SavesAll, Saves
    <2> QED
      BY <1>a, <2>1, <2>2, <2>4, <2>5, <2>8, <2>9, <2>10 DEF PointsInv
  <1>10. CASE Claim \/ CommitLeasedResult \/ \E status \in Ended : Execute(status)
    BY <1>10, <1>b DEF Claim, CommitLeasedResult, Execute, At
  <1>11. CASE UNCHANGED vars
    BY <1>11 DEF vars, PointsInv, SavesAll, IdsOf
  <1> QED
    BY <1>1, <1>2, <1>3, <1>5, <1>6, <1>7, <1>8, <1>9, <1>10, <1>11 DEF Next

(* AnsweredPointsAreStored, of every number of points and failures: a run that
   one process serves has the points it answered, each once and in their order,
   whatever fails between the DELETEs, the INSERTs and the commit of a save. *)
THEOREM AnsweredPointsAreKept ==
  (\E p : Processes = {p}) => (Spec => []AnsweredPointsAreStored)
  <1> SUFFICES ASSUME NEW p, Processes = {p} PROVE Spec => []AnsweredPointsAreStored
    OBVIOUS
  <1>1. Init => (kind = "observed" => PointsInv)
    <2> SUFFICES ASSUME Init PROVE PointsInv
      OBVIOUS
    <2>1. \A a \in Actors : session[a] = Idle
      BY DEF Init
    <2>2. Worker \in Actors /\ Processes \subseteq Actors /\ Idle.point = 0
      BY DEF Actors, Idle
    <2>3. acked = <<>> /\ rows = {} /\ DOMAIN <<>> = {} /\ <<>> \in Seq(Nat)
      BY DEF Init
    <2>4. rows = RowsOf(acked, 0)
      BY <2>3 DEF RowsOf
    <2>5. \A q \in Processes : session[q].point \in Nat /\ SavesAll(q)
      BY <2>1, <2>2, IdleIsSession DEF SavesAll, Saves
    <2> QED
      BY <2>1, <2>2, <2>3, <2>4, <2>5 DEF Init, PointsInv
  <1>2. StoreInv /\ (kind = "observed" => PointsInv) /\ [Next]_vars
          => (kind = "observed" => PointsInv)'
    <2>1. [Next]_vars => kind' = kind
      BY DEF Next, vars, CreateRun, Get, UpdateRow, Abort, DeleteBegins, DeleteEnds,
             BeginView, BeginPoint, Begin, ReturnView, AppendPoint, SavePoint, Claim,
             CommitLeasedResult, Execute
    <2> QED
      BY <2>1, StepKeepsPointsInv
  <1>3. (kind = "observed" => PointsInv) => AnsweredPointsAreStored
    BY StoredPoints DEF PointsInv, AnsweredPointsAreStored
  <1> QED
    BY <1>1, <1>2, <1>3, StoreInvariance, PTL DEF Spec

=============================================================================
