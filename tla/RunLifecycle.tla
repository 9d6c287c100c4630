---------------------------- MODULE RunLifecycle ----------------------------
(***************************************************************************)
(* What POST /runs/async promises about one run, without leases, tokens,   *)
(* clocks, heartbeats or crashes: a submitted run is attempted at most     *)
(* MaxAttempts times and ends at most once, as completed after some        *)
(* attempt, as failed after the last attempt, or abandoned, its row still  *)
(* running, when the last attempt is lost or the run row is missing.       *)
(* RunWorker implements it.                                                *)
(***************************************************************************)
EXTENDS Naturals

CONSTANTS Runs, MaxAttempts

VARIABLES
  outcome,   \* outcome[r]: how far run r has come
  attempts   \* attempts[r]: how many times it has been started

vars == <<outcome, attempts>>

Outcomes == {"unknown", "submitted", "completed", "failed", "abandoned"}

Init ==
  /\ outcome = [r \in Runs |-> "unknown"]
  /\ attempts = [r \in Runs |-> 0]

Submit(r) ==
  /\ outcome[r] = "unknown"
  /\ outcome' = [outcome EXCEPT ![r] = "submitted"]
  /\ UNCHANGED attempts

\* The runs of lost are given up after their last attempt; the runs of begun
\* (at most one) start another attempt.
Poll(lost, begun) ==
  /\ \A r \in lost : outcome[r] = "submitted" /\ attempts[r] = MaxAttempts
  /\ \A r \in begun : outcome[r] = "submitted" /\ attempts[r] < MaxAttempts
  /\ \A r, q \in begun : r = q
  /\ outcome' = [r \in Runs |-> IF r \in lost THEN "abandoned" ELSE outcome[r]]
  /\ attempts' = [r \in Runs |-> IF r \in begun THEN attempts[r] + 1
                                                ELSE attempts[r]]

Succeed(r) ==
  /\ outcome[r] = "submitted" /\ attempts[r] > 0
  /\ outcome' = [outcome EXCEPT ![r] = "completed"]
  /\ UNCHANGED attempts

FailForGood(r) ==
  /\ outcome[r] = "submitted" /\ attempts[r] = MaxAttempts
  /\ outcome' = [outcome EXCEPT ![r] = "failed"]
  /\ UNCHANGED attempts

\* The job of a run that does not exist.
AbandonMissing(r) ==
  /\ outcome[r] = "submitted" /\ attempts[r] > 0
  /\ outcome' = [outcome EXCEPT ![r] = "abandoned"]
  /\ UNCHANGED attempts

Next ==
  \/ \E r \in Runs : \/ Submit(r)
                     \/ Succeed(r)
                     \/ FailForGood(r)
                     \/ AbandonMissing(r)
  \/ \E lost, begun \in SUBSET Runs : Poll(lost, begun)

Spec == Init /\ [][Next]_vars

=============================================================================
