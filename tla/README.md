# VoxBench in TLA+

VoxBench runs and observes voice calls, records the audio between the stages of
a call's pipeline, verifies the recordings and shows the evidence on a timeline.
This directory models the parts of it that keep state across threads, tasks,
processes and failures, and the algorithms that derive the timeline; checks them
with TLC on small instances; and proves the central results of the job queue, its
workers and their supervisor, of the observer and a call session, of the
connections of a realtime call and of the run repositories with TLAPS for instances of every size.

All paths below are relative to the repository (`src/voxbench/...` is
`src/src/voxbench/...` in `PROJECT.json`).

## 1. The system

| Component | State | Operations | Hard behaviour |
|---|---|---|---|
| Run job queue (`control_plane/job_queue.py`, `commit_leased_result` and `save_queued_run` of `run_api.py`) | tables `run_jobs` and `runs` | enqueue, claim, heartbeat, complete, fail, commit a leased result | several workers; leases that expire; clock readings older than the transaction that uses them; lost answers |
| Run worker (`control_plane/run_worker.py`) | the lease it holds, its copy of the run, its heartbeat thread | run_one: claim, get, execute, stop the heartbeat, record | crashes, takeover by another worker, a heartbeat that outlives its join |
| Run worker supervisor (same file) | stop event, thread reference | start, stop, the polling loop | start and stop from several threads, joins that time out |
| Config registry (`registry/`) | manifests, configs | register, resolve through parents, validate, complete | cycles and chains of overlays |
| Observer and HTTP transport (`observability/observer.py`) | five lists of pending observations, the last frame of each stage | observe, flush | flushes concurrent with each other and with observing; lost, late and repeated requests; one batch of several failing; audio cut into chunks |
| Run API, observed runs (`control_plane/run_api.py`) | the stored run, audio buffers in memory, WAV files | ingest a batch, post a point, complete, fail | restarts, saves that fail after side effects, requests after the end |
| AudioSocket bridge (`telephony/audiosocket.py`) | playback buffer, positions, barge-in state, background flush | send and receive audio, barge-in, playback marks, close | three tasks of one call on shared fields with awaits in between; end of a call at any moment |
| Realtime providers (`realtime_providers/providers.py`) | a connection, whether a response is active | connect with retry, send, receive, interrupt, truncate | retries, disconnects |
| AMI RTCP collector (`telephony/ami_rtcp.py`) | a connection, an observer of its own | login, collect | cancellation while a flush runs on in a thread |
| RTP packet tap (`observer.py`) | packet and drop counters | observe packets, report health windows | a capture thread and a reporting thread |
| Run repositories (`run_api.py`) | tables, or shared objects | get, save, views | statements of several transactions, threads that assign fields while others read them |
| Timeline and incidents (`run_api.py`), verification (`verification/core.py`) | none | derive evidence, intervals and incidents from what is stored; compare recordings | wrapping numbers, windows, order of storing against order of time, stages that have nothing |
| Scoring, aggregation, media conversion, storage, audio sessions, harness, synthetic caller, live demo, CLI, web UI, configuration | | sequential, arithmetic, presentation, wiring | |

Interactions: the API resolves a config and submits a run with
`save_queued_run`; workers claim it and record it with `commit_leased_result`.  A
call session of the bridge connects to a provider, creates an observed run
through the API, observes into a `VoxBenchObserver`, flushes it in background
threads through `HttpObservationTransport` to `POST /v1/observations`, and ends
the run with `/complete` or `/fail`; the RTCP collector of the call and the
packet tap have observers of their own.  `GET /runs/{id}` derives the timeline
from what is stored, in any state of the run.

What makes the parts correct: every attempt of a job is handed out once and only
the newest can store a result; the run and its job end together; a job always
ends; there is one polling loop; no observation is lost or stored out of order,
and timeline events are stored once; a run that has ended holds everything the
call observed and stays as it was verified; after a barge-in the caller hears
nothing of the old answer, and an answer is truncated where it was really
interrupted; a call that ends in any way ends its run; the timeline reports what
happened, each thing once, with evidence that is there.  `PROJECT.json` lists
under "hazards" the lines where each of these could go wrong, with the
properties that would notice.

## 2. The modules

| Module | Models | Extends |
|---|---|---|
| `RunJobQueue` | the transactions on `run_jobs` and `runs`, arbitrary clients | |
| `RunJobQueueProofs` | theorems about it | `RunJobQueue`, `TLAPS` |
| `RunLifecycle` | abstract: what `POST /runs/async` promises of one run | |
| `RunWorker` | `RunJobWorker.run_one` and `_LeaseHeartbeat` on the queue | `RunJobQueue`; refines `RunLifecycle` |
| `RunWorkerProofs` | theorems about it | `RunWorker`, `RunJobQueueProofs` |
| `RunWorkerSupervisor` | `start`, `stop` and `_run` | |
| `RunWorkerSupervisorProofs` | theorems about it | `RunWorkerSupervisor`, `TLAPS` |
| `ConfigRegistry` | `RegistryService` and `deep_merge` | |
| `Observer` | `VoxBenchObserver`, the transport, the ingest handlers, arbitrary threads | |
| `ObserverProofs` | theorems about it and about `StageAudio` | `Observer`, `StageAudio`, `TLAPS` |
| `StageAudio` | the click detector of `observe_stage_audio` | |
| `ObservedCall` | a call session's background flush and its `close` | `Observer` |
| `ObservedCallProofs` | theorems about it | `ObservedCall`, `ObserverProofs` |
| `RealtimeProvider` | `receive`, `interrupt`, `truncate_audio` of the provider sessions | |
| `RealtimeCall` | the producer, the output pump and the connection handler of a call | `RealtimeProvider` |
| `RealtimeCallProofs` | theorems about its end, its playback and its barge-ins | `RealtimeCall`, `TLAPS` |
| `CallSetup` | `create_session`, `connect_with_retry`, the RTCP collector, the end | |
| `CallSetupProofs` | theorems about it | `CallSetup`, `TLAPS` |
| `RtpTimeline` | `RtpPacketTapAdapter`, and the packet rules of the timeline | |
| `RtpQuality` | RTCP statistics and the quality incidents | |
| `CallTimeline` | answers, playback, waits, underruns, silence, dead air, barge-ins | |
| `StageTimeline` | stage metrics, `verify_recordings`, signal, clipping, cadence and contraction incidents | |
| `RunStore` | `PostgresRunRepository`, statement by statement | |
| `MemoryRuns` | background runs on `InMemoryRunRepository` and `/live` | |
| `RunRepositoryProofs` | theorems about both | `RunStore`, `MemoryRuns`, `TLAPS` |
| `MC*` | small instances | |

**RunJobQueue.**  One action is one database transaction.  The code reads the
clock before it opens the transaction, so every action takes a reading `t` of any
earlier time.  `FOR UPDATE SKIP LOCKED` is the parameter `locked` of `Claim`: any
set of rows may be locked by others.  Rows carry the columns the conditions look
at.  `leases` remembers every lease ever handed out, and the clients are
arbitrary: any worker may call any operation with any of these leases at any
time.  This is what fencing has to withstand, and what the theorems are about.
A run row remembers in `by` the token of the lease it was committed under (a
history variable).  A transaction that finds no row changes nothing and is not
an action.

**RunWorker.**  A worker has two threads.  `task[w]` is where `run_one` stands
between its calls (`claim`, `get`, `execute`, `join`, `commit`, `retry`,
`missing`) and the clock reading of a call under way; `beat[w]` is the heartbeat
thread.  Calls are split in two where the code reads the clock, so time and other
workers come between.  Faults, at most `MaxFaults`: a call's answer is lost or its
transaction rolled back (`CallFails`), the process dies (`Crash`), a heartbeat
call raises (`BeatFails`), the heartbeat thread does not end within the join
timeout (`JoinTimeout`) and its call becomes a member of `zombies` that may still
be applied at any time.  `EnqueueOrphan` is a job whose run row is missing.

**RunWorkerSupervisor.**  `stop` is split where the code does not hold the lock:
set the event, read the reference, join, forget the thread.  A join of a live
thread that ends is a timeout.  `run_one` is a step that returns or raises.

**ConfigRegistry.**  Manifests and configs of one request are registered, then
one name is resolved.  A config has a parent, labels (nested objects, merged key
by key) and a pipeline (replaced as a whole).  The recursion over parents and over
objects is the code's; the properties say what it must give by the transitive
closure of the parent relation and by paths, without recursion.

**Observer.**  The five lists are three kinds, told apart by what the API does
with them: stored as it comes ("metric", SIP events and RTP stats too), appended
to a WAV file ("audio"), stored once per id ("event").  Observations of a kind
are numbered as they are observed, so order, loss and repetition are visible.
An observe method appends to several lists under one lock (`ObservedTogether`).
`flush[f].unsent` is what a call of flush has taken and not yet had acknowledged;
`FirstPart` is the batch being sent.  A handler of the API is one step: it runs
on one event loop without an await between reading and saving the run.  A save
that fails leaves the side effects that came before it: the audio written, the
buffers deleted.

**StageAudio.**  A stage's PCM comes in chunks of any length, also empty ones,
and in changing formats; the detector keeps the last frame, the offset and the
time of its last event, and the history variable `stream` keeps everything.  The
code's check of a minimal level is there, although a jump over the threshold has
that level anyway.

**ObservedCall.**  A session observes and starts one background flush at a time
("task"), also while `close` awaits the provider; `close` goes through `closing` (BYE observed, provider being closed),
`await` (the background flush), `flush` (the final one) and `end`.  An exception
of either flush leaves `close` (`aborted`), as in the code.

**RealtimeProvider and RealtimeCall.**  A step of the call goes from one
suspension of a task to the next: all three tasks run on one event loop, and
between two awaits nothing else happens.  Audio is counted in units; a
unit is named by the provider's message it came with and by its place in it, so
that a packet knows what it consists of and no unit is the same as another;
`frames` remembers what became of each packet (queued, written, dropped by a full
buffer, discarded by a barge-in), `epoch` how many barge-ins there had been.  Barge-in is
split at its two awaits (`interrupt`, `truncate_audio`), between which the pump
goes on writing and marking.  The services behind the OpenAI, Gemini and dry-run
sessions are external: any message may come at any time, and the connection may
be lost at any time.  Signal processing is left out except for whose samples the
resampler's memory holds.

**CallSetup.**  `setup` walks through the connection attempts with their backoff,
the flush of their metrics, and the failure or start of the session; `open` is
the connections nobody has closed; `collector` is the task of the RTCP collector
and the thread its flush runs in, which a cancellation does not stop.  A flush
here delivers everything or fails, before or after it was stored: the detail is
in `Observer`.  `CloseBegins` is `close` up to the cancellation of the collector,
or up to the failure of a background flush that is raised before it; what the call
observes meanwhile is in `ObservedCall`, what it plays in `RealtimeCall`.

**RtpTimeline and RtpQuality.**  A packet has a number that never wraps and that
no code sees; its header has it modulo the width of the field.  Packets are lost,
delayed, repeated, dropped by the capture or malformed; the media thread, the
thread that records drops and the reporting thread are split at their locks.
`CaptureIsJudged` compares the reports and the incidents with what the capture has
missed, of which the history variable keeps the times; what it missed after
`report_health` took its time and before its lock is its one exception.  The
rules of the timeline are operators on what is stored, evaluated in every state.
`RtpQuality` does the same for statistics that arrive in any order.

**CallTimeline and StageTimeline.**  The actions store observations, some of them
late.  The loops of the projections are folds with the code's accumulators; the
properties compare them with definitions that have none.  Stage names are assumed
to be distinct: metrics and recordings are kept by name in the code.
`VerifyRecordings` is the whole of `verify_recordings`: the last recording before
a stage, tolerances, expected loss and files that cannot be read.

**RunStore and MemoryRuns.**  `RunStore` takes a get and a save apart into
statements under READ COMMITTED, with the row's lock taken only when the row
changes, and rollback at any of them.  The uniqueness of event ids per run is
left out (points have none).  `MemoryRuns` assigns the fields of a shared run one
by one in a thread, while the event loop reads them one by one.

**Several instances in one model.**  An MC module extends the component modules
it checks.  Its variable `subject` (`pace` in `MCRunWorker`, `api` in
`MCObservedCall`) is chosen at the start and says whose steps a behaviour has; the
variables of the others rest in their initial state.  Further instances of a
module with other bounds are `INSTANCE ... WITH` on the same variables.  So the
state space is the sum, not the product, of those of the instances.  A fairness
condition holds for the behaviours of its own subject.

## 3. Runs

Properties that belong to one idea are conjuncts of one named property; every
conjunct has its own comment in the module, and nearly every one a mutant of its
own in `PROJECT.json`.

| Run | Shows | Instances and bounds |
|---|---|---|
| `control_plane` | attempts are handed out once; a stored result is the newest attempt's; unexpired leases are kept; ends are final; one loop, whose stops are never taken back and work; configs resolve as their overlays say (`ResolvedConfigIsRight`) | queue: 2 runs, 2 workers, 2 attempts, clock 0..3, so that a lease of 2 can expire and be taken over and a reading can be older than a whole lease. supervisor: 3 callers (a stop that timed out, a second stop and a start), 3 threads. registry: 3 configs with chains of three, cycles through one to three configs and an unknown parent; objects two levels deep |
| `worker` | results commit together, leases are exclusive, only the holder writes and never shortens its lease (`RowsAreTheHolders`), the life of a run is `RunLifecycle`'s; heartbeats of punctual workers keep a lease; their jobs end | 1 run, 2 workers, 2 attempts, 2 faults. any pace: clock 0..4. punctual: clock 0..12, long enough for two expired leases and the retries, executions as long as a lease |
| `observer` | nothing is lost, `DeliveredOnce`, a verified run stays, `ClicksAreReported` | 2 flushing threads, 4 observations with one event per batch, 2 faults, 1 posted point; 5 frames of 3 values in chunks of 0 to 2, 2 formats |
| `observed_call` | order of arrival (`FlushesInv`), completeness of an ended run, `close` ends | 2 metrics and PCM chunks besides the BYE, and an event, with 2 faults and no refusal; or 2 observations of each kind, 1 fault and one event refused for ever |
| `realtime_call` | `PlaybackInv`, `BargeInInv`, `PumpFailureFailsRun`, the call ends when the provider has; `ConnectionInv`, `CollectorInv` | long calls: 4 messages (with Gemini 3) of one and a half packets, 3 places in the buffer, so that it overflows; brief ones: 2 messages, also empty; all session classes, 2 items. setup: 3 attempts with the cap between the first two delays, 2 errors, 2 RTCP events at the edges of their ranges, 2 faults |
| `network_timeline` | `PacketEvidenceIsTrue`, `CaptureIsJudged`, `QualityIncidentsAreTrue` | 5 packets, 2 faults and a second adapter, sequence numbers modulo 8 and time stamps modulo 16 that both wrap in between; a capture with health reports that counts its drops: 3 packets, 2 faults, 2 reports, so that a gap may be the network's in a verified window, or hide a drop or a packet that could not be decoded in a compromised one; one that counts from the first drop on: 1 fault; 3 statistics at 4 times around the start of the run and the window's gap |
| `call_timeline` | `TurnsAreTrue`, `SilenceIsTrue`, `IncidentsAreWhole`, `StagesAreJudged` | four instances by the kinds of observations, 4 or 5 of them, 2 bursts, 2 stages, thresholds of 2 time units; stages: 3 of them with every kind of invariant, 3 observations; clipping alone with more values |
| `run_store` | `StoredRunIsWhole`, `EndIsShownWhole`, the end is shown | one process with 4 points and 2 faults; a queued run with 3 attempts and 4 views by 2 processes; 2 runs in memory |
| `worker_failure` (violation) | a job can fail without its run | 1 worker, 2 attempts, 2 faults |
| `observer_immutable` (violation) | a completed run still grows by posted points | as `observer` |
| `observed_call_abort` (violation) | a failed flush keeps `close` from failing the run | as `observed_call`, 1 fault |
| `run_store_fenced` (violation) | a point saved from an old copy takes back a worker's committed result | a queued run, 1 process, 3 points |

Wrapping moduli, thresholds and windows are scaled down together; what the rules
compare (half of a modulus, a threshold, a gap) is crossed in both directions
within the bounds.  Deadlock is not checked: every one of these systems may stop,
when the clock has reached its bound, when the call is over, or when nobody
submits anything.

**Fairness.**  Punctual workers: the clock goes on and threads that can run do;
faults and submissions are not forced.  Supervisor: worker threads run and
`run_one` ends.  `observed_call`: a request is answered or times out (`urlopen`
has a timeout) and `close` goes on when it can; nobody has to hang up, and the
control plane need not accept.  Brief realtime calls: the event loop resumes a
task that can go on; the provider need not send and the caller need not hang up.
Memory runs: a started thread runs to its end, and `/live` is read again.

**The four violations** are disagreements between the code and its documents.

1. `DESIGN.md` says that the final attempt settles the failed run and the failed
   job in one fenced transaction.  When the last attempt is lost (a crash, a lost
   lease, a lost answer of claim), the next `claim` fails the job alone, and the
   run is reported as running for ever.  `RunLifecycle` calls this "abandoned".
2. `docs/library-integration.md` says that completing a run makes it immutable.
   `POST /v1/sip-events` and `/v1/rtp-stats` do not look at the status.
3. `README.md` says that a disconnect during a call fails the run.
   `RealtimeCallSession.close` awaits its flushes without a handler; one that
   failed, even a background flush long before the end, leaves `close` before
   `fail_run` is called, and the run is running for ever.
4. `README.md` says that a worker's result and the end of its job are committed
   together and cannot be overwritten by a stale copy.  The two handlers of 2. get
   a run and save all of it in two transactions: a copy read before the worker's
   commit and saved after it sets the run back to running, without its results,
   while its job stays completed.

**Other disagreements met while modelling**, which the properties state as
exceptions or leave out, and which have no run of their own:

- `audiosocket.py:332`: a full playback buffer drops its oldest frame, but the
  positions behind it still count that audio; `docs/provider-adapter-guide.md:101`
  calls `audio_end_ms` the amount of audio written.
- `audiosocket.py:1390`: a hang-up while buffered audio still plays cancels the pump
  before it has met the producer's exception, and the run is completed although
  the provider was lost; `README.md:915` says it fails.
- `audiosocket.py:1439`: a frame that is being written while barge-in drains the
  buffer leaves its position behind as the one in flight.
- `audiosocket.py:781`: a receive error keeps the alias its text suggests;
  `docs/demo-live-softphone.md:498` says it is always `provider-session-error`.
- `observer.py:857`: a drop recorded after `report_health` has read its time and
  before it has the lock is counted in the window before its own
  (`docs/library-integration.md:115`).
- `run_api.py:2083`: a gap whose packets lie in two health windows has no health,
  also when one is compromised (`docs/library-integration.md:125`).
- `run_api.py:1561`: the wait for the last answer of an open run misses a playback
  that is stored (`README.md:722-724`); `WaitsEndAtFirstFrame` leaves that answer
  out if it found none.
- `run_api.py:2292`: a barge-in metric is hidden as soon as the run has any typed
  event (`README.md:651`).
- `run_api.py:3092`: two bursts in one silence of one answer are two dead-air
  incidents of one id (`README.md:640-641`).
- `run_api.py:2214`: consecutive degraded statistics from before the run's start
  may be two incidents (`README.md:662-663`).
- `run_api.py:1781`: clipping that passes a stage without observations is reported
  again (`README.md:692-695`).
- `run_api.py:2986`: with an unrecorded stage in between, one of the two recordings
  that were compared is not linked (`README.md:683-685`).
- `run_api.py:3763`: two processes that save points of one run leave the rows of
  both (`README.md:445-449`); `StoredRunIsWhole` has one process that saves points,
  and does not see it.
- `run_api.py:4145`: in memory, a view can show a completed run without its end
  (`tests/test_run_api_phase1.py:402-403` reads the first such view).

The properties also state, as their exceptions, three things the code does that
a user should know: after a lost answer metrics and PCM chunks are stored twice
(`EventsStoredOnce` covers events alone, `ArriveInOrder` excludes repetition only
without faults); after a restart of the control plane, or an end of the run that
could not be saved, the WAV file is written anew from what comes afterwards
(`NothingIsLost`); a save that fails after the audio was written doubles it.

## 4. Proofs

`RunJobQueueProofs` proves for every set of runs and workers, every positive
`MaxAttempts` and `LeaseSeconds` and unbounded time:

- `QueueTypeCorrect`: the type invariant;
- `AttemptsAreBounded`: `AttemptsHandedOutOnce`;
- `Fencing`: `StoredResultIsNewest`;
- `LiveLeases`, `EndsAreFinal`: the action properties `LiveLeaseIsKept` and
  `EndedStaysEnded`.

The assumptions are `QueueAssumption` only.  `StoredResultIsNewest` is not
inductive: a commit is admitted because the row's token is the lease's, so one
has to know that a token belongs to one lease (`TokensAreUnique`: tokens are
numbered in the order in which they are drawn, which stands for the uniqueness of
uuid4), that a leased row carries the token of the newest lease of its run
(`RowsFollowLeases`), and that attempts and leases count together
(`AttemptsHandedOutOnce`).  `QueueInv` is the conjunction of these with the type
invariant and the result; `QueueInvariance` proves it inductive with one lemma
per transaction.  The action properties follow from it step by step.

`RunWorkerSupervisorProofs` proves `SupervisorTypeCorrect`, `OneLoopAlways`
(`OneLoop`) and `StopsReachLoops` (`StopReachesLoop`) for any number of callers
and threads.  `OneLoop` needs that a call of stop that is about to forget a thread
has joined one that is dead, and that a dead thread stays dead.

`RunWorkerProofs` proves of any number of workers, each two threads, with crashes,
lost calls and answers and any delays:

- `WorkerTypeCorrect`: the type invariant;
- `ResultsAreAtomic`: `ResultsCommitTogether`;
- `LeaseExclusion`: `LeasesAreExclusive`;
- `WorkersImplementQueue`: every step of the workers is a step of the queue with
  arbitrary clients, so the theorems above hold with them; `WorkersKeepEnds` cites
  the action properties;
- `HoldersOwnRows`: `RowsAreTheHolders`;
- `Refinement`: `ImplementsLifecycle`, the safety part of `RunLifecycle`;
- `HeartbeatSuffices`: `HeartbeatKeepsLease` as long as no fault has happened, if
  workers keep up with the clock (`Timely`), for every lease and every interval of
  at most half of it.

The inductive invariant `WorkerInv` adds to `QueueInv` where the threads stand
(`ThreadInv`): a worker's lease is one that claim handed to it, so a row that
carries its token names it as the owner; a call that is on its way carries a clock
reading of the past, and a heartbeat that is being sent would not shorten the
lease.  The last needs that no lease reaches further than `LeaseSeconds` from now
(`LeasesAreShort`).  The refinement goes action by action: the abstract outcome of
a run is a function of its two rows (`OutcomeIsOfRows`), and only a claim, a
commit or the retry of the holder changes it.  `HeartbeatSuffices` rests on
`PunctualInv`: without faults there are no abandoned calls, and while a thread
works the lease outlives the next heartbeat.

`ObserverProofs` proves of any number of flushing threads, any batch limits and
any number of lost requests, lost answers, late requests and restarts:
`ObserverTypeCorrect`, `ObservationsAreNotLost` (`NothingIsLost`),
`ObservationsAreDeliveredOnce` (`DeliveredOnce`) and `EndedRunStays`
(`VerifiedRunStays`).  `NothingIsLost` is not inductive: `flush` forgets a batch
when it is acknowledged, so a batch whose acknowledgement is on its way has to be
stored (`AcceptedIsSafe`), and observations have to move between the queue and
the batches without being split or copied (`ClientInv`).  `DeliveredOnce` needs
that batches repeat no event, of late requests too (`LateInv`).

It also proves `ClicksAreRight` (`ClicksAreReported`), for any formats, samples,
thresholds, deduplication window and length of chunks.  What
`detect_pcm_s16le_discontinuity` finds in a chunk, given the one frame that is kept,
are the jumps of the uncut stream into the chunk's frames (`ChunkJumps`), and the
strongest of them is one jump (`OneStrongest`).  `ClickInv` says that
`_stage_pcm_state` keeps the last frame, the number of frames and the time of the
last event of the stream, also over an empty chunk (`FinalIsLast`), and that the
events are right of the frames so far (`Judged`).  A chunk keeps this in one of three
ways (`ReportKeeps`): it has no jump; its strongest is reported, and every other is
within a chunk of it; or its strongest is too near to the last event, and since that
event is not later than the chunk (`LastIsPast`) it is near all of the chunk's jumps
(`SuppressedIsSeen`).  The last is why a jump may be further from its event than the
deduplication window, by up to the length of a chunk.

`ObservedCallProofs` proves the same of a call session (`CallKeepsObservations`)
and what the session adds: `CloseLosesNothing` (`EndedRunHasEverything`), because
close flushes only after the background flush has ended and observes nothing
afterwards (`SessionInv`); and `ObservationsArriveInOrder` (`FlushesInv`), because
what is queued and in flight is in the order in which it was observed
(`QueueInOrder`) and every arrival, a repeated or a late one too, continues what is
stored (`ArrivalsInOrder`).

`CallSetupProofs` proves `ConnectionsAreTrue` (`ConnectionInv`) for any number of
attempts, backoff times, RTCP events and failed requests.  `SetupInv` says how many
attempts and waits lie behind each point of `create_session` (`AttemptsInv`), what
has failed if it has raised (`RunInv`), which connections are open (`OpenInv`, by
counting the attempts whose `session.update` could not be sent), and that the
metrics of the connection that are pending or stored are true and stored all
together (`MetricsInv`): only so does the newest value of each name give a status
that is true.  That the collector's steps disturb none of this is one lemma
(`CollectorStepKeepsInv`).  `CollectorIsTrue` (`CollectorInv`) rests on `CollectInv`
beside it: the collector observes only when no flush is left to be done, so that at
most one event waits, with the failure of a flush behind it (`QueueInv`); each event
has a point of its own, waiting or stored (`PointsInv`); the metric of the failure
is the newest point from then on (`FailureInv`), which is why the newest stored one
decides what the live view shows; a point may wait although it is stored, which the
failed deliveries have to pay for (`RepeatsInv`); and without any the points are
stored before those that wait (`OrderInv`).

`RealtimeCallProofs` proves of a call, for any sessions, sizes of packets and of
messages, places in the buffer and numbers of messages, items and barge-ins:

- `PumpFailuresAreKnown`: `PumpFailureFailsRun`;
- `TimelineCloses`: `TimelineIsClosed`, a conjunct of `PlaybackInv`;
- `PlaybackIsRight`: `PlaybackInv`;
- `BargeInIsRight`: `BargeInInv`.

The first two rest on `EndInv`: from the beginning of close on no pump
writes and its failure has become the alias of the handler, and once close has
ended no message is left that could begin a speech (`ClosingInv`); speech is
numbered by its barge-in, and what was started and is not open was stopped, once
(`SpeechInv`).  What the audio consists of does not come into it.

The other two are about the audio, and none of their parts is inductive.  The
invariant `CallAudioInv` follows every unit from the message it came with to the
packet that takes it away:

- `QueueInv`: the queue holds the youngest packets, in the order in which they were
  cut.  Only so is the packet that a full queue drops, or that the pump takes, the
  oldest that is left, and the drop metric right without looking at the others;
- `OrderInv`: the units of the packets, and after them those of the buffer, are in
  the order of the messages (`AudioIsInOrder`);
- `AccountInv`: the accounts of `_consume_buffered_sources` cover exactly the units
  in the buffer.  It is stated for the units from the k-th on, because the code
  counts the accounts down unit by unit before it cuts the packet
  (`ConsumeUnitTakes`, `ConsumeSourcesTakes`);
- `FrameInv` and `BufferInv`: what is in a packet, or in the buffer with the
  resampler's memory, is of one answer and from one side of every barge-in, and a
  packet that waits is of the last.  `InterruptedAudioIsSilent` is what is left of
  this when the packet is written;
- `WholeInv`: of the answer under way no unit is missing before a barge-in: it is in
  the buffer or in a packet.  Without it barge-in could not be shown to name all
  that it discards (`ShortAreSources`);
- `HeardInv`: whatever position the call holds (played, in flight, or read before
  `truncate_audio` is awaited) lies within a packet that has been written, and
  writing cannot be undone (`HeardStays`): the position may be stale when it is
  sent, never too far;
- `EvidenceInv`: what the barge-ins have recorded is true of the packets, and stays
  so (`EvidenceStays`): later steps change only packets that are of the audio since
  the last barge-in (`Proceeds`);
- `ItemsInv`: the service numbers its answers, and audio that has been received is
  of the newest;
- `BurstInv`: the bursts count the packets written, but for one whose drain has not
  returned.

`AudioIsProduced` goes through `_produce_provider_audio` once: a chunk is buffered
(`ChunkIsBuffered`), then the loop cuts packets (`CutPacketKeeps`, by induction on
their number in `CutsKeep`).  `FinishBargeInKeeps` does the same for the completion of a
barge-in, which `BeginBargeIn`, `InterruptSent` and `TruncateSent` share.

`RunRepositoryProofs` proves `ShownEndIsWhole` (`EndIsShownWhole`) of any number of
runs in memory: a thread assigns the fields of a run in a fixed order
(`Progress`), and the view reads them in another, so what it has read so far is
compared with what is left to assign (`MemoryInv`).  Of the database it proves
`CompletedIsShownWhole`: `CompletedViewHasResults` as long as no point is posted to
the run (`ViewsInv`; the run of `EndedJobHasEndedRun` shows why the condition is
needed), and `AnsweredPointsAreKept`: `AnsweredPointsAreStored` if one process
serves the run, as its statement says.  The second follows the points from the
SELECT to the commit (`PointsInv`): the rows are numbered copies of the answered
points, and a save that has marked them for deletion has marked all of them.

The assumptions are those on the constants: `QueueAssumption`,
`SupervisorAssumption`, `WorkerAssumption`, `ObserverAssumption`,
`AudioAssumption`, `CallAssumption` (a session has two flushes), `SetupAssumption`,
`StoreAssumption`, `MemoryAssumption`, `ProviderAssumption` and the
`CallAssumption` of `RealtimeCall`, which asks for an evidence limit of at least 2:
the code's is 32, and with 1 `values[-0:]` in `_bounded_evidence` would be the whole
list.  They say that counts and times are natural numbers, limits are positive and
names are different; TLC evaluates them on every run.  `PowersGrow` is a fact of
arithmetic, not about the code: the prover knows nothing of powers, and the backoff
doubles.  What `Without` returns is proved by induction over a least counterexample
(`InductionUpTo`).

Only model-checked: all liveness and fairness (`PunctualJobsEnd`, `BriefCallsEnd`,
the fair part of the specifications), which is beyond the prover; and the projections
of the timeline (`CallTimeline`, `StageTimeline`, `RtpTimeline`, `RtpQuality`) and
the registry, which are folds, sorts and recursions over what is stored and would
need induction over data.  `StoredRunIsWhole` is the conjunction, over the instances
of a run, of the two properties that `AnsweredPointsAreKept` and
`CompletedIsShownWhole` prove, and `PunctualHeartbeatKeepsLease` is what
`HeartbeatSuffices` proves, for the instance of its run.

## 5. Not modelled

Of the modelled parts: telemetry counters, log messages, the columns and fields
no condition looks at, levels that observe methods compute from samples, series,
lanes and the rendering of attributes in the timeline, comparisons of several
sessions, JSON schemas and provider capabilities in the registry.
`complete_run` in place of a missing `fail_run` (the loopback session) differs
from the realtime session only in the status it asks for.

Whole parts, with the reason:

- Recording storage and the remote reader: files and objects are written and read
  in one call each, with limits checked on the way; no state between calls.  That
  a recording cannot be read is an outcome in `StageTimeline`.
- Audio session authentication: one pure check of a signed request.
- Scoring, aggregation, calibration, regression and full-reference comparison, the
  ViSQOL runner, media conversion, the synthetic caller and the inside of the
  engine harness: arithmetic on floating-point numbers and samples.
- The simulated live demo: a script of observations.
- Command line options, configuration at start-up and the web UI: wiring and
  presentation.

## 6. Running

    tlc -workers 2 -config ControlPlane.cfg MCControlPlane
    tlapm RunJobQueueProofs.tla

and likewise the other configurations, and the other modules named `*Proofs`.

`PROJECT.json` names for each run its module, its configuration and its
properties, for each definition the lines it models, and for the properties
mutants of the model (the operators commented as faulty variants) that violate
them.  The longest runs take about two minutes with two workers.
