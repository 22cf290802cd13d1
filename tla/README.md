# A verification of the smart-route control plane

smart-route accepts jobs over HTTP, keeps them in SQLite, leases them to workers that
poll for them, groups jobs into sessions bound to one worker, replaces a session's
worker when it is lost, and scales a fleet of sandboxes in which the workers run. This
directory holds TLA+ models of the control plane and of the worker runtime, the TLC runs
that check them on small instances and TLAPS proofs of their safety properties. Source paths
below are relative to `src/internal` unless they start with `src`.

## 1. Inventory

What the system consists of, the state each part keeps, and what would make it correct.

| part | source | state | operations | correct when |
|---|---|---|---|---|
| job store | `store/sqlite/sqlite.go` | jobs, job_attempts, leases, job_results, job_events, slot counters | CreateJob, ClaimNextJob, RenewLease, SaveResult, CompleteAttempt, CancelJob, ExpireLeases, ExpireWorkerLeases, TimeoutJobs | one winner per job, leases and states agree, bounds respected, dependencies first, finished is final, nothing stranded |
| job lifecycle | `domain/state.go`, `domain/types.go` | a job's state and attempts | CanTransition, Transition, AddAttempt | the store moves jobs along the table |
| worker runtime and client | `worker/runtime.go`, `worker/client.go` | active attempts, the client's lock, timers | claim, renewal and heartbeat loops, execute, shutdown | slots respected, leases kept, cancelled work stops, the store sees nothing it does not allow |
| attempt events | `sqlite.go`, `worker/runtime.go` (attemptSink) | sequence, bounded pending list, job_events | Emit, flush, AppendAttemptEvent, ListEvents | in order, no duplicates, no silent loss, a paging client reads exactly the log |
| sessions | `store/sqlite/sessions.go` | sessions row, reservations of workers and sandboxes | CreateSession, close, expire, request / claim / complete / fail / acknowledge / terminal recovery | one owner per epoch, an ended session stays ended, reservations end with the session |
| recovery controller | `controller/recovery.go` | none but the lists of one round | adopt, rebuild, give up, claim, create, record | attempts bounded, activation only after restore or rebuild, recovery ends |
| checkpoints | `checkpoint/`, `sessions.go`, `recovery.go` | checkpoint rows, files, latest pointer | create, complete, mark, collect, sweep, open | rows and files agree, the newest survives and is restored, nothing is left behind |
| reconciler, reaper | `controller/controller.go` | sandboxes rows | adopt, mark, drain, terminate | no live sandbox forgotten, no orphan kept |
| autoscaler | `controller/autoscaler.go` | per-pool cooldown and failures | demand, limits, create, drain | limits respected |
| health, expiry, lease and timeout controllers | `controller/controller.go` | none | one round per tick | a lost worker is noticed, deadlines and leases enforced |
| worker protocol | `httpapi/worker.go` | none but the row a request has read | register, heartbeat, claim, renew, event, result, complete, fail, acknowledge | stale requests change nothing |
| client API | `httpapi/server.go` | wake channel | submit, cancel, sessions, checkpoints, events | one job per idempotency key |
| application | `app/app.go` | none | reconcile, serve, stop at the first error | serving only after a reconciliation |
| scheduler | `scheduler/` | none | Rank, score | a deterministic order of the eligible jobs |
| providers, executors, artifacts, configuration, telemetry, client library, migrations | several | outside the database or read once | I/O | see sections 7 and 9 |

How they interact. All state of the control plane that matters is in one SQLite database
opened with a single connection (`sqlite.go:38`), so every transaction and every single
statement is atomic and they are totally ordered. Everything hard comes from operations
that make several of them: HTTP handlers that read a row, decide and write it back;
controllers that read lists and act on them; files and containers that change beside the
rows that name them; and a process that may stop in between. Workers reach the database
only through HTTP, so their requests may be late, repeated or answered to nobody.

The behaviours that are hard to test, each with its line and the properties that cover
it, are listed under `hazards` in `PROJECT.json`.

## 2. Modules

| module | models | implements |
|---|---|---|
| `JobLifecycle` | what is promised of each job | |
| `JobStore` | the job tables and all operations on them | `JobLifecycle` |
| `WorkerRuntime` | one worker's loops and client, composed with the store | `JobStore` |
| `EventStream` | what is promised of the events of a job | |
| `EventDelivery` | the events of a job from the executor to the client | `EventStream` |
| `SessionLifecycle` | what is promised of a session | |
| `SessionRecovery` | one session with its workers, sandboxes, controllers and requests | `SessionLifecycle` |
| `Checkpoints` | the checkpoints of one session, rows and files | |
| `SandboxFleet` | the sandboxes of one pool, the controllers that manage them, the process | |
| `MCJobStore`, `MCWorkerRuntime`, `MCEventDelivery` | constants for TLC | |
| `JobStoreProofs`, `WorkerRuntimeProofs`, `EventDeliveryProofs`, `SessionRecoveryProofs`, `CheckpointsProofs`, `SandboxFleetProofs` | proofs about the module each is named after | |
| `WorkerTimingProofs` | proofs about the times of `WorkerRuntime`: leases and cancellations | |

A definition with the comment "Mutant" (in `SandboxFleet`: "As ..., but") is not part of
the specification. It is its neighbour with a plausible mistake, and `mutants` in
`PROJECT.json` says which property notices it.

### JobStore

One variable per column that an operation decides on: `jobState`, `nextAttempt`, `attempts`
(the rows of job_attempts in order, each with the expiry of its lease row), `slots`,
`result`, `announced` (the terminal events), the state of each `session` as far as jobs
tell it apart, a `clock`, and `submission`, the CreateJob calls between their reads and
their INSERT. One action per transaction, named as in the source; CreateJob is not a
transaction (`sqlite.go:117-172`) and is two actions. A worker's client posts the result
and reports completion only when that was accepted (`worker/client.go:126-133`), which
is the guard of `Complete`; the two requests are separate actions.

Handlers and controllers read the time once and use it in later transactions. Every
operation therefore takes a time from `Now`, the present or up to `MaxDelay` ago.

What the scheduler ranks on is left out: a claim takes any job that ClaimNextJob's
conditions admit, which covers every ranking. Retry delays are any of `RetryDelays`.

### WorkerRuntime

Extends `JobStore` with one worker `Self`: `task` is Runtime.active with the progress of
execute, `renewAt`, `beatAt` and `poll` are its timers, `beat` the heartbeat being put
together (the attempts and the free slots are read one after the other) or waiting for
the lock of the client, `released` the calls that Go's RWMutex lets in before the next
writer, `phase` the shutdown. A call is one step with its answer, except the claim, which
polls. Every call may fail before or after the server has acted, up to `MaxLost` times.
The runtime performs the operations of `JobStore` with the handlers' checks around them
(`httpapi/worker.go`): which heartbeats are refused, which attempts an answer tells the
worker to cancel, how many slots are recorded. Time passes only when nothing of the worker
is due, so an expired lease is never the fault of a slow scheduler.

### EventDelivery

`sink` is the attemptSink of each attempt with the step its worker is at; Emit holds the
sink's mutex over its calls (`worker/runtime.go:312-333`), so these are sequential. A call
that returns an error leaves its request in `late`, from where it may arrive at any later
time, any number of times. `events` are the rows of job_events with their sequence,
attempt and worker_sequence; `refused` the events for which Emit returned an error, which
the command executor drops (`worker/command.go:209`). `reader` is a client that pages by
the last sequence it saw.

### SessionRecovery

One session, with any of the recovery policies `Policies`; those in `Expiring` come with an
idle TTL. Sandbox 1 hosts the worker that first takes a job of it, sandbox e > 1 is
the replacement `recovery-<session>-<e>` of epoch e; the identifiers are deterministic and
the instance id derives from the sandbox id (`sandbox/localdocker/localdocker.go:106`), so
a sandbox has one worker row, and each start of its container is an incarnation with a
token of its own. `session`, `row`, `box`, `rebuild` and `work` are the database; `process`
the containers; `call`, `join`, `health`, `expiry` and `recovery` hold what a request or a
controller round has read and not used yet. A worker request is a read
(`authenticatedWorker`) and a write; a registration reads the sandbox, then the session,
then writes; SetWorkerHealth is a read, a revocation and a request for recovery;
RecoveryController.run is three reads followed by one step per call of the store or the
provider. The error of a controller ends the process (`app/app.go:128-156`), which is
started again with nothing in flight: `Stop`. `Crash` is the same without a cause.

Times are left out: timeouts, backoffs and idle deadlines may have passed at any step,
and a worker may be found dead at any time, since a worker that is cut off looks like one
that has stopped. A rebuild plan has one step. The jobs of the session are seen as `work`,
the workers that hold an active attempt; their own states are JobStore's matter.

`RegisterWrite` joins UpsertWorker and UpsertSandbox, and `Authenticate` the reads of the
worker and of the session. No step of another actor that comes between these pairs leads
to a state that is not also reached with it before or after the pair.

### Checkpoints

`row` are the checkpoint rows, `file` the directory, `session` the state, epoch and
latest_checkpoint_id. A save reads the session, inserts a row, writes a partial file,
renames it and completes the row; the collector's transaction, each file it deletes, the
listing that precedes the orphan sweep and each file swept are steps; so are the two
openings of the recovery controller and the list and the openings of a registration. A
request, a round or a recovery may stop between any two. `expired` and `old` stand for
the two deadlines. `newest` and `damaged` are history. A list that a reader has in hand is
the set of its entries with their sequence numbers, taken newest first.

### SandboxFleet

`row`, `token` and `worker` are the rows of sandboxes, bootstrap_tokens and workers,
`status` what the provider runs; `scaler`, `reconciler` and `reaper` hold what a round has
read and still has to do, `making` the creations and `joining` the registrations between
their calls. An error of a round ends the process (`Ends`); it is started again, reconciles
once and serves (`app/app.go:118-127`). `lost` are the sandboxes for which Create reported
an error although it made them, or whose removal failed.

## 3. Runs that pass

| run | checks | instance | distinct states |
|---|---|---|---|
| chain | leases, one winner, dependencies first, no work in an ended session, the inductive invariant (which adds types, budgets, results and announcements), that finished is final, that no step strands a job, the refinement of JobLifecycle, that deadlines are enforced and expired leases reaped | three jobs in a chain in one session, one worker, two attempts each, deadlines, clock to 3 | 88 702 |
| race | one job per key, concurrency | three jobs, two of them under one key, two symmetric workers, clock to 1 | 396 416 |
| events | the inductive invariant with the buffer's bound, order and uniqueness, only refused events missing, an exact reader, delivery, the refinement of EventStream | two attempts, three events in the first and one in the second, buffer 1, pages of 2 | 116 054 |
| checkpoints | the inductive invariant (rows and files agree), the pointer names a row, the newest survives and is restored, no empty resumption, nothing left of an ended session, no orphan files | two saves, two epochs, one damaged file, delete_on_close, retain 1 | 265 584 |
| recovery_requests | one owner per epoch, refinement of SessionLifecycle | policies none (with idle TTL) and checkpoint, epochs 1 and 2, two attempts, every request | 2 568 089 |
| recovery_live | the inductive invariant, attempt limit, rebuild before activation, a recovery ends, or is wedged, or waits without a startup timeout | all three policies, a startup timeout for rebuild only, epochs 1 to 3, one attempt, one crash, a sandbox that may survive its termination, acknowledgements and restore failures | 517 741 |
| fleet | the limit on sandboxes, the inductive invariant (no live sandbox forgotten), strays resolved | two sandbox ids, a limit of one, one failed creation that leaves a sandbox, any number of crashes | 673 506 |
| runtime | slots, leases kept, cancellation delivered, the refinement of JobStore | one job with three attempts and a deadline, two slots, lease 5, heartbeat 1, poll 2, one lost call, clock to 6 | 1 197 866 |

The properties are defined, with their meaning, at the end of the modules. The type
invariants are part of the inductive invariants.

### Bounds and why they are enough

- Three jobs in a chain let a failure propagate over two levels, which distinguishes
  propagation to all downstream jobs from propagation to the next.
- Two attempts let a job fail, be retried and be exhausted. A lease lasts one tick and
  the clock reaches 3, so a lease can expire, its successor can expire and a deadline can
  pass while late reports of both attempts are under way. `MaxDelay` is 1: a handler may act with a
  time that was current before the expiry it races with.
- Two workers compete for a job only in `race`; in `chain` one worker with late
  reports of its own earlier attempts is the harder case.
- In `runtime` a second slot and three attempts of one job let the worker hold an attempt
  whose lease the server took away beside its successor, which is what the limit on
  attempts is about; a lost call may be a claim, a renewal, a report or a heartbeat. The
  poll lasts longer than the heartbeat interval, so that an attempt can be claimed while a
  heartbeat that does not know of it is under way, which is the longest way for a
  cancellation to take.
- A buffer of one with three events has an event buffered, one refused, and one sent after
  the flush; the second attempt has late requests of the first arrive during it. By hand,
  three events in both attempts: the properties hold in 1 366 240 states (26 minutes). The
  order of flushing a longer buffer is not met in the run; the theorems of
  `EventDeliveryProofs` are for any size.
- Two saves overlap with each other, with the collection and with a recovery; retaining
  one of them makes the other collectable. By hand, without delete_on_close, with three
  epochs: 214 044 states, the safety properties hold.
- Epochs up to 3 let a replacement of epoch 2 be late for epoch 3. `Headroom` keeps a
  recovery from being requested at the last epoch, and `RecoveryEnds` makes no claim
  there. `Requests` selects the worker requests of an instance: heartbeats and completions
  are in `recovery_requests`, where they can interfere with the row, and left out of
  `recovery_live` for size. In return `recovery_requests` has no crash and only two epochs;
  for a crash, a late replacement and any number of attempts its two properties and the
  attempt limit are proved (section 5). `Timed` holds the policies of the sessions whose
  pool has a startup timeout. In `recovery_live` the sessions with a rebuild have one and
  those with checkpoints have none, so that both ways to wait for a replacement are met.
  `Stubborn` holds the epochs whose sandboxes may go on running when the provider fails to
  terminate them, an error the code ignores (`controller/recovery.go:161`, `184`): in
  `recovery_live` the first replacement. By hand, with every sandbox stubborn,
  `recovery_live` holds (751 468 states), also with the two timeouts exchanged (736 668), with
  a timeout for both policies (1 300 086), with none (188 050), and with an idle TTL for all
  policies (1 179 744). Also by hand and with every sandbox stubborn, the inductive invariant
  and all safety properties hold in the instance of `recovery_requests` (6 902 656), in the
  same with one attempt and a crash (1 359 580), in that of `recovery_live` with timeouts for
  all (1 300 086), for all policies with timeouts, one attempt, three epochs and every request
  (6 873 054), and for all policies with timeouts and idle TTL, two attempts, two epochs and
  every request (28 585 156).
- A limit of one with two sandbox ids lets the fleet exceed its limit by a second creation
  if a round ever fails to count the first. By hand, with orphans adopted instead of
  terminated: 1 596 483 states, all properties hold.
- Deadlock is checked in JobStore only, where heartbeats are always possible. An ended
  session with no process left, a job whose events are all read, a worker that is gone
  and a pool that has drawn all its ids are end states.

### Fairness

`JobStore`: the clock, the lease reaper and the timeout controller, which run on timers
(`controller/controller.go:41-60`). No client or worker is assumed to do anything.

`EventDelivery`: calls end, at the timeout of the worker's client at the latest
(`worker/client.go:39-45`); executors end; the lease of an attempt without a worker
expires; the client keeps polling. That a call ever succeeds, or a late request ever
arrives, is not assumed.

`SessionRecovery`: weak fairness of the controllers' steps, of handlers that have
started, of a worker that has been told to restore (it reports or exits,
`worker/runtime.go:65-87`) and of rebuild jobs (claimed or the worker is gone, ended by
their lease at the latest). Strong fairness of the startup timeout, for the policies in
`Timed` only (RecoveryController.run tests `pool.StartupTimeout > 0`,
`controller/recovery.go:159`; it is zero where a pool leaves it out, and `Validate`,
`config/config.go:217-234`, does not ask for it), and of the health
controller for a worker whose token no process holds: the conditions come and go while
controllers take turns, and time does not wait for them. No client call, heartbeat,
crash or process death is assumed.

`Checkpoints`: requests end, the collector runs on its timer, files grow old, and the
removal of one orphan does not fail for ever (strong fairness, since each round starts
over). `SandboxFleet`: for `fleet` only the reconciler's ticker. For `dead_worker` also
the other controllers, the restart of the process by its supervisor, registrations and
heartbeats, so that the counterexample is not one of a system that stands still.

`WorkerRuntime` has no fairness: its two promises about time are invariants, as the clock
does not pass what is due.

## 4. Where the code departs from its documents and tests

Each of these is a run that TLC must find violated; `findings` in `PROJECT.json` quotes
the line that says otherwise.

| run | what happens |
|---|---|
| submit_race | a dependency that ends between CreateJob's reads and its INSERT leaves a job waiting for ever |
| wedged | a worker loses its token while it stays reserved: the controller adopts it in every round and waits for ever |
| lease_starved | with the default durations, a heartbeat that waits for the claim's poll holds up a renewal until the lease has expired |
| dead_worker | a worker declared dead while the server was away never registers again, and its sandbox holds its place in the pool |

Others were met on the way. TLC gave a counterexample of each when it was stated as a
property of these models; they are not kept as runs.

- One round of TimeoutJobs may report two terminal states of one job: it lists the overdue
  jobs once and does not look again at one that the propagation of an earlier one has
  ended (`sqlite.go:941`, `975`; `store/sqlite/sessions_test.go:77-78` expects one terminal
  event). `SecondNoticeIsTimeout` shows that this is the only way to two.
- FailRecovery keeps the acknowledgement (`store/sqlite/sessions.go:472`), so the next
  replacement of the epoch may be activated while it still restores;
  `src/docs/session-recovery.md:5` says it remains non-active until it acknowledges.
- A heartbeat overlapping the claim that binds the session writes the worker row back
  without the reservation (`sqlite.go:320`); the loss of the worker then fails no session,
  although `src/docs/session-recovery.md:3` says it does.
- A replacement that registers before RecoveryController.run has recorded its sandbox is
  not bound to the session (`controller/recovery.go:262`); `httpapi/worker.go:101` says that
  reservations are persisted before provisioning.
- Registration skips a checkpoint that no longer opens and delivers none when none is left
  (`httpapi/worker.go:118-127`); the runtime then restores nothing and acknowledges
  (`worker/runtime.go:70-85`), although `src/docs/session-recovery.md:5` says that the newest
  checksum-valid checkpoint is restored. `RestoredUnlessDamaged` shows that it takes a
  damaged file.
- A worker that registers between GetSandbox and UpsertSandbox of create, or between the
  listing and the write-back of the reconciler, loses its binding in the sandbox row
  (`controller/autoscaler.go:464-480`, `controller/controller.go:274-276`); the comment at
  `autoscaler.go:461-463` says it is kept.
- A pool may stay below its minimum: draining and terminating sandboxes count as current
  (`controller/autoscaler.go:226`), and a drain may begin above the minimum while other
  sandboxes are on their way out.
- `CompleteAttempt` does not compare epochs, so a completion authenticated before a
  recovery (`httpapi/worker.go:227`) is applied after it; `src/docs/session-recovery.md:7` says
  every authenticated worker mutation rejects a stale epoch.
- A late replacement of an earlier epoch is bound to the current one beside its own
  replacement (`httpapi/worker.go:106`); the same document says that workers bind to exactly
  one epoch.
- In a pool that leaves out the startup timeout a recovery waits for ever for a replacement
  that does not register (`controller/recovery.go:159`). It may not even exist: the sandbox
  waited for may be that of the lost worker, if the process ended between the claim of the
  attempt and the record of its sandbox. No document speaks of such a pool;
  `src/docs/session-recovery.md:9` promises an end to retries, and this is none.
- Idle expiry closes a session that has taken up work since it was chosen
  (`store/sqlite/sessions.go:310-323`).
- Closing a recovering session leaves its workers reserved, because RequestRecovery has
  cleared the columns that `finishSessionTx` releases by (`store/sqlite/sessions.go:285`).
- Leased jobs succeed without ever being running; the table of `domain/state.go:14-15` has
  no such transition. `JobLifecycle` therefore lets a job pass through running in one step.

`RecoveryEnds` excepts two states by name, and only if they last for ever: `Wedged`, of the
run above, and `Awaited`, the wait without a startup timeout. The run shows that in its
instance these are the only ways for a recovery to hang.

## 5. Proofs

`JobStoreProofs` proves for any finite set of jobs, any workers, sessions, dependencies,
retry policies, deadlines and delays, from the two named assumptions of `JobStore` on the
types of its constants:

| theorem | states |
|---|---|
| Consistency | `Consistent` is invariant |
| TypeCorrect | `TypeOK` is invariant |
| LeasesAreDisciplined | a job is leased exactly while its newest attempt is active and has a lease |
| OneWinner | `SuccessIsUnique` and `ResultOfWinner` |
| BoundsRespected | `ConcurrencyBound` and `AttemptBudget` |
| DependenciesComeFirst | no attempt before the dependencies have succeeded |
| EndsAreAnnounced | a terminal job has its terminal event |
| KeysAreUnique | one job per idempotency key |
| EndedSessionsAreIdle | no active attempt in an ended session |
| EndsAreReportedOnce | `SecondNoticeIsTimeout` |
| NothingIsStranded | no step strands a job of the table |
| OnlySubmissionStrands | no job is ever stranded unless a dependency or the session ends between CreateJob's reads and its INSERT |
| FinishedStaysFinal | no step revises a terminal job, a winning result or an ended attempt |
| StoreImplementsLifecycle | every step of the store is a step of `JobLifecycle` |

The argument. None of the safety properties is inductive alone. That a completion finds
at most one attempt to complete needs that only the newest attempt is active; that the
budget holds needs that a queued job has attempts left; that the result is the winner's
needs that only the newest attempt can have succeeded; that dependencies come first needs
the same of a submission that has read its dependencies and not inserted its row.
`Bookkeeping` collects these facts and `Consistent` is its conjunction with the
properties; the run `chain` checks it with TLC as well. Its conjunct
`DependenciesInSession` is what `NothingIsStranded` needs of finishSessionTx, which ends
the jobs of a session without propagating to those of others: there are none, because
validateDependencies asks for the same session and the columns never change.

The proof that a step keeps `Consistent` separates what concerns one job from what
relates jobs. `JobStepWellFormed` and `StoreStepKeeps` say once which changes of a job's
row and attempts keep it well formed; one lemma per action (`ClaimNextJobKeeps`,
`CompleteKeeps`, `expireLeasesKeeps`, ...) shows that the action makes such changes.
Concurrency, unique keys and ended sessions relate several jobs and have an induction step
each (`NextConcurrency`, `NextOneJobPerKey`, `NextNoWorkInEndedSession`). The lemma of an
action also shows `Propagates`, that no job goes on waiting for what the action ended
(`SettlePropagates`: a job that waits for one of the ended jobs is in the closed set that
fails), and `Notices`, which events it appends; `NothingIsStranded` and
`EndsAreReportedOnce` follow from these. A job whose submission raced with the end of a
dependency is stranded by its own INSERT, which the finding of the run `submit_race` is
about and the theorem excludes by `Exists`. `OnlySubmissionStrands` shows that this race is
the whole of the finding: in a behaviour in which no step ends a dependency, or the
session, of a submission under way (`Undisturbed`), what a submission has read stays up to
date (`SubmissionStaysUpToDate`), and `NeverStranded`, which `submit_race` violates, is an
invariant. The refinement
reuses `Consistent`: a step of the store that moves a set of jobs is a step of
`JobLifecycle` that moves each of them along the table, where the dependency facts of
`Bookkeeping` give the guards of `Dispatch` and `Move`.

What a failure reaches is defined without recursion, as the smallest set of jobs closed under
dependency, so that the module can be proved about.

`WorkerRuntimeProofs` proves of the composition, for any concurrency, durations and number
of lost calls, from `RuntimeAssumption` and the assumptions of the store:

| theorem | states |
|---|---|
| RuntimeTypeCorrect | `RuntimeTypeOK` is invariant |
| WorkerRunsWithinLimit | `RunsWithinLimit` is invariant |
| RuntimeImplementsStore | the runtime's steps are steps of `JobStore` or leave the store alone |
| StoreConsistentUnderRuntime | so `Consistent` is an invariant of the composition |

The argument. `RuntimeInvariant` adds to `Consistent` the types, that the active attempts
are finitely many, the limit, and `SlotForTheClaim`: while a claim is polling, fewer
attempts are active than the worker has slots. The limit alone is not inductive, because
the claim is answered long after the slots were counted; that only one claim is in flight
and nothing else starts an attempt is what carries the count over. A claimed attempt is
one of `AttemptIDs` because `Consistent` gives a queued job attempts left. Each call maps
to the operation of the store it reaches or to a stutter (`ExecutionIsStoreStep`,
`BeatIsStoreStep`, `ExitIsStoreStep`); for heartbeats this is where the bounds on the
reported slots are needed, since `JobStore` only admits a number of slots the worker has.

`WorkerTimingProofs` proves the two promises about time, for any durations, from
the same assumptions:

| theorem | states |
|---|---|
| LeasesAreKept | if `PollsAreShort`, that is if the renewal interval and the poll together are shorter than the lease, `LeaseIsKept` is invariant |
| CancellationIsDelivered | `CancellationArrives` is invariant: while no call is lost, an executor outlives the end of its job by no more than the heartbeat interval or the poll, whichever is longer, and one more poll |

The argument. `TimingInvariant` relates each timer to what can hold it up. A renewal waits
for the lock only while a heartbeat waits for a poll, so it is overdue by at most one poll
(`RenewsOnTime`: the poll that a waiting heartbeat waits for began before the renewal was
due, and no second one begins before the renewal has had its turn), and the lease of an
active attempt outlasts its next renewal by the lease less the interval (`Leased`). For
cancellations `RunsOn` bounds the time an executor has run on by what the heartbeat is
doing and whether it was told of the attempt. A heartbeat that does not know of the attempt
may have to end first, which may take a poll; the next one is then due at once and waits
for another poll. The first version of `CancellationArrives` had the heartbeat interval
and one poll as its bound; that is too small if the poll is longer than the interval, as
TLC showed for an attempt claimed between the two steps of a heartbeat. The default
durations do not satisfy `PollsAreShort` (a lease of 30 s renewed every 15 s, a poll of
20 s), which is the finding of `lease_starved`; those of the run `runtime` do.

`EventDeliveryProofs` proves, for any number of attempts, any number of events of each, any
size of the retry buffer and any page, from `EventAssumption`:

| theorem | states |
|---|---|
| DeliveryIsSound | `DeliverySound` is invariant |
| LogInOrderOnce | no event is stored twice or after a younger one of its attempt |
| OnlyRefusedAreMissing | a successful attempt misses only what Emit refused |
| ReaderSeesAll | the client has read exactly the rows up to its cursor, in order |
| DeliveryImplementsStream | the log implements `EventStream` |

The argument. The store gives an event the next sequence number whatever its
worker_sequence, so the order of the log rests on the worker: `LogSound` says that the log
of an attempt ends at its `Frontier`, the head of the buffer or, if that is empty, the event
Emit is sending, and that a request still under way is either stored already or for the head
of the buffer. It needs `BufferSound`, that the buffer is ordered and that Emit sends only
when it is empty. `Accounted` says where each event is, which gives `OnlyRefusedMissing` at
the moment Complete is called with an empty buffer. `InTurn`, that attempts are handed out
one after the other, and `Numbered`, that MAX(sequence)+1 is the number of rows plus one,
give the refinement. `ReaderSound`, that what the client has read i-th has the sequence
number i, carries `ReaderIsExact` over a page: between two numbers of the log lie as many
rows as their difference (`RowsBetween`), so a LIMIT cuts off exactly the numbers beyond
the cursor plus the page size, and the next page starts where this one ends. Every action but the client's is shown to be an `Effect` of one
attempt, and one lemma (`EffectSound`) shows that an `Effect` keeps the invariant; the run
`events` checks it with TLC as well.

`SessionRecoveryProofs` proves, for any policies, any number of epochs, attempts and
restarts and any requests, from `RecoveryAssumption`:

| theorem | states |
|---|---|
| RecoveryIsSound | `RecoverySound` is invariant |
| AttemptsAreLimited | no more replacements than attempts, and none that is not counted |
| OwnerPerEpoch | within an epoch a session names one owner at most once |
| RebuiltFirst | a session is activated only after the rebuild of its epoch |
| RecoveryImplementsSession | the session row implements `SessionLifecycle` |
| OnlyHealthWedges | no recovery is wedged unless something comes between the statements of SetWorkerHealth |

The argument. The limit alone is not inductive: Create runs on a claim that an earlier
transaction counted, so `LaunchesCounted` counts the claim the controller holds beside the
replacements that exist. One owner per epoch needs `OwnerCleared`, that no owner is named
while a session is pending or recovering, which RequestRecovery sees to. That a rebuild has
succeeded when CompleteRecovery writes is what the controller read several steps earlier;
`RebuildStands` says that nothing revokes it. `RoomForHealth` concerns the bound on epochs
only. One lemma per action, or per group that writes the same columns, shows that a step
keeps `RecoverySound` and that the session row moves in one of the ways of
`SessionLifecycle`; both the action properties and the refinement follow from the latter.

`OnlyHealthWedges` names all the causes of the finding `wedged`. Its hypothesis
`HealthUndisturbed` excludes three: the process ends after the token was revoked and before
the recovery was requested; a worker that was read as unreserved registers for the recovery
before its token is revoked; or a heartbeat of it, authenticated before FailRecovery took
the reservation, is written back in that gap. The third came to light when TLC checked the
hypothesis with only the other two. The invariant `Unwedged` says that a
worker reserved for the epoch under recovery is without a token only while the health
controller is about to request the next epoch (`Guarded`); for this it needs that nobody
is reserved for a later epoch than the session's, and that what requests and registrations
in flight will write has a token.

`CheckpointsProofs` proves, for any set of saves, any number of epochs and damaged files,
any retention and either setting of delete_on_close, from `CheckpointAssumption`:

| theorem | states |
|---|---|
| CheckpointsAreSound | `CheckpointSound` is invariant |
| ReadyRowsHaveFiles | a ready row has a file |
| PointerIsRepaired | latest_checkpoint_id is empty or names a completed row |
| NewestIsKept | the newest checkpoint survives, unless none is to be kept or its file was damaged |
| RegistrationRestoresNewest | a registration hands out the newest intact checkpoint |
| RecoveryIsNotEmpty | no session resumes empty, unless a file was damaged |

The argument. A ready row has a file because the save that completes it has written it and
nothing removes it in between: `SaveSound` says that the row of a save under way is absent
or being created and its file young, so the sweep leaves it alone, and `DoomedSound` that
what the collector still deletes has no row that counts and no save that could complete it.
The newest checkpoint is the first of the ready rows (`NewestSound`), and as at least one is
retained the collector passes over it. What a reader has listed stays true until it is used
because no save of the recovering epoch is under way (`SaveSound` compares epochs) and a
file that is ready leaves only with its row (`ReadersSound`). `OrderSound` gives the lists
and the sequence numbers a greatest element, without which the choice of the newest would
mean nothing.

`SandboxFleetProofs` proves, for any number of sandboxes, any limits of pool, fleet and
round, any number of failed creations and either policy for orphans, from `FleetAssumption`:

| theorem | states |
|---|---|
| FleetIsSound | `FleetSound` is invariant |
| FleetIsBounded | at most MaxTotalSandboxes run, besides what failed creations left |
| NothingIsForgotten | while the process serves, a sandbox that runs is counted, in the making or left by a failed creation |

The argument. The autoscaler counts rows, the limit is about containers. They are tied
together by `NothingForgotten`, which the first reconciliation establishes (`StartSound`
follows it through the provider's list) and the later ones keep: a record that the
provider did not list belongs to a sandbox that is gone (`ListingSound`), because an id is
drawn once (`Undrawn`), so no row of a sandbox that runs is deleted or called missing,
however stale the listing. `RoomToMake` carries the count that a round began with to its
last creation: what runs and what is still to be made together fit, once the sandboxes the
round gave up as late are gone, and these are terminated before the first creation. A crash
is a step like any other; it forgets creations in flight, which `FleetBound` survives since
nothing is created before the reconciliation that finds them.

## 6. Only model-checked

- Liveness (`DeadlineIsEnforced`, `ExpiredLeaseIsReaped`, `AcceptedIsRead`, `RecoveryEnds`,
  `EndedLeavesNothing`, `OrphansAreSwept`, `StraysAreResolved`): fairness is out of the
  prover's reach.
  Every other property that a passing run checks is also a theorem.
- `RecoveryEnds` is checked with one recovery attempt and one restart of the control plane;
  two attempts together with a restart were not tried. Heartbeats and completions are left
  out of it.

## 7. Left out of the models

- The recovery controller, the reconciler, the reaper and the autoscaler all write
  sandboxes rows. `SandboxFleet` has the last three, `SessionRecovery` the first; what they
  do to each other's rows is in neither. So `FleetBound` says nothing of replacements,
  which the recovery controller creates without asking for a limit
  (`controller/recovery.go:222-264`).
- `SandboxFleet`: several pools and providers, max_lifetime and idle_after (at their
  defaults, 0), provider backoff and cooldowns (free choices), containers that stop by
  themselves, worker session expiry. `CreateFails` leaves at most `MaxLost` sandboxes.
- `SessionRecovery`: CreateJob of a rebuild step is one step there, `JobStore` has it as
  two; rebuild plans of several steps; recovery events; protocol versions and session expiry
  of tokens. Checkpoint contents and choice are in `Checkpoints`.
- `Checkpoints`: provider snapshots, several adapters, saves that last longer than the hour
  an orphan is left alone.
- `EventDelivery`: payloads, event types and the limit on the request; the events a job
  gets while it is not being attempted (cancellation of a queued job, propagation).
- `WorkerRuntime`: sessions and checkpoints, event delivery (a module of its own), being
  declared dead (`SandboxFleet`), observers. Every call but the claim is one step, so the
  time a slow call holds the client's lock is not seen. A Go ticker keeps one tick that was
  missed, the timers of the model all of them; this differs only where a poll lasts two
  heartbeat intervals or more, and makes the model beat more often, not later.
- Upstream health reports, ranking.

## 8. What could be added

In order of what could go wrong most expensively:

1. The recovery controller as a fourth writer in `SandboxFleet`.
2. The slow calls of `WorkerRuntime`, and with them durations in `LeasesAreKept` for calls
   other than the poll.
3. Pure operators checked against reference definitions on bounded inputs: `retryDelay`,
   the recovery and provider backoffs with the width of time.Duration, `selectPool`,
   scheduler ranking.
4. A mapping of `SessionRecovery` to the open, closed and lost sessions of `JobStore`.

## 9. Not modelled, and why

The scheduler ranks one list by pure functions, and the models allow every ranking. What
providers and executors do is input and output to Docker, Fly, commands and HTTP; their
outcomes are free choices of the models. Configuration is read once. Telemetry is never
read back. The artifact store makes one call per operation, as does the client library but
for its paging. Migrations run before anything is served; the tables and unique indices
they create are the state of the models.
