------------------------------ MODULE JobStore ------------------------------
(***************************************************************************)
(* The job tables of the control plane's SQLite store                      *)
(* (internal/store/sqlite/sqlite.go): jobs, job_attempts, leases,          *)
(* job_results, the terminal entries of job_events, and the slot counter   *)
(* of workers.                                                             *)
(*                                                                         *)
(* The pool holds one connection (sqlite.go:38), so every transaction and  *)
(* every single statement is one step here.  CreateJob is not a            *)
(* transaction: it reads, then inserts, so it is two steps that others     *)
(* may come between.                                                       *)
(*                                                                         *)
(* A job's immutable columns are constants of its identifier.  What the    *)
(* scheduler ranks on (capabilities, health, score) is abstracted to a     *)
(* free choice among the claimable jobs.  A session is seen through the    *)
(* one distinction that the job tables make: open, closed or lost.         *)
(***************************************************************************)
EXTENDS Naturals, Sequences, FiniteSets

CONSTANTS
    Jobs,            \* identifiers of the jobs clients may submit
    Workers,         \* registered workers
    Sessions,        \* sessions; {} for a control plane without any
    NoSession,       \* the NULL session_id
    SessionOf,       \* jobs.session_id
    DependsOn,       \* jobs.depends_on_json
    IdempotencyKey,  \* jobs.idempotency_key, never empty (httpapi/server.go:379)
    MaxAttempts,     \* jobs.retry_max_attempts, at least 1 (server.go:445)
    TimeoutAt,       \* jobs.timeout_at; 0 is the zero time, stored as NULL
    RetryUntil,      \* created_at + retry_max_elapsed; 0 when there is no limit
    MaxConcurrency,  \* workers.max_concurrency, positive (worker.go:84)
    LeaseDuration,   \* configured lease_duration
    RetryDelays,     \* the delays retryDelay may return
    MaxDelay,        \* how long a handler may be held up after reading the time
    MaxTime          \* bound on the clock

ASSUME JobsAssumption ==
    /\ IsFiniteSet(Jobs)
    /\ NoSession \notin Sessions
    /\ SessionOf \in [Jobs -> Sessions \cup {NoSession}]
    /\ DependsOn \in [Jobs -> SUBSET Jobs]
    /\ MaxAttempts \in [Jobs -> Nat \ {0}]
    /\ TimeoutAt \in [Jobs -> Nat]
    /\ RetryUntil \in [Jobs -> Nat]
    /\ DOMAIN IdempotencyKey = Jobs

ASSUME TimingAssumption ==
    /\ MaxConcurrency \in [Workers -> Nat \ {0}]
    /\ LeaseDuration \in Nat \ {0}
    /\ RetryDelays \subseteq Nat
    /\ MaxDelay \in Nat
    /\ MaxTime \in Nat

VARIABLES
    clock,        \* the control plane's time
    session,      \* sessions.state, as far as the job tables tell it apart
    submission,   \* what a CreateJob that has done its reads will insert
    jobState,     \* jobs.state, "none" before the row exists
    nextAttempt,  \* jobs.next_attempt_at, 0 for NULL
    attempts,     \* job_attempts of a job in the order of their numbers,
                  \*   each with the expiry of its lease row
    slots,        \* workers.available_slots
    result,       \* number of the attempt job_results.attempt_id names, or 0
    announced     \* terminal states a job was moved to with an event appended

vars == <<clock, session, submission, jobState, nextAttempt, attempts, slots,
          result, announced>>
-----------------------------------------------------------------------------
(* The states of internal/domain/types.go. *)

TerminalJobStates == {"succeeded", "failed", "canceled", "timed_out",
                      "dependency_failed", "session_lost"}

JobStates == {"waiting", "queued", "leased", "running"} \cup TerminalJobStates

ActiveAttemptStates == {"leased", "running"}

AttemptStates == ActiveAttemptStates \cup
                 {"succeeded", "failed", "canceled", "lease_expired", "lost"}

(* The lease of an attempt is NoLease when it has no row in leases.  A real *)
(* lease expires at a positive time.                                       *)
NoLease == 0

Attempts == [worker : Workers, state : AttemptStates, expires : Nat]

Exists(j) == jobState[j] # "none"

Terminal(j) == jobState[j] \in TerminalJobStates

Active(a) == a.state \in ActiveAttemptStates

(* The jobs a worker holds an active attempt of.  Counting them counts the  *)
(* rows that ClaimNextJob counts: the partial index                        *)
(* attempts_active_idx admits one active attempt per job.                  *)
HeldBy(w) ==
    {j \in Jobs : \E n \in DOMAIN attempts[j] :
                     Active(attempts[j][n]) /\ attempts[j][n].worker = w}

(* A handler reads the time once, when it starts, and compares with it in   *)
(* transactions it runs later; a controller does so for each round.        *)
Now == {at \in 0..clock : clock <= at + MaxDelay}

(* Job.TimedOut and its SQL form timeout_at<=now. *)
TimedOut(j, at) == TimeoutAt[j] # 0 /\ TimeoutAt[j] <= at

-----------------------------------------------------------------------------
(* Effects that several operations share. *)

(* propagateDependencyFailure: the waiting or queued jobs that depend,     *)
(* through waiting or queued jobs, on one of roots.  It is the least set   *)
(* closed under one dependency step, which the recursive query computes.   *)
Pending(j) == jobState[j] \in {"waiting", "queued"}

ClosedDownstream(roots, S) ==
    \A j \in Jobs : Pending(j) /\ DependsOn[j] \cap (roots \cup S) # {} => j \in S

(* Mutant: one dependency step only. *)
DownstreamOneStep(roots) ==
    {j \in Jobs : Pending(j) /\ DependsOn[j] \cap roots # {}}

Downstream(roots) ==
    {j \in Jobs : \A S \in SUBSET Jobs : ClosedDownstream(roots, S) => j \in S}

(* Mutant: the lease row is left behind. *)
EndedAsKeepingLease(a, state) ==
    [worker |-> a.worker, state |-> state, expires |-> a.expires]

(* An attempt that ends loses its lease row. *)
EndedAs(a, state) == [worker |-> a.worker, state |-> state, expires |-> NoLease]

(* End whatever attempt of a job is active. *)
EndActive(as, state) ==
    [n \in DOMAIN as |-> IF Active(as[n]) THEN EndedAs(as[n], state) ELSE as[n]]

(* available_slots=MIN(max_concurrency,available_slots+1) for the holder of *)
(* each of the jobs in ended.                                              *)
ReturnSlots(ended) ==
    [w \in Workers |->
        LET freed == slots[w] + Cardinality(HeldBy(w) \cap ended)
        IN  IF freed > MaxConcurrency[w] THEN MaxConcurrency[w] ELSE freed]

(* The state of every job once the jobs in ended have become terminal, as  *)
(* outcome gives it, and their failures have been propagated.              *)
Settle(ended, outcome) ==
    LET failed == Downstream({j \in ended : outcome[j] \notin {"succeeded", "queued"}})
    IN  [j \in Jobs |-> IF j \in ended THEN outcome[j]
                        ELSE IF j \in failed THEN "dependency_failed"
                        ELSE jobState[j]]

(* Each of those changes into a terminal state appends one event. *)
Announce(newState) ==
    [j \in Jobs |-> IF newState[j] # jobState[j] /\ newState[j] \in TerminalJobStates
                    THEN announced[j] \cup {newState[j]}
                    ELSE announced[j]]

-----------------------------------------------------------------------------
Init ==
    /\ clock = 0
    /\ session = [s \in Sessions |-> "open"]
    /\ submission = [j \in Jobs |-> "none"]
    /\ jobState = [j \in Jobs |-> "none"]
    /\ nextAttempt = [j \in Jobs |-> 0]
    /\ attempts = [j \in Jobs |-> <<>>]
    /\ slots = MaxConcurrency
    /\ result = [j \in Jobs |-> 0]
    /\ announced = [j \in Jobs |-> {}]

Tick ==
    /\ clock < MaxTime
    /\ clock' = clock + 1
    /\ UNCHANGED <<session, submission, jobState, nextAttempt, attempts, slots,
                   result, announced>>

-----------------------------------------------------------------------------
(* Clients. *)

SessionOpen(j) == SessionOf[j] # NoSession => session[SessionOf[j]] = "open"

KeyTaken(j) == \E k \in Jobs : Exists(k) /\ IdempotencyKey[k] = IdempotencyKey[j]

(* Mutant: a job is queued whether or not its dependencies have succeeded. *)
CreateJobReadQueued(j) ==
    /\ ~Exists(j) /\ submission[j] = "none"
    /\ ~KeyTaken(j)
    /\ \A d \in DependsOn[j] : Exists(d)
    /\ SessionOpen(j)
    /\ submission' = [submission EXCEPT ![j] = "queued"]
    /\ UNCHANGED <<clock, session, jobState, nextAttempt, attempts, slots,
                   result, announced>>

(* The reads of CreateJob, up to but not including its INSERT: the         *)
(* idempotency lookup, validateDependencies and the states of the          *)
(* dependencies.  They are one snapshot: a dependency that is read as      *)
(* terminal stays so, hence reading them one by one decides what some      *)
(* single snapshot would have decided.                                     *)
CreateJobRead(j) ==
    /\ ~Exists(j) /\ submission[j] = "none"
    /\ TimeoutAt[j] # 0 => clock < TimeoutAt[j]
    /\ RetryUntil[j] # 0 => clock < RetryUntil[j]
    /\ ~KeyTaken(j)
    /\ \A d \in DependsOn[j] : /\ d # j
                               /\ Exists(d)
                               /\ SessionOf[d] = SessionOf[j]
                               /\ jobState[d] \notin TerminalJobStates \ {"succeeded"}
    /\ SessionOpen(j)
    /\ submission' = [submission EXCEPT ![j] =
           IF \A d \in DependsOn[j] : jobState[d] = "succeeded"
           THEN "queued" ELSE "waiting"]
    /\ UNCHANGED <<clock, session, jobState, nextAttempt, attempts, slots,
                   result, announced>>

(* Mutant: no UNIQUE index. *)
CreateJobInsertNoIndex(j) ==
    /\ submission[j] # "none"
    /\ submission' = [submission EXCEPT ![j] = "none"]
    /\ jobState' = [jobState EXCEPT ![j] = submission[j]]
    /\ UNCHANGED <<clock, session, nextAttempt, attempts, slots, result, announced>>

(* The INSERT.  When the UNIQUE index on idempotency_key refuses it the    *)
(* caller gets the job that already has the key and no row is added.       *)
CreateJobInsert(j) ==
    /\ submission[j] # "none"
    /\ submission' = [submission EXCEPT ![j] = "none"]
    /\ jobState' = IF KeyTaken(j) THEN jobState
                   ELSE [jobState EXCEPT ![j] = submission[j]]
    /\ UNCHANGED <<clock, session, nextAttempt, attempts, slots, result, announced>>

(* Mutant: the attempt and its lease are left to the worker. *)
CancelJobOnly(j) ==
    /\ Exists(j) /\ ~Terminal(j)
    /\ jobState' = Settle({j}, [k \in {j} |-> "canceled"])
    /\ announced' = Announce(jobState')
    /\ nextAttempt' = [nextAttempt EXCEPT ![j] = 0]
    /\ UNCHANGED <<clock, session, submission, attempts, slots, result>>

CancelJob(j) ==
    /\ Exists(j) /\ ~Terminal(j)
    /\ jobState' = Settle({j}, [k \in {j} |-> "canceled"])
    /\ announced' = Announce(jobState')
    /\ nextAttempt' = [nextAttempt EXCEPT ![j] = 0]
    /\ attempts' = [attempts EXCEPT ![j] = EndActive(@, "canceled")]
    /\ UNCHANGED <<clock, session, submission, slots, result>>

-----------------------------------------------------------------------------
(* Workers.  A request may reach the control plane late, twice or never,   *)
(* so a worker may make one about any attempt it was ever given.           *)

(* Mutant: only the slot counter is consulted. *)
ClaimableBySlots(w, j, at) ==
    /\ jobState[j] = "queued"
    /\ ~TimedOut(j, at)
    /\ nextAttempt[j] <= at
    /\ SessionOpen(j)
    /\ slots[w] > 0

(* Mutant: the state of the session is not looked at. *)
ClaimableAnySession(w, j, at) ==
    /\ jobState[j] = "queued"
    /\ ~TimedOut(j, at)
    /\ nextAttempt[j] <= at
    /\ slots[w] > 0
    /\ Cardinality(HeldBy(w)) < MaxConcurrency[w]

(* The candidates of ClaimNextJob, the concurrency test of the scheduler's *)
(* eligible and, for the job of a session, the states it skips.            *)
Claimable(w, j, at) ==
    /\ jobState[j] = "queued"
    /\ ~TimedOut(j, at)
    /\ nextAttempt[j] <= at
    /\ SessionOpen(j)
    /\ slots[w] > 0
    /\ Cardinality(HeldBy(w)) < MaxConcurrency[w]

NewAttempt(w, at) ==
    [worker |-> w, state |-> "leased", expires |-> at + LeaseDuration]

ClaimNextJob(w, j, at) ==
    /\ Claimable(w, j, at)
    /\ jobState' = [jobState EXCEPT ![j] = "leased"]
    /\ slots' = [slots EXCEPT ![w] = @ - 1]
    /\ attempts' = [attempts EXCEPT ![j] = Append(@, NewAttempt(w, at))]
    /\ UNCHANGED <<clock, session, submission, nextAttempt, result, announced>>

(* The store compares with a time of its own; until is what the handler     *)
(* computed from the time it had read and the duration asked for.          *)
RenewLease(w, j, n, until) ==
    /\ n \in DOMAIN attempts[j]
    /\ attempts[j][n].worker = w
    /\ Active(attempts[j][n])
    /\ attempts[j][n].expires > clock
    /\ attempts' = [attempts EXCEPT ![j][n].expires = until]
    /\ UNCHANGED <<clock, session, submission, jobState, nextAttempt, slots,
                   result, announced>>

(* SaveResult asks for an active attempt and, unlike CompleteAttempt, not  *)
(* for a live lease.                                                       *)
SaveResult(w, j, n) ==
    /\ n \in DOMAIN attempts[j]
    /\ attempts[j][n].worker = w
    /\ Active(attempts[j][n])
    /\ result' = [result EXCEPT ![j] = n]
    /\ UNCHANGED <<clock, session, submission, jobState, nextAttempt, attempts,
                   slots, announced>>

(* The waiting jobs that the success of j releases. *)
Released(j) ==
    {k \in Jobs : /\ jobState[k] = "waiting"
                  /\ j \in DependsOn[k]
                  /\ \A d \in DependsOn[k] : d = j \/ jobState[d] = "succeeded"}

(* The job state CompleteAttempt derives from a failure report. *)
AfterFailure(j, n, retryable, at) ==
    IF retryable /\ n < MaxAttempts[j] /\ ~TimedOut(j, at) THEN "queued" ELSE "failed"

(* Mutant: an attempt may be completed although it has ended. *)
CompleteAttemptUnfenced(w, j, n, aState, outcome, at) ==
    /\ n \in DOMAIN attempts[j]
    /\ attempts[j][n].worker = w
    /\ attempts' = [attempts EXCEPT ![j][n] = EndedAs(@, aState)]
    /\ slots' = ReturnSlots({j})
    /\ jobState' = Settle({j}, [k \in {j} |-> outcome])
    /\ announced' = Announce(jobState')
    /\ UNCHANGED <<clock, session, submission, nextAttempt, result>>

(* CompleteAttempt of attempt n with attempt state aState and job state    *)
(* outcome.  The job row is written without a test of its own state.       *)
CompleteAttempt(w, j, n, aState, outcome, at) ==
    /\ n \in DOMAIN attempts[j]
    /\ attempts[j][n].worker = w
    /\ Active(attempts[j][n])
    /\ attempts[j][n].expires # NoLease /\ at < attempts[j][n].expires
    /\ attempts' = [attempts EXCEPT ![j][n] = EndedAs(@, aState)]
    /\ slots' = ReturnSlots({j})
    /\ LET settled == Settle({j}, [k \in {j} |-> outcome])
       IN  jobState' = IF outcome = "succeeded"
                       THEN [k \in Jobs |-> IF k \in Released(j) THEN "queued"
                                                                 ELSE settled[k]]
                       ELSE settled
    /\ announced' = Announce(jobState')
    /\ UNCHANGED <<clock, session, submission, nextAttempt, result>>

(* The worker's client posts the result of an attempt, and only when that  *)
(* was accepted reports the attempt complete.                              *)
Complete(w, j, n, at) ==
    /\ result[j] = n
    /\ CompleteAttempt(w, j, n, "succeeded", "succeeded", at)

Fail(w, j, n, retryable, at) ==
    CompleteAttempt(w, j, n, "failed", AfterFailure(j, n, retryable, at), at)

(* A heartbeat overwrites available_slots with what the worker reports.    *)
(* The worker counts the attempts it knows of, which need not be the       *)
(* active attempts of the store: any value in range may arrive.            *)
Heartbeat(w, free) ==
    /\ slots' = [slots EXCEPT ![w] = free]
    /\ UNCHANGED <<clock, session, submission, jobState, nextAttempt, attempts,
                   result, announced>>

-----------------------------------------------------------------------------
(* Controllers. *)

(* Mutant: the retry policy bounds reported failures only. *)
AfterExpiryUnbounded(j, now) ==
    IF TimedOut(j, now) THEN "timed_out"
    ELSE IF RetryUntil[j] = 0 \/ now < RetryUntil[j] THEN "queued" ELSE "failed"

(* The state expireLeases gives the job of an expired attempt. *)
AfterExpiry(j, now) ==
    IF TimedOut(j, now) THEN "timed_out"
    ELSE IF /\ \E n \in DOMAIN attempts[j] : Active(attempts[j][n]) /\ n < MaxAttempts[j]
            /\ RetryUntil[j] = 0 \/ now < RetryUntil[j]
         THEN "queued" ELSE "failed"

(* expireLeases over the active attempts of the jobs in expired.  A job    *)
(* goes back to the queue after a delay; the rest clear next_attempt_at.   *)
expireLeases(expired, now) ==
    /\ expired # {}
    /\ attempts' = [j \in Jobs |-> IF j \in expired
                                   THEN EndActive(attempts[j], "lease_expired")
                                   ELSE attempts[j]]
    /\ LET held == {j \in expired : jobState[j] \in {"leased", "running"}}
       IN  /\ jobState' = Settle(held, [j \in held |-> AfterExpiry(j, now)])
           /\ \E delay \in [held -> RetryDelays] :
                 nextAttempt' = [j \in Jobs |->
                     IF j \notin held THEN nextAttempt[j]
                     ELSE IF AfterExpiry(j, now) = "queued" THEN now + delay[j] ELSE 0]
    /\ announced' = Announce(jobState')
    /\ slots' = ReturnSlots(expired)
    /\ UNCHANGED <<clock, session, submission, result>>

(* Mutant: a comparison with a NULL deadline hides the rows without one. *)
ExpireLeasesWithDeadline(now) ==
    expireLeases({j \in Jobs : TimeoutAt[j] # 0 /\ \E n \in DOMAIN attempts[j] :
                     /\ Active(attempts[j][n])
                     /\ attempts[j][n].expires # NoLease
                     /\ attempts[j][n].expires <= now}, now)

(* The lease reaper, and every poll of a claim request. *)
ExpireLeases(now) ==
    expireLeases({j \in Jobs : \E n \in DOMAIN attempts[j] :
                     /\ Active(attempts[j][n])
                     /\ attempts[j][n].expires # NoLease
                     /\ attempts[j][n].expires <= now}, now)

(* A worker is given up: the health controller found it dead, or a claim   *)
(* of another worker found it silent for worker_timeout.  Both decide on   *)
(* a list of workers read earlier, so w may have been heard of since.      *)
ExpireWorkerLeases(w, now) == expireLeases(HeldBy(w), now)

(* Mutants: a finished job may time out; a waiting job may not. *)
OverdueEvenIfFinished(now) == {j \in Jobs : Exists(j) /\ TimedOut(j, now)}
OverdueNotWaiting(now) ==
    {j \in Jobs : jobState[j] \in {"queued", "leased"} /\ TimedOut(j, now)}

(* TimeoutJobs selects the overdue jobs once and then handles them in the  *)
(* order of their identifiers, which are random: each becomes timed_out    *)
(* whatever its state is by then, and its failure is propagated.  Late are *)
(* the overdue jobs whose turn comes after that of a job they depend on:   *)
(* they are announced as dependency_failed before they time out.           *)
Overdue(now) == {j \in Jobs : Exists(j) /\ ~Terminal(j) /\ TimedOut(j, now)}

TimeoutJobs(now) ==
    /\ Overdue(now) # {}
    /\ jobState' = Settle(Overdue(now), [j \in Overdue(now) |-> "timed_out"])
    /\ \E late \in SUBSET (Overdue(now) \cap Downstream(Overdue(now))) :
          announced' = [j \in Jobs |-> Announce(jobState')[j] \cup
                           (IF j \in late THEN {"dependency_failed"} ELSE {})]
    /\ nextAttempt' = [j \in Jobs |-> IF j \in Overdue(now) THEN 0 ELSE nextAttempt[j]]
    /\ attempts' = [j \in Jobs |-> IF j \in Overdue(now)
                                   THEN EndActive(attempts[j], "canceled")
                                   ELSE attempts[j]]
    /\ slots' = ReturnSlots(Overdue(now))
    /\ UNCHANGED <<clock, session, submission, result>>

(* finishSessionTx: the session ends and takes its unfinished jobs along.  *)
(* Slots are not returned; the next heartbeat reports them.                *)
FinishSession(s, how) ==
    LET its == {j \in Jobs : SessionOf[j] = s}
        unfinished == {j \in its : Exists(j) /\ ~Terminal(j)}
        verdict == IF how = "lost" THEN "session_lost" ELSE "canceled"
        attemptVerdict == IF how = "lost" THEN "lost" ELSE "canceled"
    IN  /\ session[s] = "open"
        /\ session' = [session EXCEPT ![s] = how]
        /\ jobState' = [j \in Jobs |-> IF j \in unfinished THEN verdict ELSE jobState[j]]
        /\ announced' = Announce(jobState')
        /\ attempts' = [j \in Jobs |-> IF j \in its THEN EndActive(attempts[j], attemptVerdict)
                                                    ELSE attempts[j]]
        /\ UNCHANGED <<clock, submission, nextAttempt, slots, result>>

-----------------------------------------------------------------------------
ClientNext ==
    \E j \in Jobs : CreateJobRead(j) \/ CreateJobInsert(j) \/ CancelJob(j)

WorkerNext ==
    \E w \in Workers :
        \/ \E free \in 0..MaxConcurrency[w] : Heartbeat(w, free)
        \/ \E j \in Jobs, at \in Now :
              \/ ClaimNextJob(w, j, at)
              \/ \E n \in 1..Len(attempts[j]) :
                    \/ \E d \in 1..LeaseDuration : RenewLease(w, j, n, at + d)
                    \/ SaveResult(w, j, n)
                    \/ Complete(w, j, n, at)
                    \/ \E retryable \in BOOLEAN : Fail(w, j, n, retryable, at)

ControllerNext ==
    \/ \E now \in Now : \/ ExpireLeases(now)
                        \/ \E w \in Workers : ExpireWorkerLeases(w, now)
                        \/ TimeoutJobs(now)
    \/ \E s \in Sessions, how \in {"closed", "lost"} : FinishSession(s, how)

Next == Tick \/ ClientNext \/ WorkerNext \/ ControllerNext

Spec == Init /\ [][Next]_vars

(* The lease reaper and the timeout controller run on timers of the        *)
(* control plane and time passes; no client or worker is obliged to act.   *)
(* A later round of a controller reads a later time, so a round with the   *)
(* current time comes once the clock has reached its bound.                *)
Fairness ==
    /\ WF_vars(Tick)
    /\ WF_vars(ExpireLeases(clock))
    /\ WF_vars(TimeoutJobs(clock))

FairSpec == Spec /\ Fairness

-----------------------------------------------------------------------------
(* Correctness. *)

(* Every column holds a value of its type; a slot counter stays between    *)
(* zero and max_concurrency although five operations move it.              *)
TypeOK ==
    /\ clock \in Nat
    /\ session \in [Sessions -> {"open", "closed", "lost"}]
    /\ submission \in [Jobs -> {"none", "queued", "waiting"}]
    /\ jobState \in [Jobs -> JobStates \cup {"none"}]
    /\ nextAttempt \in [Jobs -> Nat]
    /\ attempts \in [Jobs -> Seq(Attempts)]
    /\ slots \in [Workers -> Nat] /\ \A w \in Workers : slots[w] <= MaxConcurrency[w]
    /\ result \in [Jobs -> Nat]
    /\ announced \in [Jobs -> SUBSET TerminalJobStates]

(* The three tables agree: a job is leased exactly while one attempt of it *)
(* is active, only the newest attempt can be active, and an attempt has a  *)
(* lease row exactly while it is active.  The job and attempt rows are     *)
(* written by different statements of claim, completion, expiry, timeout,  *)
(* cancellation and session end.                                           *)
LeaseDiscipline ==
    \A j \in Jobs :
        /\ jobState[j] = "leased" <=>
              \E n \in DOMAIN attempts[j] : Active(attempts[j][n])
        /\ \A n \in DOMAIN attempts[j] :
              /\ Active(attempts[j][n]) => n = Len(attempts[j])
              /\ Active(attempts[j][n]) <=> attempts[j][n].expires # NoLease

(* No worker holds more active attempts than its max_concurrency, even     *)
(* while available_slots advertises room it does not have.                 *)
ConcurrencyBound ==
    \A w \in Workers : Cardinality(HeldBy(w)) <= MaxConcurrency[w]

(* A job is never attempted more often than its retry policy allows,       *)
(* whichever of completion and lease expiry sends it back to the queue.    *)
AttemptBudget ==
    \A j \in Jobs : Len(attempts[j]) <= MaxAttempts[j]

(* A job has succeeded exactly when one of its attempts has, and only one  *)
(* can have: a late or repeated completion never counts a second time.     *)
SuccessIsUnique ==
    \A j \in Jobs :
        /\ jobState[j] = "succeeded" <=>
              \E n \in DOMAIN attempts[j] : attempts[j][n].state = "succeeded"
        /\ \A m, n \in DOMAIN attempts[j] :
              attempts[j][m].state = "succeeded" /\ attempts[j][n].state = "succeeded"
                  => m = n

(* The stored result of a succeeded job is that of the attempt that        *)
(* succeeded, although job_results has one row per job and SaveResult      *)
(* lets every attempt overwrite it, expired lease or not.                  *)
ResultOfWinner ==
    \A j \in Jobs : \A n \in DOMAIN attempts[j] :
        attempts[j][n].state = "succeeded" => result[j] = n

(* No attempt of a job starts before everything it depends on has          *)
(* succeeded, whether the job was inserted as queued or promoted later.    *)
DependenciesFirst ==
    \A j \in Jobs : attempts[j] # <<>> =>
        \A d \in DependsOn[j] : jobState[d] = "succeeded"

(* The event log of a job reports a terminal state exactly when the job is *)
(* in one, and the state it is in is among those reported.                 *)
AnnouncedWhenTerminal ==
    \A j \in Jobs : IF Terminal(j) THEN jobState[j] \in announced[j]
                                   ELSE announced[j] = {}

(* Two submissions that race with one idempotency key create one job.      *)
OneJobPerKey ==
    \A j, k \in Jobs :
        Exists(j) /\ Exists(k) /\ IdempotencyKey[j] = IdempotencyKey[k] => j = k

(* Once a session has ended nothing in it is being executed, although a    *)
(* submission checked before the end may still insert a job after it.      *)
NoWorkInEndedSession ==
    \A j \in Jobs : ~SessionOpen(j) => jobState[j] # "leased"

(* What the invariants above rest on.  No statement writes "running"; a    *)
(* submission is pending only while its row does not exist; a job that has *)
(* not left the queue yet has no attempt and one in the queue has attempts *)
(* left; only the newest attempt can have succeeded; and a job that is     *)
(* queued, will be inserted as queued or was ever attempted has seen all   *)
(* its dependencies succeed.                                               *)
Bookkeeping ==
    \A j \in Jobs :
        /\ jobState[j] # "running"
        /\ submission[j] # "none" => jobState[j] = "none"
        /\ jobState[j] \in {"none", "waiting"} => attempts[j] = <<>>
        /\ jobState[j] = "queued" => Len(attempts[j]) < MaxAttempts[j]
        /\ \A n \in DOMAIN attempts[j] :
              attempts[j][n].state = "succeeded" => n = Len(attempts[j])
        /\ \/ attempts[j] # <<>>
           \/ jobState[j] = "queued"
           \/ submission[j] = "queued"
           => \A d \in DependsOn[j] : jobState[d] = "succeeded"

(* A job, like a submission on its way, depends on jobs of its own session *)
(* only, so that the end of a session leaves no job of another waiting.    *)
DependenciesInSession ==
    \A j \in Jobs : Exists(j) \/ submission[j] # "none" =>
        \A d \in DependsOn[j] : SessionOf[d] = SessionOf[j]

(* The inductive invariant: every step of the store keeps all of it.       *)
Consistent ==
    /\ TypeOK
    /\ LeaseDiscipline
    /\ ConcurrencyBound
    /\ AttemptBudget
    /\ SuccessIsUnique
    /\ ResultOfWinner
    /\ AnnouncedWhenTerminal
    /\ OneJobPerKey
    /\ NoWorkInEndedSession
    /\ DependenciesInSession
    /\ Bookkeeping

(* Finished is final: no step changes the state of a terminal job, the     *)
(* result of a succeeded one, or an attempt that has ended.  CompleteAttempt *)
(* and TimeoutJobs write the job row without testing its state.            *)
FinishedIsFinal ==
    [][\A j \in Jobs :
          /\ Terminal(j) => jobState'[j] = jobState[j]
          /\ jobState[j] = "succeeded" => result'[j] = result[j]
          /\ \A n \in DOMAIN attempts[j] :
                ~Active(attempts[j][n]) => attempts'[j][n] = attempts[j][n]]_vars

(* A job nobody will ever move again: it waits although its dependencies   *)
(* have all finished or one has failed, or its session is over.            *)
Stranded(j) ==
    \/ /\ jobState[j] = "waiting"
       /\ \/ \A d \in DependsOn[j] : jobState[d] = "succeeded"
          \/ \E d \in DependsOn[j] : jobState[d] \in TerminalJobStates \ {"succeeded"}
    \/ Pending(j) /\ ~SessionOpen(j)

(* No step strands a job that is already in the table: whatever ends a     *)
(* job or a session also promotes, fails or ends all that depended on it.  *)
NoStepStrands ==
    [][\A j \in Jobs : Stranded(j)' => Stranded(j) \/ ~Exists(j)]_vars

(* Under the timers alone, a job with a deadline reaches a terminal state, *)
(* waiting, queued or leased, whatever workers and clients do.             *)
DeadlineIsEnforced ==
    \A j \in Jobs : Exists(j) /\ TimeoutAt[j] # 0 ~> Terminal(j)

(* An attempt whose lease has run out does not stay active.                *)
ExpiredLeaseIsReaped ==
    \A j \in Jobs :
        (\E n \in DOMAIN attempts[j] :
            Active(attempts[j][n]) /\ attempts[j][n].expires <= clock)
        ~> jobState[j] # "leased"

(* The event log reports one terminal state of a job, except that a round  *)
(* of TimeoutJobs also reports as timed out a job of its list which the    *)
(* propagation of another of the list has just failed (sqlite.go:975).     *)
SecondNoticeIsTimeout ==
    \A j \in Jobs : \/ Cardinality(announced[j]) <= 1
                    \/ announced[j] = {"dependency_failed", "timed_out"}

(* No job is ever stranded.                                                *)
NeverStranded == \A j \in Jobs : ~Stranded(j)

-----------------------------------------------------------------------------
Lifecycle == INSTANCE JobLifecycle
             WITH state <- jobState, tries <- [j \in Jobs |-> Len(attempts[j])]

(* The tables implement the lifecycle the domain package describes: every  *)
(* step of the store moves each job along its transition table.            *)
ImplementsLifecycle == Lifecycle!Spec
=============================================================================
