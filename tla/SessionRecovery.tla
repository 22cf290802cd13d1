-------------------------- MODULE SessionRecovery --------------------------
(***************************************************************************)
(* One session of the control plane: its row, the reservations that bind   *)
(* a worker and a sandbox to it, and everything that competes for it --    *)
(* the worker requests (httpapi/worker.go), the health, expiry and         *)
(* recovery controllers (internal/controller) and the client's close and   *)
(* recover calls.                                                          *)
(*                                                                         *)
(* A statement or a transaction of the store is one step (sqlite.go:38).   *)
(* A handler or a controller round makes several, so what it read is kept  *)
(* in call, join, health, expiry and recovery until it is used.            *)
(*                                                                         *)
(* Sandbox 1 hosts the worker that first binds the session; sandbox e > 1  *)
(* is the deterministic replacement recovery-<session>-<e> of epoch e.     *)
(* The instance id derives from the sandbox id (localdocker.go:106), so a  *)
(* sandbox has one worker row however often its process is started; each   *)
(* start is an incarnation with a session token of its own.                *)
(*                                                                         *)
(* Times are left out: a deadline may have passed at any step.             *)
(***************************************************************************)
EXTENDS Naturals, FiniteSets

CONSTANTS
    Policies,     \* the recovery policies that sessions have
    Expiring,     \* those of them whose sessions have a positive idle_ttl
    Timed,        \* those whose sessions' pool has a positive startup_timeout
    Stubborn,     \* the epochs whose sandboxes a Terminate that fails may leave running
    MaxAttempts,  \* RecoveryConfig.MaxAttempts, positive
    MaxEpoch,     \* bound: no recovery is requested at this epoch
    MaxRestarts,  \* bound: crashes of the control plane
    Requests      \* the authenticated requests that workers make

ASSUME RecoveryAssumption ==
    /\ Policies \subseteq {"none", "checkpoint", "rebuild"}
    /\ Expiring \subseteq Policies
    /\ Timed \subseteq Policies
    /\ Stubborn \subseteq 1 .. MaxEpoch
    /\ MaxAttempts \in Nat \ {0}
    /\ MaxEpoch \in Nat \ {0}
    /\ MaxRestarts \in Nat
    /\ Requests \subseteq {"heartbeat", "complete", "acknowledge", "fail"}

VARIABLES
    session,    \* the sessions row
    row,        \* the workers row of each sandbox's worker
    box,        \* the sandboxes row: absent, free, or held for the session
    rebuild,    \* state of the rebuild job of each epoch
    work,       \* workers with an active attempt of a job of the session
    process,    \* the worker process that runs in each sandbox
    launched,   \* incarnations started so far, sandbox 1's included
    call,       \* authenticated worker request, between its read and its write
    join,       \* registration, between its reads and its writes
    health,     \* WorkerHealth.run
    expiry,     \* SessionExpiry.run
    recovery,   \* RecoveryController.run
    restarts    \* crashes of the control plane so far

store    == <<session, row, box, rebuild, work>>
machines == <<process, launched>>
flight   == <<call, join, health, expiry, recovery>>
vars     == <<store, machines, flight, restarts>>

Epochs  == 1 .. MaxEpoch
Ended   == {"closed", "lost"}
NoCall  == [kind |-> "none", token |-> 0, reserved |-> 0]
NoJoin  == [step |-> "none", token |-> 0, reserved |-> 0]
Halted  == [token |-> 0, phase |-> "halted", epoch |-> 0]
Resting == [step |-> "rest", worker |-> 0, reserved |-> 0]
Between == [step |-> "rest", epoch |-> 0, state |-> "idle", acked |-> FALSE,
            boxes |-> {}, worker |-> 0]

States  == {"pending", "active", "recovering"} \cup Ended
Stages  == {"idle", "pending", "provisioning", "restoring", "failed"}
Rounds  == {"rest", "boxes", "workers", "enqueue", "validate", "acknowledge", "complete",
            "terminal", "reap", "fail", "claim", "exhaust", "create", "record"}

Sessions   == [state : States, epoch : Epochs, owner : 0 .. MaxEpoch, acked : BOOLEAN,
               recovery : Stages, attempts : Nat, policy : Policies]
Rows       == [token : Nat, reserved : 0 .. MaxEpoch]
Processes  == [token : Nat, phase : {"halted", "boot", "restore", "serve"},
               epoch : 0 .. MaxEpoch]
Calls      == [kind : {"none", "failed", "heartbeat", "complete", "acknowledge", "fail"},
               token : Nat, reserved : 0 .. MaxEpoch]
Joins      == [step : {"none", "session", "write"}, token : Nat, reserved : 0 .. MaxEpoch]
Healths    == [step : {"rest", "revoke", "recover", "expire"}, worker : 0 .. MaxEpoch,
               reserved : 0 .. MaxEpoch]
Recoveries == [step : Rounds, epoch : 0 .. MaxEpoch, state : Stages, acked : BOOLEAN,
               boxes : SUBSET Epochs, worker : 0 .. MaxEpoch]

(* Every variable holds a value of its type; in particular the row of a    *)
(* sandbox is absent, free or held by the session, whoever reaps it.       *)
TypeOK ==
    /\ session \in Sessions
    /\ row \in [Epochs -> Rows]
    /\ box \in [Epochs -> {"absent", "free", "held"}]
    /\ rebuild \in [Epochs -> {"none", "queued", "leased", "succeeded", "failed"}]
    /\ work \subseteq Epochs
    /\ process \in [Epochs -> Processes]
    /\ launched \in Nat
    /\ call \in [Epochs -> Calls]
    /\ join \in [Epochs -> Joins]
    /\ health \in Healths
    /\ expiry \in {"rest", "close"}
    /\ recovery \in Recoveries
    /\ restarts \in 0 .. MaxRestarts

Init ==
    /\ session \in {[state |-> "pending", epoch |-> 1, owner |-> 0, acked |-> FALSE,
                    recovery |-> "idle", attempts |-> 0, policy |-> p] : p \in Policies}
    /\ row = [e \in Epochs |-> [token |-> IF e = 1 THEN 1 ELSE 0, reserved |-> 0]]
    /\ box = [e \in Epochs |-> IF e = 1 THEN "free" ELSE "absent"]
    /\ rebuild = [e \in Epochs |-> "none"]
    /\ work = {}
    /\ process = [e \in Epochs |->
                    IF e = 1 THEN [token |-> 1, phase |-> "serve", epoch |-> 0] ELSE Halted]
    /\ launched = 1
    /\ call = [e \in Epochs |-> NoCall]
    /\ join = [e \in Epochs |-> NoJoin]
    /\ health = Resting
    /\ expiry = "rest"
    /\ recovery = Between
    /\ restarts = 0

-----------------------------------------------------------------------------
(* Transactions of the store.                                              *)

\* finishSessionTx on a session that has not ended.  Only the worker and the
\* sandbox named in the session row are released.
Finish(state) ==
    LET o == session.owner IN
    /\ session.state \notin Ended
    /\ session' = [session EXCEPT !.state = state]
    /\ work' = {}
    /\ rebuild' = [e \in Epochs |->
                     IF rebuild[e] \in {"queued", "leased"} THEN "failed" ELSE rebuild[e]]
    /\ row' = [e \in Epochs |-> IF e = o THEN [row[e] EXCEPT !.reserved = 0] ELSE row[e]]
    /\ box' = [e \in Epochs |-> IF e = o /\ box[e] = "held" THEN "free" ELSE box[e]]

\* finishSessionTx leaves an ended session as it is.
FinishIfOpen(state) ==
    \/ Finish(state)
    \/ session.state \in Ended /\ UNCHANGED store

Recoverable == session.state \in {"active", "recovering"} /\ session.policy # "none"

RequestRecovery ==
    /\ Recoverable
    /\ session' = [session EXCEPT !.state = "recovering", !.recovery = "pending",
                     !.epoch = @ + 1, !.owner = 0, !.acked = FALSE]
    /\ UNCHANGED <<row, box, rebuild, work>>

\* What FailRecovery, CompleteRecovery, AcknowledgeRecovery and
\* TerminalRecovery test before they change anything.
RecoveringAt(epoch) == session.state = "recovering" /\ session.epoch = epoch

FailRecovery(epoch) ==
    /\ RecoveringAt(epoch)
    /\ session' = [session EXCEPT !.recovery = "failed"]
    /\ row' = [e \in Epochs |->
                 IF row[e].reserved = epoch THEN [row[e] EXCEPT !.reserved = 0] ELSE row[e]]

MayAcknowledge(epoch, w) == RecoveringAt(epoch) /\ row[w].reserved = epoch

AcknowledgeRecovery(epoch, w) ==
    /\ MayAcknowledge(epoch, w)
    /\ session' = [session EXCEPT !.acked = TRUE, !.recovery = "restoring"]
    /\ UNCHANGED <<row, box, rebuild, work>>

(* Mutant: completion asks for the epoch and not for the state. *)
CompleteRecoveryAnyState(epoch, w) ==
    /\ session.epoch = epoch /\ session.acked
    /\ session' = [session EXCEPT !.state = "active", !.recovery = "idle", !.owner = w]
    /\ row' = [row EXCEPT ![w].reserved = epoch]
    /\ UNCHANGED <<box, rebuild, work>>

CompleteRecovery(epoch, w) ==
    /\ RecoveringAt(epoch) /\ session.acked
    /\ session' = [session EXCEPT !.state = "active", !.recovery = "idle", !.owner = w]
    /\ row' = [row EXCEPT ![w].reserved = epoch]
    /\ UNCHANGED <<box, rebuild, work>>

\* A recovering session names no worker and no sandbox, so finishSessionTx
\* releases nothing; the rest releases every reservation of this epoch and
\* every sandbox held for the session.
TerminalRecovery(epoch) ==
    /\ RecoveringAt(epoch)
    /\ session' = [session EXCEPT !.state = "lost", !.recovery = "failed"]
    /\ work' = {}
    /\ rebuild' = [e \in Epochs |->
                     IF rebuild[e] \in {"queued", "leased"} THEN "failed" ELSE rebuild[e]]
    /\ row' = [e \in Epochs |->
                 IF row[e].reserved = epoch THEN [row[e] EXCEPT !.reserved = 0] ELSE row[e]]
    /\ box' = [e \in Epochs |-> IF box[e] = "held" THEN "free" ELSE box[e]]

-----------------------------------------------------------------------------
(* Worker requests.                                                        *)

\* Terminate of the provider, whose error is ignored: a process may run on.
Terminate(boxes) ==
    \E left \in SUBSET (boxes \cap Stubborn) :
        process' = [e \in Epochs |-> IF e \in boxes \ left THEN Halted ELSE process[e]]

Serving(w) == process[w].phase = "serve"

\* authenticatedWorker: the token is the row's, and a reserved worker belongs
\* to the session's current epoch.
Authenticated(w) ==
    /\ process[w].token # 0
    /\ row[w].token = process[w].token
    /\ row[w].reserved # 0 =>
          /\ row[w].reserved = session.epoch
          /\ session.state = "recovering" \/ (session.state = "active" /\ session.owner = w)

\* A request that has passed authenticatedWorker keeps the row it read.
Authenticate(w, kind) ==
    /\ kind \in Requests
    /\ call[w] = NoCall
    /\ Authenticated(w)
    /\ call' = [call EXCEPT ![w] = [kind |-> kind, token |-> row[w].token,
                                    reserved |-> row[w].reserved]]
    /\ UNCHANGED <<store, machines, join, health, expiry, recovery, restarts>>

Answer(w) ==
    /\ call' = [call EXCEPT ![w] = NoCall]
    /\ UNCHANGED <<launched, join, health, expiry, recovery, restarts>>

\* registerWorker: the bootstrap token is consumed and the sandbox read; if it
\* is held, the session is read next.
RegisterRead(w) ==
    /\ process[w].phase = "boot" /\ join[w] = NoJoin
    /\ join' = [join EXCEPT ![w] = [step |-> IF box[w] = "held" THEN "session" ELSE "write",
                                    token |-> process[w].token, reserved |-> 0]]
    /\ UNCHANGED <<store, machines, call, health, expiry, recovery, restarts>>

RegisterSession(w) ==
    /\ join[w].step = "session"
    /\ join' = [join EXCEPT ![w].step = "write",
                   ![w].reserved = IF session.state = "recovering" THEN session.epoch ELSE 0]
    /\ UNCHANGED <<store, machines, call, health, expiry, recovery, restarts>>

\* registerWorker: UpsertWorker writes the whole row; UpsertSandbox inserts a
\* missing row without a reservation and keeps the reservation of a row that
\* exists.  A worker told of a recovery restores before it serves.
RegisterWrite(w) ==
    LET j == join[w] IN
    /\ j.step = "write"
    /\ join' = [join EXCEPT ![w] = NoJoin]
    /\ row' = [row EXCEPT ![w] = [token |-> j.token, reserved |-> j.reserved]]
    /\ box' = [box EXCEPT ![w] = IF @ = "absent" THEN "free" ELSE @]
    /\ process' = [process EXCEPT ![w] =
                     IF @.token = j.token
                     THEN [token |-> j.token, epoch |-> j.reserved,
                           phase |-> IF j.reserved = 0 THEN "serve" ELSE "restore"]
                     ELSE @]
    /\ UNCHANGED <<session, rebuild, work, launched, call, health, expiry, recovery, restarts>>

\* heartbeatWorker: read the row, then write it back whole, reservation and
\* token included.
HeartbeatRead(w) == Serving(w) /\ Authenticate(w, "heartbeat")

HeartbeatWrite(w) ==
    /\ call[w].kind = "heartbeat"
    /\ row' = [row EXCEPT ![w] = [token |-> call[w].token, reserved |-> call[w].reserved]]
    /\ Answer(w)
    /\ UNCHANGED <<session, box, rebuild, work, process>>

\* complete or fail of an attempt: CompleteAttempt asks whether the attempt is
\* active and leased to this worker, not which epoch the session is in.
CompleteRead(w) == Serving(w) /\ w \in work /\ Authenticate(w, "complete")

CompleteWrite(w) ==
    /\ call[w].kind = "complete"
    /\ work' = work \ {w}
    /\ Answer(w)
    /\ UNCHANGED <<session, row, box, rebuild, process>>

\* acknowledgeRecovery after a successful restore.  A worker whose
\* acknowledgement is refused exits (runtime.go:82-86).
AcknowledgeRead(w) ==
    /\ process[w].phase = "restore" /\ row[w].reserved = process[w].epoch
    /\ Authenticate(w, "acknowledge")

AcknowledgeWrite(w) ==
    /\ call[w].kind = "acknowledge"
    /\ Answer(w)
    /\ \/ /\ AcknowledgeRecovery(call[w].reserved, w)
          /\ process' = [process EXCEPT ![w] =
                           IF @.token = call[w].token THEN [@ EXCEPT !.phase = "serve"] ELSE @]
       \/ /\ ~MayAcknowledge(call[w].reserved, w)
          /\ process' = [process EXCEPT ![w] = IF @.token = call[w].token THEN Halted ELSE @]
          /\ UNCHANGED store

\* acknowledgeRecovery with an error: the sandbox is terminated and its row
\* deleted, then FailRecovery is called, whatever it answers.
RestoreFailedRead(w) ==
    /\ process[w].phase = "restore" /\ row[w].reserved = process[w].epoch
    /\ session.policy = "checkpoint"
    /\ Authenticate(w, "fail")

RestoreFailedReap(w) ==
    /\ call[w].kind = "fail"
    /\ call' = [call EXCEPT ![w].kind = "failed"]
    /\ Terminate({w})
    /\ box' = [box EXCEPT ![w] = "absent"]
    /\ UNCHANGED <<session, row, rebuild, work, launched, join, health, expiry, recovery, restarts>>

RestoreFailedWrite(w) ==
    /\ call[w].kind = "failed"
    /\ Answer(w)
    /\ \/ FailRecovery(call[w].reserved)
       \/ ~RecoveringAt(call[w].reserved) /\ UNCHANGED <<session, row>>
    /\ UNCHANGED <<box, rebuild, work, process>>

\* ClaimNextJob by a worker whose poll was authenticated at some time since it
\* registered (claimWorker authenticates once and then polls).
Claim(w) == Serving(w) /\ box[w] # "absent" /\ UNCHANGED <<machines, flight, restarts>>

(* Mutant: any unreserved worker may take over a session that has one. *)
ClaimBindAgain(w) ==
    /\ Claim(w)
    /\ session.state \in {"pending", "active"} /\ row[w].reserved = 0
    /\ session' = [session EXCEPT !.state = "active", !.owner = w]
    /\ row' = [row EXCEPT ![w].reserved = session.epoch]
    /\ box' = [box EXCEPT ![w] = "held"]
    /\ work' = work \cup {w}
    /\ UNCHANGED rebuild

ClaimBind(w) ==
    /\ Claim(w)
    /\ session.state = "pending" /\ row[w].reserved = 0
    /\ session' = [session EXCEPT !.state = "active", !.owner = w]
    /\ row' = [row EXCEPT ![w].reserved = session.epoch]
    /\ box' = [box EXCEPT ![w] = "held"]
    /\ work' = work \cup {w}
    /\ UNCHANGED rebuild

ClaimActive(w) ==
    /\ Claim(w)
    /\ session.state = "active" /\ session.owner = w
    /\ work' = work \cup {w}
    /\ UNCHANGED <<session, row, box, rebuild>>

\* A rebuild step goes to a worker reserved for the epoch while the session is
\* recovering; a step left over from an earlier epoch is an ordinary job of an
\* active session.
ClaimRebuild(w, e) ==
    /\ Claim(w)
    /\ rebuild[e] = "queued"
    /\ \/ session.state = "recovering" /\ e = session.epoch /\ row[w].reserved = e
       \/ session.state = "active" /\ session.owner = w
    /\ rebuild' = [rebuild EXCEPT ![e] = "leased"]
    /\ UNCHANGED <<session, row, box, work>>

\* A rebuild step has one attempt (recovery.go:311): it succeeds, or it fails
\* or loses its lease and is over.
EndRebuild(e, result) ==
    /\ rebuild[e] = "leased"
    /\ rebuild' = [rebuild EXCEPT ![e] = result]
    /\ UNCHANGED <<session, row, box, work, machines, flight, restarts>>

\* LeaseReaper: the lease of an attempt of the session expires.
ExpireLease(w) ==
    /\ w \in work
    /\ work' = work \ {w}
    /\ UNCHANGED <<session, row, box, rebuild, machines, flight, restarts>>

-----------------------------------------------------------------------------
(* The control plane's process.  A controller that returns an error ends   *)
(* it (app.go:128-156); it is started again with nothing in flight.        *)

Stop ==
    /\ call' = [e \in Epochs |-> NoCall]
    /\ join' = [e \in Epochs |-> NoJoin]
    /\ health' = Resting
    /\ expiry' = "rest"
    /\ recovery' = Between

Crash ==
    /\ restarts < MaxRestarts
    /\ restarts' = restarts + 1
    /\ Stop
    /\ UNCHANGED <<store, machines>>

\* The bound on the epoch: a recovery still to be requested by the health
\* controller counts.
Headroom ==
    session.epoch + (IF health.reserved # 0 /\ health.step # "expire" THEN 1 ELSE 0) < MaxEpoch

\* sessionRoute: the client closes the session or asks for its recovery.
CloseSession ==
    /\ Finish("closed")
    /\ UNCHANGED <<machines, flight, restarts>>

RecoverSession ==
    /\ Headroom
    /\ RequestRecovery
    /\ UNCHANGED <<machines, flight, restarts>>

\* ExpireSessions: an idle session without an active attempt is chosen first
\* and closed later.  One past its maximum lifetime is closed whatever runs in
\* it, which CloseSession covers.
ExpireSessionsRead ==
    /\ session.policy \in Expiring /\ expiry = "rest"
    /\ session.state \in {"pending", "active"}
    /\ work = {} /\ \A e \in Epochs : rebuild[e] # "leased"
    /\ expiry' = "close"
    /\ UNCHANGED <<store, machines, call, join, health, recovery, restarts>>

ExpireSessionsClose ==
    /\ expiry = "close"
    /\ expiry' = "rest"
    /\ FinishIfOpen("closed")
    /\ UNCHANGED <<machines, call, join, health, recovery, restarts>>

\* WorkerHealth.run finds a worker dead, and SetWorkerHealth reads its row.
\* A cut-off worker is found dead like one that has stopped.
HealthRead(w) ==
    /\ health.step = "rest"
    /\ row[w].token # 0
    /\ row[w].reserved # 0 => Headroom
    /\ health' = [step |-> "revoke", worker |-> w, reserved |-> row[w].reserved]
    /\ UNCHANGED <<store, machines, call, join, expiry, recovery, restarts>>

\* SetWorkerHealth: the row is marked dead and loses its token.
HealthRevoke ==
    /\ health.step = "revoke"
    /\ row' = [row EXCEPT ![health.worker].token = 0]
    /\ health' = [health EXCEPT !.step = IF health.reserved # 0 THEN "recover" ELSE "expire"]
    /\ UNCHANGED <<session, box, rebuild, work, machines, call, join, expiry, recovery, restarts>>

\* SetWorkerHealth: a worker that was reserved takes its session with it.  A
\* session that cannot be recovered is a conflict, which ends the process.
HealthRecover ==
    /\ health.step = "recover"
    /\ UNCHANGED <<machines, restarts>>
    /\ \/ /\ IF session.policy = "none" THEN FinishIfOpen("lost") ELSE RequestRecovery
          /\ health' = [health EXCEPT !.step = "expire"]
          /\ UNCHANGED <<call, join, expiry, recovery>>
       \/ /\ session.policy # "none" /\ ~Recoverable
          /\ Stop
          /\ UNCHANGED store

\* WorkerHealth.run: ExpireWorkerLeases.
HealthExpire ==
    /\ health.step = "expire"
    /\ work' = work \ {health.worker}
    /\ health' = Resting
    /\ UNCHANGED <<session, row, box, rebuild, machines, call, join, expiry, recovery, restarts>>

-----------------------------------------------------------------------------
(* RecoveryController.run: three reads, then what they call for.           *)

At(step) == recovery.step = step /\ UNCHANGED restarts

Go(step) ==
    /\ recovery' = [recovery EXCEPT !.step = step]
    /\ UNCHANGED <<call, join, health, expiry>>

Done == recovery' = Between /\ UNCHANGED <<call, join, health, expiry>>

ReadSession ==
    /\ At("rest")
    /\ session.state = "recovering"
    /\ recovery' = [Between EXCEPT !.step = "boxes", !.epoch = session.epoch,
                      !.state = session.recovery, !.acked = session.acked]
    /\ UNCHANGED <<store, machines, call, join, health, expiry>>

ReadBoxes ==
    /\ At("boxes")
    /\ recovery' = [recovery EXCEPT !.step = "workers",
                      !.boxes = {e \in Epochs : box[e] = "held"}]
    /\ UNCHANGED <<store, machines, call, join, health, expiry>>

\* The workers are read last.  A worker reserved for the epoch is adopted:
\* its rebuild is looked after, or it is activated once the restore is
\* acknowledged.  Lists are ordered by identifier, so any may come first.
Adoptable == {w \in Epochs : row[w].reserved = recovery.epoch}

Adopt(w) ==
    /\ At("workers")
    /\ w \in Adoptable
    /\ recovery' = IF session.policy = "rebuild" \/ recovery.acked
                   THEN [recovery EXCEPT !.worker = w,
                           !.step = IF session.policy = "rebuild" THEN "enqueue" ELSE "complete"]
                   ELSE Between
    /\ UNCHANGED <<store, machines, call, join, health, expiry>>

\* Without one, a replacement in the making is waited for, given up when a
\* sandbox held for the session has passed the pool's startup timeout, if it
\* has one, or failed when there is none.
InTheMaking == recovery.state \in {"provisioning", "restoring"}

Await ==
    /\ At("workers") /\ Adoptable = {} /\ InTheMaking
    /\ IF recovery.boxes = {} THEN Go("fail") ELSE Done
    /\ UNCHANGED <<store, machines>>

GiveUp(b) ==
    /\ At("workers") /\ Adoptable = {} /\ InTheMaking
    /\ session.policy \in Timed
    /\ b \in recovery.boxes
    /\ recovery' = [recovery EXCEPT !.step = "reap", !.worker = b]
    /\ UNCHANGED <<store, machines, call, join, health, expiry>>

\* Otherwise a replacement is to be made.
StartAnew ==
    /\ At("workers") /\ Adoptable = {} /\ ~InTheMaking
    /\ Go("claim")
    /\ UNCHANGED <<store, machines>>

\* enqueueRebuild: the step's job, unless it exists or the session has ended.
EnqueueRebuild ==
    /\ At("enqueue")
    /\ rebuild' = [rebuild EXCEPT ![recovery.epoch] =
                     IF @ = "none" /\ session.state \notin Ended THEN "queued" ELSE @]
    /\ Go("validate")
    /\ UNCHANGED <<session, row, box, work, machines>>

(* Mutant: a rebuild counts as complete as soon as it has not failed. *)
ValidateRebuildEarly ==
    /\ At("validate")
    /\ IF rebuild[recovery.epoch] = "failed"
       THEN Go("terminal")
       ELSE Go(IF recovery.acked THEN "complete" ELSE "acknowledge")
    /\ UNCHANGED <<store, machines>>

\* rebuildValidated: what the step's job says of the rebuild.  No job at all,
\* in a session that ended before it was enqueued, counts as complete.
ValidateRebuild ==
    LET state == rebuild[recovery.epoch] IN
    /\ At("validate")
    /\ CASE state = "failed" -> Go("terminal")
         [] state \in {"none", "succeeded"} ->
                Go(IF recovery.acked THEN "complete" ELSE "acknowledge")
         [] OTHER -> Done
    /\ UNCHANGED <<store, machines>>

\* rebuildValidated acknowledges for the worker; a conflict is an error.
AcknowledgeRebuild ==
    /\ At("acknowledge")
    /\ UNCHANGED machines
    /\ \/ AcknowledgeRecovery(recovery.epoch, recovery.worker) /\ Go("complete")
       \/ ~MayAcknowledge(recovery.epoch, recovery.worker) /\ Stop /\ UNCHANGED store

\* A conflict in CompleteRecovery is passed over.
Complete ==
    /\ At("complete")
    /\ Done
    /\ UNCHANGED machines
    /\ \/ CompleteRecovery(recovery.epoch, recovery.worker)
       \/ ~(RecoveringAt(recovery.epoch) /\ session.acked) /\ UNCHANGED store

Terminal ==
    /\ At("terminal")
    /\ UNCHANGED machines
    /\ \/ TerminalRecovery(recovery.epoch) /\ Done
       \/ ~RecoveringAt(recovery.epoch) /\ Stop /\ UNCHANGED store

\* The startup timeout of a sandbox held for the session has passed: it is
\* terminated and its row deleted, which must still exist.
Reap ==
    LET b == recovery.worker IN
    /\ At("reap")
    /\ Terminate({b})
    /\ box' = [box EXCEPT ![b] = "absent"]
    /\ IF box[b] = "absent" THEN Stop ELSE Go("fail")
    /\ UNCHANGED <<session, row, rebuild, work, launched>>

Fail ==
    /\ At("fail")
    /\ UNCHANGED <<box, rebuild, work, machines>>
    /\ \/ FailRecovery(recovery.epoch) /\ Done
       \/ ~RecoveringAt(recovery.epoch) /\ Stop /\ UNCHANGED <<session, row>>

(* Mutant: a failed recovery is not taken up again. *)
MayClaimPendingOnly == session.state = "recovering" /\ session.recovery = "pending"

\* ClaimRecovery answers with the row as it now is, epoch included.
MayClaim == session.state = "recovering" /\ session.recovery \in {"pending", "failed"}

(* Mutant: the attempts are compared before this one is counted. *)
ClaimRecoveryOneMore ==
    /\ At("claim")
    /\ UNCHANGED <<row, box, rebuild, work, machines, call, join, health, expiry>>
    /\ \/ /\ MayClaim
          /\ session' = [session EXCEPT !.recovery = "provisioning", !.attempts = @ + 1]
          /\ recovery' = [recovery EXCEPT !.epoch = session.epoch,
                            !.step = IF session.attempts > MaxAttempts
                                     THEN "exhaust" ELSE "create"]
       \/ ~MayClaim /\ recovery' = Between /\ UNCHANGED session

ClaimRecovery ==
    /\ At("claim")
    /\ UNCHANGED <<row, box, rebuild, work, machines, call, join, health, expiry>>
    /\ \/ /\ MayClaim
          /\ session' = [session EXCEPT !.recovery = "provisioning", !.attempts = @ + 1]
          /\ recovery' = [recovery EXCEPT !.epoch = session.epoch,
                            !.step = IF session.attempts + 1 > MaxAttempts
                                     THEN "exhaust" ELSE "create"]
       \/ ~MayClaim /\ recovery' = Between /\ UNCHANGED session

\* The attempts are used up: the sandboxes seen held are terminated and their
\* rows deleted, errors ignored.
Exhaust ==
    /\ At("exhaust")
    /\ Terminate(recovery.boxes)
    /\ box' = [e \in Epochs |-> IF e \in recovery.boxes THEN "absent" ELSE box[e]]
    /\ Go("terminal")
    /\ UNCHANGED <<session, row, rebuild, work, launched>>

\* A token is minted, a usable checkpoint looked for and the provider asked
\* for the sandbox; any of them may fail, and the provider does where the
\* sandbox still runs.
Create ==
    LET e == recovery.epoch IN
    /\ At("create")
    /\ UNCHANGED store
    /\ \/ Go("fail") /\ UNCHANGED machines
       \/ /\ process[e] = Halted
          /\ launched' = launched + 1
          /\ process' = [process EXCEPT ![e] =
                           [token |-> launched + 1, phase |-> "boot", epoch |-> 0]]
          /\ Go("record")

\* UpsertSandbox: the reservation is written only with a new row.
Record ==
    /\ At("record")
    /\ box' = [box EXCEPT ![recovery.epoch] = IF @ = "absent" THEN "held" ELSE @]
    /\ Done
    /\ UNCHANGED <<session, row, rebuild, work, machines>>

\* A worker process or its sandbox dies.
ProcessDies(w) ==
    /\ process[w] # Halted
    /\ process' = [process EXCEPT ![w] = Halted]
    /\ UNCHANGED <<store, launched, flight, restarts>>

-----------------------------------------------------------------------------
WorkerStep(w) ==
    \/ RegisterRead(w) \/ RegisterSession(w) \/ RegisterWrite(w)
    \/ HeartbeatRead(w) \/ HeartbeatWrite(w)
    \/ CompleteRead(w) \/ CompleteWrite(w)
    \/ AcknowledgeRead(w) \/ AcknowledgeWrite(w)
    \/ RestoreFailedRead(w) \/ RestoreFailedReap(w) \/ RestoreFailedWrite(w)
    \/ ClaimBind(w) \/ ClaimActive(w)
    \/ \E e \in Epochs : ClaimRebuild(w, e)

HealthStep ==
    (\E w \in Epochs : HealthRead(w)) \/ HealthRevoke \/ HealthRecover \/ HealthExpire

RecoveryStep ==
    \/ ReadSession \/ ReadBoxes
    \/ Await \/ StartAnew \/ (\E e \in Epochs : Adopt(e) \/ GiveUp(e))
    \/ EnqueueRebuild \/ ValidateRebuild \/ AcknowledgeRebuild \/ Complete
    \/ Terminal \/ Reap \/ Fail \/ ClaimRecovery \/ Exhaust \/ Create \/ Record

Next ==
    \/ \E w \in Epochs : WorkerStep(w) \/ ExpireLease(w) \/ ProcessDies(w)
    \/ \E e \in Epochs, r \in {"succeeded", "failed"} : EndRebuild(e, r)
    \/ HealthStep
    \/ RecoveryStep
    \/ CloseSession \/ RecoverSession
    \/ ExpireSessionsRead \/ ExpireSessionsClose
    \/ Crash

Spec == Init /\ [][Next]_vars

-----------------------------------------------------------------------------
(* Fairness.  A controller runs again and again (controller.go:41-60) and  *)
(* a handler that has started ends.  Time passes, so a sandbox that stays  *)
(* unregistered outlives its startup timeout where the pool has one        *)
(* (GiveUp is for Timed policies only), a worker whose token no process    *)
(* holds is found dead, and a rebuild step ends with its lease at the      *)
(* latest.  A worker that has registered for a recovery reports the        *)
(* restore or exits (runtime.go:65-87).                                    *)

Handler(w) ==
    \/ RegisterSession(w) \/ RegisterWrite(w) \/ HeartbeatWrite(w) \/ CompleteWrite(w)
    \/ AcknowledgeWrite(w) \/ RestoreFailedReap(w) \/ RestoreFailedWrite(w)

RestoreEnds(w) ==
    AcknowledgeRead(w) \/ RestoreFailedRead(w) \/ (process[w].phase = "restore" /\ ProcessDies(w))

RebuildTaken(w) ==
    (\E e \in Epochs : ClaimRebuild(w, e)) \/ (process[w].phase = "serve" /\ ProcessDies(w))

Fairness ==
    /\ WF_vars(RecoveryStep)
    /\ WF_vars(HealthRevoke \/ HealthRecover \/ HealthExpire)
    /\ WF_vars(\E w \in Epochs : Handler(w))
    /\ WF_vars(\E w \in Epochs : RestoreEnds(w))
    /\ WF_vars(\E w \in Epochs : RebuildTaken(w))
    /\ WF_vars(\E e \in Epochs, r \in {"succeeded", "failed"} : EndRebuild(e, r))
    /\ SF_vars(\E b \in Epochs : GiveUp(b))
    /\ SF_vars(\E w \in Epochs : process[w].token # row[w].token /\ HealthRead(w))

FairSpec == Spec /\ Fairness

-----------------------------------------------------------------------------
(* Properties.                                                             *)

Lifecycle == INSTANCE SessionLifecycle WITH state <- session.state, epoch <- session.epoch

\* Whatever comes between the steps of the handlers and controllers, the
\* session row moves as SessionLifecycle allows: CompleteRecovery,
\* RequestRecovery and finishSessionTx never bring back a session that has
\* ended, and every loss of the worker opens a new epoch.
ImplementsSession == Lifecycle!Spec

\* Within one epoch a session never passes from one worker to another:
\* ClaimNextJob's binding and CompleteRecovery decide at most once per epoch.
OneOwnerPerEpoch ==
    [][session.owner # 0 /\ session'.epoch = session.epoch => session'.owner = session.owner]_vars

\* The claim that the controller holds and has not used: ClaimRecovery has
\* counted it, Create has not made the sandbox.
Claimed == IF recovery.step = "create" THEN 1 ELSE 0

\* Every replacement, and the claim held, is counted and within the limit.
LaunchesCounted ==
    /\ launched # 0
    /\ launched - 1 + Claimed <= session.attempts
    /\ launched - 1 + Claimed <= MaxAttempts

\* The session names no worker while ClaimNextJob or CompleteRecovery may
\* still write one: RequestRecovery has cleared it.
OwnerCleared == session.state \in {"pending", "recovering"} => session.owner = 0

\* The epoch that SetWorkerHealth may still open is within the bound.
RoomForHealth ==
    /\ health.step = "rest" => health.reserved = 0
    /\ health.step = "recover" => health.reserved # 0
    /\ health.reserved # 0 /\ health.step # "expire" => session.epoch < MaxEpoch

\* What rebuildValidated found of the step's job is still so when the
\* controller acts on it.
RebuildStands ==
    /\ recovery.step # "rest" => recovery.epoch # 0
    /\ session.policy = "rebuild" /\ session.state \notin Ended =>
          /\ recovery.step = "validate" => rebuild[recovery.epoch] # "none"
          /\ recovery.step \in {"acknowledge", "complete"} =>
                rebuild[recovery.epoch] = "succeeded"

\* Why the properties hold, whatever comes between the steps of the handlers
\* and controllers, and what their proofs need.
RecoverySound ==
    TypeOK /\ LaunchesCounted /\ OwnerCleared /\ RoomForHealth /\ RebuildStands

\* RecoveryController.run starts no more replacements than MaxAttempts, and
\* none that ClaimRecovery has not counted, however often the controller is
\* interrupted between the claim and the creation.
AttemptLimit == launched - 1 <= session.attempts /\ launched - 1 <= MaxAttempts

\* With the rebuild policy a recovered session becomes active only if the
\* rebuild step of that very epoch has succeeded (rebuildValidated), although
\* the controller acts on what it read some steps earlier.
RebuiltBeforeActive ==
    [][session.policy = "rebuild" /\ session.state = "recovering" /\ session'.state = "active"
         => rebuild[session.epoch] = "succeeded"]_vars

\* A worker reserved for the epoch being recovered has lost its token with the
\* restore unacknowledged, or its rebuild not begun, and no request under way,
\* and SetWorkerHealth is not about to ask for another recovery: the controller
\* adopts the worker in every round and waits for what cannot come.
Wedged ==
    /\ session.state = "recovering"
    /\ IF session.policy = "rebuild"
       THEN rebuild[session.epoch] \in {"none", "queued"}
       ELSE ~session.acked
    /\ \E w \in Epochs :
          /\ row[w].reserved = session.epoch /\ row[w].token = 0
          /\ call[w] = NoCall
          /\ ~(health.step = "recover" /\ health.worker = w)

\* The pool has no startup timeout (recovery.go:159), a sandbox is held for the
\* session and no worker is reserved for the epoch: in every round the
\* controller waits for a replacement to register.
Awaited ==
    /\ session.state = "recovering" /\ session.policy \notin Timed
    /\ session.recovery \in {"provisioning", "restoring"}
    /\ \E b \in Epochs : box[b] = "held"
    /\ \A w \in Epochs : row[w].reserved # session.epoch

\* A recovery ends, in an active, closed or lost session: one that goes on for
\* ever is wedged from some time on or, in a pool without a startup timeout,
\* waits for a replacement that does not register (RecoveryController.run with
\* MaxAttempts; up to the bound on epochs).
RecoveryEnds ==
    <>[](session.state = "recovering" /\ session.epoch < MaxEpoch)
        => <>[]Wedged \/ <>[]Awaited

-----------------------------------------------------------------------------
(* What a document says, and the code does not keep in every interleaving. *)

\* docs/session-recovery.md: exhausting the attempt limit ends a recovery that
\* would otherwise be retried for ever.  SetWorkerHealth revokes the token in one
\* statement and requests recovery in another: if the process ends in between,
\* or the worker registered or had an earlier heartbeat written after its row was
\* read, no attempt follows.
NeverWedged == ~Wedged
=============================================================================
