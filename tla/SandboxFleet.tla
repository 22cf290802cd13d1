---------------------------- MODULE SandboxFleet ----------------------------
(***************************************************************************)
(* The sandboxes of one pool at one provider: the autoscaler               *)
(* (internal/controller/autoscaler.go), the reconciler, the reaper and the *)
(* worker health controller (internal/controller/controller.go), worker    *)
(* registration (registerWorker, internal/httpapi/worker.go), the rows of  *)
(* sandboxes, workers and bootstrap_tokens (internal/store/sqlite), and    *)
(* the process around them (internal/app/app.go).                          *)
(*                                                                         *)
(* A controller lists rows, may list the provider, and then writes one row *)
(* or calls the provider at a time.  Each write and call is a step, so     *)
(* what a controller acts on may be stale; the listings the reaper and the *)
(* autoscaler begin with, one after the other, are one step.  Runs of one  *)
(* controller do not overlap (gate).  An error a run returns ends the      *)
(* process: start returns it to the errgroup, which cancels the rest.      *)
(*                                                                         *)
(* Time is left out: whether a timeout, cooldown, backoff, idle time or    *)
(* grace period has passed is a choice made where the code asks.  Rows     *)
(* "ready" and "running" are treated alike by all of this code and are     *)
(* both "running" here.  A sandbox runs until it is terminated, and the    *)
(* provider's Terminate is done when it returns, as localdocker's docker   *)
(* rm --force is.  max_lifetime and idle_after are at their defaults, 0.   *)
(*                                                                         *)
(* A definition that begins "As ... but" is not part of the specification: *)
(* it is a mistake the properties must notice.                             *)
(***************************************************************************)
EXTENDS Integers, FiniteSets

CONSTANTS
    MaxBoxes,           \* bound on the sandbox ids ever drawn
    MinReplicas, MaxReplicas, WorkerConcurrency,     \* the pool
    MaxTotalSandboxes, MaxScaleUpPerRun,             \* AutoscalerLimits
    ProvisioningConcurrency,
    MaxLost,            \* bound on the failed creations that leave a sandbox
    MaxQueued,          \* bound on the demand a run of the autoscaler sees
    Orphans             \* controllers.orphans: "terminate" or "adopt"

ASSUME FleetAssumption ==
    /\ MaxBoxes \in Nat \ {0}
    /\ MinReplicas \in Nat /\ MaxReplicas \in Nat /\ MinReplicas <= MaxReplicas
    /\ {WorkerConcurrency, MaxTotalSandboxes, MaxScaleUpPerRun,
        ProvisioningConcurrency} \subseteq Nat \ {0}
    /\ {MaxLost, MaxQueued} \subseteq Nat
    /\ Orphans \in {"terminate", "adopt"}

Boxes == 1 .. MaxBoxes

VARIABLES
    plane,       \* the process: "down", "starting" (first reconciliation), "up"
    status,      \* what the provider has under each id
    row,         \* sandboxes, state "absent" where there is no row
    token,       \* bootstrap_tokens: "unminted", "valid", "spent"
    worker,      \* the row of the worker in each sandbox: health and attempts
    joining,     \* registrations between their store calls
    making,      \* creations between their calls
    scaler, reconciler, reaper,
    lost         \* sandboxes left behind by creations that reported an error

vars == <<plane, status, row, token, worker, joining, making, scaler,
          reconciler, reaper, lost>>

Workers     == <<token, worker, joining>>
Creation    == <<making, lost>>
Controllers == <<scaler, reconciler, reaper>>

NoRow  == [state |-> "absent", bound |-> "planned"]
NoRows == [b \in Boxes |-> NoRow]

ScalerIdle == [at |-> "idle", expired |-> {}, make |-> 0, drain |-> {}]
ReconcilerIdle == [at |-> "idle", records |-> NoRows,
                   items |-> [b \in Boxes |-> "none"]]

RowStates == {"absent", "running", "draining", "terminating", "missing"}
Rows == [Boxes -> [state : RowStates, bound : {"planned", "registered"}]]

Init ==
    /\ plane = "starting"
    /\ status = [b \in Boxes |-> "none"]
    /\ row = NoRows
    /\ token = [b \in Boxes |-> "unminted"]
    /\ worker = [b \in Boxes |-> "none"]
    /\ joining = [b \in Boxes |-> "no"]
    /\ making = [b \in Boxes |-> "no"]
    /\ scaler = ScalerIdle
    /\ reconciler = ReconcilerIdle
    /\ reaper = {}
    /\ lost = {}

-----------------------------------------------------------------------------
(* The store and the provider. *)

Live == {b \in Boxes : status[b] # "none"}

InState(states) == {b \in Boxes : row[b].state \in states}

(* SetSandboxState *)
WithState(b, state) == [row EXCEPT ![b].state = state]

(* RevokeSandboxCredentials *)
Revoke(b) ==
    /\ token' = [token EXCEPT ![b] = "spent"]
    /\ worker' = [worker EXCEPT ![b] = IF @ \in {"alive", "quiet"} THEN "revoked" ELSE @]
    /\ UNCHANGED joining

Terminate(b) == status' = [status EXCEPT ![b] = "none"]

(* The process ends: a crash, or an error a run returned.  What the store  *)
(* and the provider hold stays, calls in flight are gone; the workers are  *)
(* not heard of until they reach the next process.                         *)
Ends ==
    /\ plane' = "down"
    /\ joining' = [b \in Boxes |-> "no"]
    /\ making' = [b \in Boxes |-> "no"]
    /\ scaler' = ScalerIdle
    /\ reconciler' = ReconcilerIdle
    /\ reaper' = {}
    /\ worker' = [b \in Boxes |-> IF worker[b] = "alive" THEN "quiet" ELSE worker[b]]
    /\ UNCHANGED <<status, token, lost>>

Crash == plane # "down" /\ Ends /\ UNCHANGED row

(* SetSandboxState answers ErrNotFound when the row is gone, and the run   *)
(* returns that.                                                           *)
NotFound(b) == row[b].state = "absent" /\ Ends /\ UNCHANGED row

(* SetSandboxState to "terminating", and Terminate at the provider fails,  *)
(* or the process crashes between the two.                                 *)
TerminateFails(b) ==
    /\ row[b].state # "absent"
    /\ row' = WithState(b, "terminating")
    /\ Ends

(* Application.Run: reconcile, then serve. *)
Restart ==
    /\ plane = "down"
    /\ plane' = "starting"
    /\ UNCHANGED <<status, row, Workers, Creation, Controllers>>

(* As Serve, but without waiting for the first reconciliation. *)
ServeAtOnce ==
    /\ plane = "starting"
    /\ plane' = "up"
    /\ UNCHANGED <<status, row, Workers, Creation, scaler, reconciler, reaper>>

Serve ==
    /\ plane = "starting" /\ reconciler.at = "done"
    /\ plane' = "up"
    /\ reconciler' = ReconcilerIdle
    /\ UNCHANGED <<status, row, Workers, Creation, scaler, reaper>>

-----------------------------------------------------------------------------
(* SandboxReconciler.run: records holds the rows listed and items what the *)
(* provider listed, as far as the run has still to go through them.        *)

Reconciling(at) ==
    /\ plane # "down" /\ reconciler.at = at
    /\ UNCHANGED <<plane, Workers, Creation, scaler, reaper>>

ListRecords ==
    /\ Reconciling("idle")
    /\ reconciler' = [reconciler EXCEPT !.at = "records", !.records = row]
    /\ UNCHANGED <<status, row>>

(* A run that has gone through everything is over; the first one lets the  *)
(* process serve.                                                          *)
Continued(r) ==
    IF r.records = NoRows /\ r.items = ReconcilerIdle.items
    THEN [ReconcilerIdle EXCEPT !.at = IF plane = "starting" THEN "done" ELSE "idle"]
    ELSE r

ListItems ==
    /\ Reconciling("records")
    /\ reconciler' = Continued([reconciler EXCEPT !.at = "items", !.items = status])
    /\ UNCHANGED <<status, row>>

Record(b) == reconciler.records[b]

Seen(b) == Reconciling("items") /\ reconciler.items[b] # "none"

Passed(b) ==
    reconciler' = Continued([reconciler EXCEPT !.records[b] = NoRow,
                                               !.items[b] = "none"])

(* As ReconcileOrphan, but passing over what has no record. *)
ReconcileOrphanLater(b) ==
    /\ Seen(b) /\ Record(b).state = "absent"
    /\ Passed(b)
    /\ UNCHANGED <<status, row>>

(* An item with no record: fromProvider, or Terminate. *)
ReconcileOrphan(b) ==
    /\ Seen(b) /\ Record(b).state = "absent"
    /\ Passed(b)
    /\ IF Orphans = "adopt"
       THEN /\ row' = [row EXCEPT ![b] = [NoRow EXCEPT !.state = reconciler.items[b]]]
            /\ UNCHANGED status
       ELSE Terminate(b) /\ UNCHANGED row

ReconcileTerminating(b) ==
    /\ Seen(b) /\ Record(b).state = "terminating"
    /\ Passed(b)
    /\ Terminate(b)
    /\ UNCHANGED row

(* Otherwise the record that was listed is written back, with the state    *)
(* the provider gave.                                                      *)
ReconcileKnown(b) ==
    /\ Seen(b) /\ Record(b).state \notin {"absent", "terminating"}
    /\ Passed(b)
    /\ row' = [row EXCEPT ![b] = [Record(b) EXCEPT !.state = reconciler.items[b]]]
    /\ UNCHANGED status

Unseen(b) ==
    /\ reconciler.items = ReconcilerIdle.items
    /\ Record(b).state # "absent"

(* A record the provider does not list: DeleteSandbox, or "missing".       *)
(* Nothing else deletes these rows.                                        *)
ReconcileUnseen(b) ==
    /\ Reconciling("items") /\ Unseen(b)
    /\ Passed(b)
    /\ IF Record(b).state = "terminating"
       THEN row' = [row EXCEPT ![b] = NoRow]
       ELSE row' = WithState(b, "missing")
    /\ UNCHANGED status

-----------------------------------------------------------------------------
(* SandboxReaper.run, with idle_after at its default, 0: sandboxes past    *)
(* their grace period, chosen among those that drain, are terminated in    *)
(* the order they were created in.                                         *)

Reaping == plane = "up" /\ UNCHANGED <<plane, Workers, Creation, scaler, reconciler>>

ReapPlan ==
    /\ Reaping /\ reaper = {}
    /\ reaper' \in SUBSET InState({"draining"})
    /\ UNCHANGED <<status, row>>

FirstToReap(b) == b \in reaper /\ \A c \in reaper : b <= c

ReapTerminate(b) ==
    /\ Reaping /\ FirstToReap(b) /\ row[b].state # "absent"
    /\ row' = WithState(b, "terminating")
    /\ Terminate(b)
    /\ reaper' = reaper \ {b}

ReapFails(b) ==
    /\ plane = "up" /\ FirstToReap(b)
    /\ TerminateFails(b) \/ NotFound(b)

-----------------------------------------------------------------------------
(* QueueAutoscaler.run *)

Registered(b) == worker[b] # "none"

Scaling(at) ==
    /\ plane = "up" /\ scaler.at = at
    /\ UNCHANGED <<plane, reconciler, reaper>>

Lesser(m, n) == IF m < n THEN m ELSE n

Clamp(n, low, high) == IF n < low THEN low ELSE Lesser(n, high)

(* capacityLimit; the limits are set. *)
CapacityLimit(n, limit, current) ==
    Lesser(n, IF limit > current THEN limit - current ELSE 0)

Serving == {b \in InState({"running"}) : worker[b] \notin {"none", "dead"}}

(* The replicas queued jobs need, over the serving sandboxes in the order  *)
(* of their ids: one that is working, or free and given jobs, is needed,   *)
(* and jobs left over need new ones.                                       *)
Needed(load, queued) ==
    LET Use(sum, b) ==
            LET slots == WorkerConcurrency - load[b]
            IN IF b \notin Serving THEN sum
               ELSE [left |-> sum.left - Lesser(slots, sum.left),
                     active |-> IF slots < WorkerConcurrency \/ sum.left > 0
                                THEN sum.active + 1 ELSE sum.active]
        Used[b \in 0 .. MaxBoxes] ==
            IF b = 0 THEN [left |-> queued, active |-> 0] ELSE Use(Used[b - 1], b)
        used == Used[MaxBoxes]
    IN used.active + (used.left + WorkerConcurrency - 1) \div WorkerConcurrency

(* As Counted, but without the sandboxes on their way out. *)
CountedServing == InState({"running"})

(* Rows that count against MaxTotalSandboxes. *)
Counted == Boxes \ InState({"absent", "missing"})

(* Ready, starting and draining together. *)
Current == Cardinality(InState({"running", "draining", "terminating"}))

(* How many attempts each worker's row shows; a reserved worker counts as  *)
(* fully loaded.                                                           *)
Loads == [Serving -> 0 .. WorkerConcurrency]

Desired(load, queued) == Clamp(Needed(load, queued), MinReplicas, MaxReplicas)

(* How many sandboxes a run may create when it wants n more. *)
ScaleUp(n, counted) ==
    CapacityLimit(Lesser(n, MaxScaleUpPerRun), MaxTotalSandboxes, counted)

(* What drain does not pass over, if it has been idle long enough. *)
Drainable(load) ==
    {b \in InState({"running"}) : b \in Serving => load[b] = 0}

(* What a run sees: the replicas wanted, within the limits of the pool,    *)
(* and what drain may take.                                                *)
Observations ==
    {<<Desired(load, queued), Drainable(load)>> : load \in Loads, queued \in 0 .. MaxQueued}
    \cap ((MinReplicas .. MaxReplicas) \X SUBSET Boxes)

Leave(b) == Cardinality(lost) < MaxLost /\ lost' = lost \cup {b}

InMaking == {b \in Boxes : making[b] # "no"}

Unminted == {b \in Boxes : token[b] = "unminted"}

Scaled(s) ==
    IF s.expired \cup s.drain = {} /\ s.make = 0
    THEN ScalerIdle ELSE s

(* Sandboxes past their startup timeout no longer count, but stay in the   *)
(* list drain walks.  Whether a cooldown, a backoff or an unhealthy pool   *)
(* holds the run back is a choice, as is which sandboxes are past a        *)
(* timeout.                                                                *)
ScalePlan ==
    /\ Scaling("idle")
    /\ \E seen \in Observations, held \in BOOLEAN, drain \in SUBSET InState({"running"}),
          expired \in SUBSET {b \in InState({"running"}) : ~Registered(b)} :
         LET gone    == Cardinality(expired)
             short   == seen[1] - (Current - gone)
             counted == Cardinality(Counted) - gone
         IN /\ drain = {} \/ (~held /\ drain \subseteq seen[2] /\ Cardinality(drain) <= -short)
            /\ scaler' = Scaled([at |-> "act", expired |-> expired, drain |-> drain,
                  make |-> IF short > 0 /\ ~held
                           THEN Lesser(ScaleUp(short, counted), Cardinality(Unminted))
                           ELSE 0])
    /\ UNCHANGED <<status, row, Workers, Creation>>

ScaleTimeout(b) ==
    /\ Scaling("act") /\ b \in scaler.expired /\ row[b].state # "absent"
    /\ row' = WithState(b, "terminating")
    /\ Terminate(b)
    /\ scaler' = Scaled([scaler EXCEPT !.expired = @ \ {b}])
    /\ UNCHANGED <<Workers, Creation>>

ScaleDrain(b) ==
    /\ Scaling("act") /\ scaler.expired = {} /\ b \in scaler.drain
    /\ row[b].state # "absent"
    /\ row' = WithState(b, "draining")
    /\ scaler' = Scaled([scaler EXCEPT !.drain = @ \ {b}])
    /\ UNCHANGED <<status, Workers, Creation>>

ScaleFails(b) ==
    /\ plane = "up"
    /\ \/ b \in scaler.expired /\ TerminateFails(b)
       \/ b \in scaler.expired /\ NotFound(b)
       \/ scaler.expired = {} /\ b \in scaler.drain /\ NotFound(b)

-----------------------------------------------------------------------------
(* create, run by createMany for each sandbox wanted.  A run waits for its *)
(* creations: make counts those that have not ended.                       *)

Creating(b, steps) ==
    Scaling("act") /\ scaler.expired = {} /\ making[b] \in steps

Created(b) ==
    /\ making' = [making EXCEPT ![b] = "no"]
    /\ scaler' = Scaled([scaler EXCEPT !.make = @ - 1])

(* A fresh id, its bootstrap token, and the provider's Create, which runs  *)
(* the sandbox before it returns; or it fails at once.                     *)
CreateCall(b) ==
    /\ Creating(b, {"no"}) /\ Cardinality(InMaking) < Lesser(scaler.make, ProvisioningConcurrency)
    /\ b \in Unminted /\ \A c \in Unminted : b <= c
    /\ \/ /\ token' = [token EXCEPT ![b] = "valid"]
          /\ status' = [status EXCEPT ![b] = "running"]
          /\ making' = [making EXCEPT ![b] = "called"]
          /\ UNCHANGED scaler
       \/ /\ token' = [token EXCEPT ![b] = "spent"]
          /\ Created(b)
          /\ UNCHANGED status
    /\ UNCHANGED <<row, worker, joining, lost>>

(* Create reports an error although it made the sandbox. *)
CreateFails(b) ==
    /\ Creating(b, {"called"})
    /\ Revoke(b)
    /\ Leave(b)
    /\ Created(b)
    /\ UNCHANGED <<status, row>>

(* Create returns, and GetSandbox: has the worker already registered? *)
CreateRead(b) ==
    /\ Creating(b, {"called"})
    /\ making' = [making EXCEPT ![b] = IF row[b].bound = "registered" THEN "keep" ELSE "plan"]
    /\ UNCHANGED <<status, row, Workers, lost, scaler>>

CreateRecord(b) ==
    /\ Creating(b, {"keep", "plan"})
    /\ row' = [row EXCEPT ![b] = [state |-> "running",
           bound |-> IF making[b] = "keep" THEN "registered" ELSE "planned"]]
    /\ Created(b)
    /\ UNCHANGED <<status, Workers, lost>>

(* The store fails; the error of Terminate is ignored. *)
CreateUnrecorded(b) ==
    /\ Creating(b, {"called", "keep", "plan"})
    /\ Revoke(b)
    /\ \/ Terminate(b) /\ UNCHANGED lost
       \/ Leave(b) /\ UNCHANGED status
    /\ Created(b)
    /\ UNCHANGED row

-----------------------------------------------------------------------------
(* registerWorker: ConsumeBootstrapToken and UpsertWorker, which are one   *)
(* step here, or the second fails; then UpsertSandbox.                     *)

Register(b, step, next) ==
    /\ plane = "up" /\ joining[b] = step
    /\ joining' = [joining EXCEPT ![b] = next]
    /\ UNCHANGED <<plane, status, Creation, Controllers>>

RegisterWorker(b) ==
    /\ status[b] = "running" /\ token[b] = "valid"
    /\ token' = [token EXCEPT ![b] = "spent"]
    /\ \/ Register(b, "no", "stored") /\ worker' = [worker EXCEPT ![b] = "alive"]
       \/ Register(b, "no", "no") /\ UNCHANGED worker
    /\ UNCHANGED row

RegisterSandbox(b) ==
    /\ Register(b, "stored", "no")
    /\ row' = [row EXCEPT ![b] = [state |-> "running", bound |-> "registered"]]
    /\ UNCHANGED <<token, worker>>

-----------------------------------------------------------------------------
(* Workers and the WorkerHealth controller. *)

Working(b) ==
    /\ plane = "up" /\ status[b] = "running" /\ joining[b] = "no"
    /\ worker[b] \in {"alive", "quiet"}

WorkerStep == UNCHANGED <<plane, status, row, token, joining, Creation, Controllers>>

Heartbeat(b) ==
    /\ Working(b)
    /\ worker' = [worker EXCEPT ![b] = "alive"]
    /\ WorkerStep

(* WorkerHealth and SetWorkerHealth: no heartbeat for WorkerDeadAfter,     *)
(* because the sandbox is gone, the worker's session was revoked or the    *)
(* server was away.  The session token is erased, the leases expire.       *)
MarkDead(b) ==
    /\ plane = "up" /\ worker[b] \notin {"none", "dead"}
    /\ worker[b] = "alive" => status[b] = "none"
    /\ worker' = [worker EXCEPT ![b] = "dead"]
    /\ WorkerStep

-----------------------------------------------------------------------------
Reconcile ==
    \/ ListRecords \/ ListItems
    \/ \E b \in Boxes : \/ ReconcileOrphan(b)
                        \/ ReconcileTerminating(b)
                        \/ ReconcileKnown(b)
                        \/ ReconcileUnseen(b)

Reap ==
    \/ ReapPlan
    \/ \E b \in Boxes : \/ ReapTerminate(b)
                        \/ ReapFails(b)

Create(b) ==
    \/ CreateCall(b) \/ CreateFails(b) \/ CreateRead(b)
    \/ CreateRecord(b) \/ CreateUnrecorded(b)

Scale ==
    \/ ScalePlan
    \/ \E b \in Boxes : \/ ScaleTimeout(b)
                        \/ ScaleDrain(b)
                        \/ ScaleFails(b)
                        \/ Create(b)

Join(b) == RegisterWorker(b) \/ RegisterSandbox(b)

Next ==
    \/ Crash \/ Restart \/ Serve
    \/ Reconcile \/ Reap \/ Scale
    \/ \E b \in Boxes : \/ Join(b)
                        \/ Heartbeat(b)
                        \/ MarkDead(b)

Spec == Init /\ [][Next]_vars

(* The process is restarted and its controllers tick; a sandbox that runs  *)
(* sends its registration and its heartbeats.                              *)
Fairness ==
    /\ WF_vars(Restart) /\ WF_vars(Serve)
    /\ WF_vars(Reconcile) /\ WF_vars(Reap) /\ WF_vars(Scale)
    /\ \A b \in Boxes : /\ WF_vars(Join(b))
                        /\ WF_vars(Heartbeat(b))
                        /\ WF_vars(MarkDead(b))

FairSpec == Spec /\ Fairness

(* The part StraysAreResolved needs: the ticker of SandboxReconciler. *)
ReconcilerSpec == Spec /\ WF_vars(Reconcile)

-----------------------------------------------------------------------------
(* Properties. *)

Listings == [Boxes -> {"none", "running"}]
Scalers  == [at : {"idle", "act"}, expired : SUBSET Boxes, make : 0 .. MaxScaleUpPerRun,
             drain : SUBSET Boxes]
Reconcilers == [at : {"idle", "records", "items", "done"}, records : Rows, items : Listings]

(* Every variable holds a value of its type; in particular a row has one   *)
(* of the states that the controllers tell apart, whichever wrote it last. *)
TypeOK ==
    /\ plane \in {"down", "starting", "up"}
    /\ status \in Listings
    /\ row \in Rows
    /\ token \in [Boxes -> {"unminted", "valid", "spent"}]
    /\ worker \in [Boxes -> {"none", "alive", "quiet", "revoked", "dead"}]
    /\ joining \in [Boxes -> {"no", "stored"}]
    /\ making \in [Boxes -> {"no", "called", "keep", "plan"}]
    /\ scaler \in Scalers
    /\ reaper \subseteq Boxes
    /\ reconciler \in Reconcilers
    /\ lost \subseteq Boxes

(* There are never more sandboxes at the provider than MaxTotalSandboxes,  *)
(* but for those a failed creation left behind: QueueAutoscaler.run counts *)
(* rows it listed earlier, while the reconciler writes stale ones back and *)
(* the process crashes between Create and UpsertSandbox.                   *)
FleetBound == Cardinality(Live \ lost) <= MaxTotalSandboxes

(* What the bound rests on: while controllers run, a sandbox at the        *)
(* provider has a row the autoscaler counts or is being created, unless a  *)
(* failed creation left it behind.  A crash leaves others; the             *)
(* reconciliation Application.Run makes before serving resolves them, and  *)
(* SandboxReconciler.run removes or hides the row of no live sandbox.      *)
NothingForgotten ==
    plane = "up" => Live \subseteq Counted \cup InMaking \cup lost

(* An id is drawn once: before its token is minted it is nowhere.          *)
Undrawn(b) ==
    token[b] = "unminted" =>
        /\ status[b] = "none" /\ row[b].state = "absent"
        /\ joining[b] = "no" /\ making[b] = "no"
        /\ reconciler.records[b].state = "absent" /\ reconciler.items[b] = "none"

(* A record the provider did not list is of a sandbox that is gone, so no  *)
(* row of a live one is deleted or called missing.                         *)
ListingSound ==
    reconciler.at = "items" =>
        \A b \in Live : reconciler.items[b] = "none" => reconciler.records[b].state = "absent"

(* The first reconciliation leaves no live sandbox without a row that      *)
(* counts.                                                                 *)
StartSound ==
    plane = "starting" =>
        \A b \in Live \ Counted : /\ reconciler.at # "done"
                                  /\ reconciler.at = "items" => reconciler.items[b] # "none"

(* What does not outlive the process, and does not begin before it serves. *)
PlaneSound ==
    /\ plane # "up" => scaler = ScalerIdle /\ InMaking = {}
    /\ plane = "down" => reconciler = ReconcilerIdle
    /\ scaler.at = "idle" => scaler = ScalerIdle

(* There is room for what a run of the autoscaler has still to create:     *)
(* the sandboxes that it does not count any more are gone before it        *)
(* creates the first.                                                      *)
RoomToMake ==
    /\ Cardinality((Live \ lost) \ scaler.expired) + scaler.make
          <= MaxTotalSandboxes + Cardinality(InMaking)
    /\ Cardinality(InMaking) <= scaler.make
    /\ InMaking # {} => scaler.expired = {}

(* Why the fleet stays within its limit, whatever the controllers act on   *)
(* is stale and wherever the process ends.                                 *)
FleetSound ==
    /\ TypeOK /\ \A b \in Boxes : Undrawn(b)
    /\ ListingSound /\ StartSound /\ PlaneSound
    /\ NothingForgotten /\ RoomToMake /\ FleetBound

(* A sandbox at the provider that nobody records. *)
Stray(b) == b \in Live /\ row[b].state = "absent" /\ making[b] = "no"

(* A sandbox nobody recorded does not stay: once the process keeps         *)
(* running, SandboxReconciler.run terminates or adopts it.                 *)
StraysAreResolved ==
    \A b \in Boxes : []<>(Stray(b) => plane # "up")

(* A worker declared dead registers again once the server is reachable,    *)
(* unless its sandbox goes.                                                *)
WorkersComeBack ==
    \A b \in Boxes :
        worker[b] = "dead" /\ status[b] = "running"
            ~> worker[b] = "alive" \/ status[b] # "running"
=============================================================================
