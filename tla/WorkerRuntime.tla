--------------------------- MODULE WorkerRuntime ---------------------------
(***************************************************************************)
(* One worker process against the store: the loops of                      *)
(* internal/worker/runtime.go, its client (internal/worker/client.go), the *)
(* handlers its calls reach (internal/httpapi/worker.go), and the          *)
(* operations of JobStore these perform.                                   *)
(*                                                                         *)
(* Runtime.Run starts a claim loop, a heartbeat loop and, for each attempt *)
(* it is given, an execution and a renewal loop.  All of them share one    *)
(* client, and its lock: a heartbeat waits for the calls in flight, and a  *)
(* call waits for the heartbeat that waits.  The claim is the one call     *)
(* that takes long: it polls until a job can be had or ClaimWait is over.  *)
(*                                                                         *)
(* Time passes only when nothing is due: the worker's timers, and calls    *)
(* that are free to go, are prompt.  The executor takes the time it likes. *)
(* A call other than a claim is one step, its answer included.  Up to      *)
(* MaxLost calls fail, before or after the server has acted on them.       *)
(* Sessions and the delivery of events are not part of this module.        *)
(***************************************************************************)
EXTENDS JobStore

CONSTANTS
    Self,            \* the worker
    HeartbeatEvery,  \* heartbeat_interval
    ClaimWait,       \* the lesser of ClaimWait and max_claim_wait
    MaxLost          \* bound on the calls that fail

ASSUME RuntimeAssumption ==
    /\ Self \in Workers
    /\ {HeartbeatEvery, ClaimWait} \subseteq Nat \ {0}
    /\ HeartbeatEvery < LeaseDuration
    /\ MaxLost \in Nat

(* An attempt is named by its job and its number. *)
AttemptIDs == UNION {{<<j, n>> : n \in 1 .. MaxAttempts[j]} : j \in Jobs}

VARIABLES
    phase,     \* "serving", "leaving" (claims stopped), "waiting" (for what
               \*   runs), "canceled" (so is what runs), "gone"
    task,      \* Runtime.active, "none" if not there, and how far execute is
    renewAt,   \* when renewLoop next ticks, 0 when it is over
    poll,      \* when the claim call in flight ends, 0 if there is none
    beat,      \* the heartbeat that is put together or waits for the lock
    released,  \* calls that waited for a heartbeat and are next to have the lock
    beatAt,    \* when the heartbeat loop goes on
    late,      \* for how long an attempt has run on after its job was ended,
               \*   no heartbeat being refused
    lost       \* calls that failed

local == <<phase, task, renewAt, poll, beat, released, beatAt, late>>

allVars == <<vars, local, lost>>

TaskStates == {"none", "running", "canceled", "saving", "saved", "failing", "reported"}

NoBeat == [at |-> "none", ids |-> {}, free |-> 0]

RuntimeInit ==
    /\ Init
    /\ phase = "serving"
    /\ task = [id \in AttemptIDs |-> "none"]
    /\ renewAt = [id \in AttemptIDs |-> 0]
    /\ poll = 0
    /\ beat = NoBeat
    /\ released = {}
    /\ beatAt = 0
    /\ late = [id \in AttemptIDs |-> 0]
    /\ lost = 0

Up == phase # "gone"

(* activeIDs and slots *)
ActiveIDs == {id \in AttemptIDs : task[id] # "none"}

(* Mutant: one slot too many. *)
FreeSlotsOneMore == MaxConcurrency[Self] + 1 - Cardinality(ActiveIDs)

FreeSlots == MaxConcurrency[Self] - Cardinality(ActiveIDs)

AttemptOf(id) == attempts[id[1]][id[2]]

LeaseHolds(id) == Active(AttemptOf(id)) /\ AttemptOf(id).expires > clock

-----------------------------------------------------------------------------
(* Calls. *)

(* The lock of the client: a heartbeat that waits holds up other calls,    *)
(* and then lets those that waited go before the next heartbeat.           *)
MayCall == Up /\ beat.at # "locking"

RenewDue(id) == renewAt[id] # 0 /\ renewAt[id] <= clock

HasCall(id) == RenewDue(id) \/ task[id] \in {"saving", "saved", "failing"}

(* A call the server answers as it should, or that fails: bad is what the  *)
(* worker does on an error, whether or not effect took place.              *)
Call(accepted, effect, good, bad) ==
    \/ accepted /\ effect /\ good /\ UNCHANGED lost
    \/ ~accepted /\ UNCHANGED vars /\ bad /\ UNCHANGED lost
    \/ /\ lost < MaxLost /\ lost' = lost + 1
       /\ bad
       /\ \/ accepted /\ effect
          \/ UNCHANGED vars

(* The context of an attempt is canceled: the executor is told, and        *)
(* renewLoop ends.                                                         *)
CancelTasks(ids) ==
    /\ task' = [id \in AttemptIDs |-> IF id \in ids /\ task[id] = "running"
                                      THEN "canceled" ELSE task[id]]
    /\ renewAt' = [id \in AttemptIDs |-> IF id \in ids THEN 0 ELSE renewAt[id]]

-----------------------------------------------------------------------------
(* claimLoop and claimWorker. *)

(* Mutant: the worker leaves it to the server how much it takes on. *)
MayClaimAlways == phase = "serving" /\ poll = 0

MayClaim == phase = "serving" /\ poll = 0 /\ FreeSlots # 0

ClaimStart ==
    /\ MayCall /\ MayClaim
    /\ poll' = clock + ClaimWait
    /\ UNCHANGED <<vars, phase, task, renewAt, beat, released, beatAt, late, lost>>

ClaimOver ==
    /\ poll' = 0
    /\ phase' = IF phase = "leaving" THEN "waiting" ELSE phase
    /\ UNCHANGED <<beat, released, beatAt, late>>

(* Mutant: a renewal when the lease runs out. *)
RenewEveryLease == LeaseDuration

RenewEvery == LeaseDuration \div 2

(* The claim finds a job, and the worker starts on it: a claim that is     *)
(* answered while the worker leaves is carried out.  If the answer is      *)
(* lost, or the call was given up, nobody works on the attempt.            *)
ClaimGranted(j) ==
    /\ Up /\ poll # 0
    /\ ClaimNextJob(Self, j, clock)
    /\ ClaimOver
    /\ \/ LET id == <<j, Len(attempts[j]) + 1>>
          IN /\ task' = [task EXCEPT ![id] = "running"]
             /\ renewAt' = [renewAt EXCEPT ![id] = clock + RenewEvery]
             /\ UNCHANGED lost
       \/ /\ phase = "leaving"
          /\ UNCHANGED <<task, renewAt, lost>>
       \/ /\ lost < MaxLost /\ lost' = lost + 1
          /\ UNCHANGED <<task, renewAt>>

(* Nothing to be had until the wait is over, or the call is given up. *)
ClaimEmpty ==
    /\ Up /\ poll # 0
    /\ poll <= clock \/ phase = "leaving"
    /\ ClaimOver
    /\ UNCHANGED <<vars, task, renewAt, lost>>

-----------------------------------------------------------------------------
(* renewLoop, which ends at the first error. *)

RenewCall(id) ==
    /\ MayCall /\ RenewDue(id)
    /\ Call(LeaseHolds(id),
            RenewLease(Self, id[1], id[2], clock + LeaseDuration),
            renewAt' = [renewAt EXCEPT ![id] = @ + RenewEvery],
            renewAt' = [renewAt EXCEPT ![id] = 0])
    /\ released' = released \ {id}
    /\ UNCHANGED <<phase, task, poll, beat, beatAt, late>>

-----------------------------------------------------------------------------
(* execute *)

At(id, states) == Up /\ task[id] \in states

Moves(id, to) == task' = [task EXCEPT ![id] = to]

TaskStep == UNCHANGED <<phase, renewAt, poll, beat, beatAt, late>>

ReportStep(id) == released' = released \ {id} /\ TaskStep

(* The executor returns; it may do so of its own accord although it was    *)
(* told to stop.                                                           *)
Executed(id) ==
    /\ At(id, {"running", "canceled"})
    /\ Moves(id, "saving") \/ Moves(id, "failing")
    /\ UNCHANGED <<vars, released, lost>> /\ TaskStep

(* context.WithDeadline *)
DeadlinePasses(id) ==
    /\ At(id, {"running"}) /\ TimedOut(id[1], clock)
    /\ CancelTasks({id})
    /\ UNCHANGED <<vars, phase, poll, beat, released, beatAt, late, lost>>

SaveCall(id) ==
    /\ MayCall /\ At(id, {"saving"})
    /\ Call(Active(AttemptOf(id)),
            SaveResult(Self, id[1], id[2]),
            Moves(id, "saved"), Moves(id, "failing"))
    /\ ReportStep(id)

CompleteCall(id) ==
    /\ MayCall /\ At(id, {"saved"})
    /\ Call(LeaseHolds(id),
            Complete(Self, id[1], id[2], clock),
            Moves(id, "reported"), Moves(id, "failing"))
    /\ ReportStep(id)

(* The error of Fail is ignored. *)
FailCall(id) ==
    /\ MayCall /\ At(id, {"failing"})
    /\ \E retryable \in BOOLEAN :
         Call(LeaseHolds(id),
              Fail(Self, id[1], id[2], retryable, clock),
              Moves(id, "reported"), Moves(id, "reported"))
    /\ ReportStep(id)

(* The deferred calls: the renewal loop ends and the attempt leaves the    *)
(* map.                                                                    *)
Returned(id) ==
    /\ At(id, {"reported"})
    /\ Moves(id, "none")
    /\ renewAt' = [renewAt EXCEPT ![id] = 0]
    /\ late' = [late EXCEPT ![id] = 0]
    /\ UNCHANGED <<vars, phase, poll, beat, released, beatAt, lost>>

-----------------------------------------------------------------------------
(* heartbeatLoop and heartbeatWorker. *)

(* The map is read twice, and may change in between. *)
BeatStart ==
    /\ Up /\ beat.at = "none" /\ beatAt <= clock
    /\ \A id \in released : ~HasCall(id)
    /\ beat' = [at |-> "slots", ids |-> ActiveIDs, free |-> 0]
    /\ UNCHANGED <<vars, phase, task, renewAt, poll, released, beatAt, late, lost>>

BeatSlots ==
    /\ Up /\ beat.at = "slots"
    /\ beat' = [beat EXCEPT !.at = "locking", !.free = FreeSlots]
    /\ released' = {}
    /\ UNCHANGED <<vars, phase, task, renewAt, poll, beatAt, late, lost>>

(* workerShouldCancel *)
ShouldCancel(j) == jobState[j] \in {"canceled", "timed_out", "session_lost"}

Ended(ids) == {id \in ids : ~Active(AttemptOf(id))}

(* The attempts a heartbeat's answer tells the worker to cancel. *)
Told(ids) == {id \in Ended(ids) : ShouldCancel(id[1])}

(* An attempt that has ended in another way makes the server refuse all of *)
(* the heartbeat.                                                          *)
Refused(ids) == Ended(ids) \ Told(ids) # {}

(* Mutant: no upper limit. *)
SlotsSaidUncapped(free, told) == free + Cardinality(told)

(* The slots of attempts to be canceled count as free already. *)
SlotsSaid(free, told) ==
    LET n == free + Cardinality(told)
    IN IF n > MaxConcurrency[Self] THEN MaxConcurrency[Self] ELSE n

(* Mutant: the worker does not look at the answer. *)
BeatCallDeaf ==
    /\ Up /\ beat.at = "locking" /\ poll = 0
    /\ beat' = NoBeat
    /\ released' = {id \in AttemptIDs : HasCall(id)}
    /\ Call(~Refused(beat.ids),
            Heartbeat(Self, SlotsSaid(beat.free, Told(beat.ids))),
            beatAt' = beatAt + HeartbeatEvery /\ UNCHANGED <<task, renewAt>>,
            beatAt' = clock + 1 /\ UNCHANGED <<task, renewAt>>)
    /\ UNCHANGED <<phase, poll, late>>

(* After an error the loop goes on at once: in a unit of time here. *)
BeatCall ==
    /\ Up /\ beat.at = "locking" /\ poll = 0
    /\ beat' = NoBeat
    /\ released' = {id \in AttemptIDs : HasCall(id)}
    /\ Call(~Refused(beat.ids),
            Heartbeat(Self, SlotsSaid(beat.free, Told(beat.ids))),
            beatAt' = beatAt + HeartbeatEvery /\ CancelTasks(Told(beat.ids)),
            beatAt' = clock + 1 /\ UNCHANGED <<task, renewAt>>)
    /\ late' = IF Refused(beat.ids) THEN [id \in AttemptIDs |-> 0] ELSE late
    /\ UNCHANGED <<phase, poll>>

-----------------------------------------------------------------------------
(* The end of Run. *)

Shutdown ==
    /\ phase = "serving"
    /\ phase' = IF poll = 0 THEN "waiting" ELSE "leaving"
    /\ UNCHANGED <<vars, task, renewAt, poll, beat, released, beatAt, late, lost>>

(* cancelAll, at once (CancelOnShutdown) or after ShutdownTimeout. *)
CancelAll ==
    /\ phase = "waiting"
    /\ phase' = "canceled"
    /\ CancelTasks(AttemptIDs)
    /\ UNCHANGED <<vars, poll, beat, released, beatAt, late, lost>>

Leaves ==
    /\ phase' = "gone"
    /\ task' = [id \in AttemptIDs |-> "none"]
    /\ renewAt' = [id \in AttemptIDs |-> 0]
    /\ poll' = 0
    /\ beat' = NoBeat
    /\ released' = {}
    /\ beatAt' = 0
    /\ late' = [id \in AttemptIDs |-> 0]

(* Everything has returned, or not within five seconds of cancelAll; a     *)
(* last heartbeat gives all slots back, for what that is worth.            *)
Exit ==
    /\ \/ phase = "waiting" /\ ActiveIDs = {}
       \/ phase = "canceled"
    /\ Leaves
    /\ \/ Heartbeat(Self, MaxConcurrency[Self]) /\ UNCHANGED lost
       \/ lost < MaxLost /\ lost' = lost + 1 /\ UNCHANGED vars

Kill == Up /\ Leaves /\ UNCHANGED <<vars, lost>>

-----------------------------------------------------------------------------
Due ==
    \/ beat.at = "slots" \/ (beat.at = "locking" /\ poll = 0)
    \/ poll # 0 /\ (poll <= clock \/ phase = "leaving")
    \/ Up /\ beat.at = "none" /\ beatAt <= clock
    \/ MayCall /\ MayClaim
    \/ \E id \in ActiveIDs :
          \/ task[id] = "reported"
          \/ task[id] = "running" /\ TimedOut(id[1], clock)
          \/ MayCall /\ HasCall(id)

TimePasses ==
    /\ ~Due
    /\ Tick
    /\ late' = [id \in AttemptIDs |-> IF task[id] = "running" /\ ShouldCancel(id[1])
                                      THEN late[id] + 1 ELSE late[id]]
    /\ UNCHANGED <<phase, task, renewAt, poll, beat, released, beatAt, lost>>

(* Clients and controllers of the server. *)
Others ==
    /\ ClientNext \/ ExpireLeases(clock) \/ TimeoutJobs(clock)
    /\ UNCHANGED <<local, lost>>

Execution(id) ==
    \/ RenewCall(id) \/ Executed(id) \/ DeadlinePasses(id)
    \/ SaveCall(id) \/ CompleteCall(id) \/ FailCall(id) \/ Returned(id)

RuntimeNext ==
    \/ ClaimStart \/ ClaimEmpty \/ \E j \in Jobs : ClaimGranted(j)
    \/ \E id \in AttemptIDs : Execution(id)
    \/ BeatStart \/ BeatSlots \/ BeatCall
    \/ Shutdown \/ CancelAll \/ Exit \/ Kill
    \/ TimePasses \/ Others

RuntimeSpec == RuntimeInit /\ [][RuntimeNext]_allVars

-----------------------------------------------------------------------------
(* Properties. *)

(* Every variable of the runtime holds a value of its type; in particular  *)
(* a heartbeat reports a number of free slots between none and all.        *)
RuntimeTypeOK ==
    /\ phase \in {"serving", "leaving", "waiting", "canceled", "gone"}
    /\ task \in [AttemptIDs -> TaskStates]
    /\ renewAt \in [AttemptIDs -> Nat]
    /\ poll \in Nat /\ beatAt \in Nat
    /\ beat \in [at : {"none", "slots", "locking"}, ids : SUBSET AttemptIDs, free : 0 .. MaxConcurrency[Self]]
    /\ released \subseteq AttemptIDs
    /\ late \in [AttemptIDs -> Nat]
    /\ lost \in 0 .. MaxLost

(* The worker never executes more attempts at once than it registered for, *)
(* although the server forgets those whose lease it took away and offers   *)
(* their slots again, and a claim is answered after slots was read.        *)
RunsWithinLimit == Cardinality(ActiveIDs) <= MaxConcurrency[Self]

(* Renewals retain a legitimate lease past its original TTL: as long as no *)
(* call has failed, an attempt the worker executes is still its own.       *)
LeaseIsKept ==
    lost = 0 => \A id \in AttemptIDs :
        task[id] = "running" => AttemptOf(id).state # "lease_expired"

(* The durations for which the client's lock cannot keep a renewal from    *)
(* reaching the server in time: a poll fits between a renewal and the end  *)
(* of the lease.  The defaults are not among them (config.go:107).         *)
PollsAreShort == RenewEvery + ClaimWait < LeaseDuration

(* The longest an executor may run on: until the next heartbeat, which a   *)
(* poll may hold up, and the one before it, put together when the attempt  *)
(* had not begun, may itself have waited for a poll.                       *)
LongestDelay ==
    (IF HeartbeatEvery > ClaimWait THEN HeartbeatEvery ELSE ClaimWait) + ClaimWait

(* Running cancellation is delivered on the next heartbeat: unless one is  *)
(* refused or a call fails, heartbeatLoop tells an executor within         *)
(* LongestDelay of the end of its job.                                     *)
CancellationArrives ==
    lost = 0 => \A id \in AttemptIDs : late[id] <= LongestDelay

(* What the runtime does to the store is what JobStore lets a worker do,   *)
(* so all that is proved there holds of it.                                *)
ImplementsStore == Spec
=============================================================================
