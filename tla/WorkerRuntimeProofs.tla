------------------------ MODULE WorkerRuntimeProofs ------------------------
(***************************************************************************)
(* Proofs about WorkerRuntime, for any jobs, workers, lease durations and  *)
(* timers: a worker process does to the store what JobStore lets a worker  *)
(* do, and never executes more attempts than it has slots.                 *)
(***************************************************************************)
EXTENDS WorkerRuntime, JobStoreProofs, FiniteSetTheorems

(* The call of claimLoop that is in flight has a slot to give away, since  *)
(* no other step takes one.                                                *)
SlotForTheClaim ==
    poll # 0 => Cardinality(ActiveIDs) < MaxConcurrency[Self]

(* The inductive invariant: the invariant of the store, the types, and     *)
(* what the limit rests on.                                                *)
RuntimeInvariant ==
    /\ Consistent
    /\ RuntimeTypeOK
    /\ IsFiniteSet(ActiveIDs) /\ IsFiniteSet(beat.ids)
    /\ RunsWithinLimit
    /\ SlotForTheClaim

-----------------------------------------------------------------------------
(* The steps of the runtime as steps of the store.                         *)

LEMMA AttemptOfJob ==
    ASSUME NEW id \in AttemptIDs
    PROVE  id[1] \in Jobs
BY DEF AttemptIDs

LEMMA ClockIsNow ==
    ASSUME TypeOK
    PROVE  clock \in Nat /\ clock \in Now
BY TimingAssumption DEF TypeOK, Now

LEMMA NumbersOfAttempts ==
    ASSUME TypeOK, NEW j \in Jobs
    PROVE  DOMAIN attempts[j] = 1 .. Len(attempts[j])
BY LenProperties DEF TypeOK

(* What a heartbeat reports is a number of slots the worker has.           *)
LEMMA SlotsSaidInRange ==
    ASSUME NEW free \in 0 .. MaxConcurrency[Self], NEW told, IsFiniteSet(told)
    PROVE  SlotsSaid(free, told) \in 0 .. MaxConcurrency[Self]
<1>1. Cardinality(told) \in Nat
    BY FS_CardinalityType
<1>2. MaxConcurrency[Self] \in Nat
    BY RuntimeAssumption, TimingAssumption
<1> QED
    BY <1>1, <1>2 DEF SlotsSaid

LEMMA ClaimIsStoreStep ==
    ASSUME TypeOK, NEW j \in Jobs, ClaimGranted(j)
    PROVE  WorkerNext
BY ClockIsNow, RuntimeAssumption DEF ClaimGranted, WorkerNext

(* The calls of an execution: the server does what JobStore says, or       *)
(* nothing.                                                                *)
LEMMA ExecutionIsStoreStep ==
    ASSUME TypeOK, NEW id \in AttemptIDs, Execution(id)
    PROVE  WorkerNext \/ UNCHANGED vars
<1>1. id[1] \in Jobs /\ Self \in Workers
    BY AttemptOfJob, RuntimeAssumption
<1>2. clock \in Now /\ LeaseDuration \in 1 .. LeaseDuration
    BY ClockIsNow, TimingAssumption
<1>3. DOMAIN attempts[id[1]] = 1 .. Len(attempts[id[1]])
    BY <1>1, NumbersOfAttempts
<1>4. CASE RenewCall(id)
    <2>1. RenewLease(Self, id[1], id[2], clock + LeaseDuration) \/ UNCHANGED vars
        BY <1>4 DEF RenewCall, Call
    <2>2. ASSUME RenewLease(Self, id[1], id[2], clock + LeaseDuration)
          PROVE  WorkerNext
        <3>1. id[2] \in 1 .. Len(attempts[id[1]])
            BY <1>3, <2>2 DEF RenewLease
        <3> QED
            BY <1>1, <1>2, <2>2, <3>1 DEF WorkerNext
    <2> QED
        BY <2>1, <2>2
<1>5. CASE SaveCall(id)
    <2>1. SaveResult(Self, id[1], id[2]) \/ UNCHANGED vars
        BY <1>5 DEF SaveCall, Call
    <2>2. ASSUME SaveResult(Self, id[1], id[2])
          PROVE  WorkerNext
        <3>1. id[2] \in 1 .. Len(attempts[id[1]])
            BY <1>3, <2>2 DEF SaveResult
        <3> QED
            BY <1>1, <1>2, <2>2, <3>1 DEF WorkerNext
    <2> QED
        BY <2>1, <2>2
<1>6. CASE CompleteCall(id)
    <2>1. Complete(Self, id[1], id[2], clock) \/ UNCHANGED vars
        BY <1>6 DEF CompleteCall, Call
    <2>2. ASSUME Complete(Self, id[1], id[2], clock)
          PROVE  WorkerNext
        <3>1. id[2] \in 1 .. Len(attempts[id[1]])
            BY <1>3, <2>2 DEF Complete, CompleteAttempt
        <3> QED
            BY <1>1, <1>2, <2>2, <3>1 DEF WorkerNext
    <2> QED
        BY <2>1, <2>2
<1>7. CASE FailCall(id)
    <2>1. (\E retryable \in BOOLEAN : Fail(Self, id[1], id[2], retryable, clock)) \/ UNCHANGED vars
        BY <1>7 DEF FailCall, Call
    <2>2. ASSUME NEW retryable \in BOOLEAN, Fail(Self, id[1], id[2], retryable, clock)
          PROVE  WorkerNext
        <3>1. id[2] \in 1 .. Len(attempts[id[1]])
            BY <1>3, <2>2 DEF Fail, CompleteAttempt
        <3> QED
            BY <1>1, <1>2, <2>2, <3>1 DEF WorkerNext
    <2> QED
        BY <2>1, <2>2
<1>8. CASE Executed(id) \/ DeadlinePasses(id) \/ Returned(id)
    BY <1>8 DEF Executed, DeadlinePasses, Returned
<1> QED
    BY <1>4, <1>5, <1>6, <1>7, <1>8 DEF Execution

LEMMA HeartbeatIsStoreStep ==
    ASSUME NEW free \in 0 .. MaxConcurrency[Self], Heartbeat(Self, free)
    PROVE  WorkerNext
BY RuntimeAssumption DEF WorkerNext

LEMMA BeatIsStoreStep ==
    ASSUME RuntimeInvariant, BeatCall
    PROVE  WorkerNext \/ UNCHANGED vars
<1>1. Heartbeat(Self, SlotsSaid(beat.free, Told(beat.ids))) \/ UNCHANGED vars
    BY DEF BeatCall, Call
<1>2. beat.free \in 0 .. MaxConcurrency[Self]
    BY DEF RuntimeInvariant, RuntimeTypeOK
<1>3. IsFiniteSet(Told(beat.ids))
    <2>1. Told(beat.ids) \in SUBSET beat.ids
        BY DEF Told, Ended
    <2> QED
        BY <2>1, FS_Subset DEF RuntimeInvariant
<1>4. SlotsSaid(beat.free, Told(beat.ids)) \in 0 .. MaxConcurrency[Self]
    BY <1>2, <1>3, SlotsSaidInRange
<1> QED
    BY <1>1, <1>4, HeartbeatIsStoreStep

LEMMA ExitIsStoreStep ==
    ASSUME Exit
    PROVE  WorkerNext \/ UNCHANGED vars
<1>1. Heartbeat(Self, MaxConcurrency[Self]) \/ UNCHANGED vars
    BY DEF Exit
<1>2. MaxConcurrency[Self] \in 0 .. MaxConcurrency[Self]
    BY RuntimeAssumption, TimingAssumption
<1> QED
    BY <1>1, <1>2, HeartbeatIsStoreStep

LEMMA StepIsStoreStep ==
    ASSUME RuntimeInvariant, [RuntimeNext]_allVars
    PROVE  [Next]_vars
<1>1. TypeOK
    BY DEF RuntimeInvariant, Consistent
<1>2. CASE ClaimStart \/ ClaimEmpty \/ BeatStart \/ BeatSlots \/ Shutdown \/ CancelAll \/ Kill
    BY <1>2 DEF ClaimStart, ClaimEmpty, BeatStart, BeatSlots, Shutdown, CancelAll, Kill
<1>3. CASE \E j \in Jobs : ClaimGranted(j)
    BY <1>1, <1>3, ClaimIsStoreStep DEF Next
<1>4. CASE \E id \in AttemptIDs : Execution(id)
    BY <1>1, <1>4, ExecutionIsStoreStep DEF Next
<1>5. CASE BeatCall
    BY <1>5, BeatIsStoreStep DEF Next
<1>6. CASE Exit
    BY <1>6, ExitIsStoreStep DEF Next
<1>7. CASE TimePasses
    BY <1>7 DEF TimePasses, Next
<1>8. CASE Others
    <2>1. ClientNext \/ ExpireLeases(clock) \/ TimeoutJobs(clock)
        BY <1>8 DEF Others
    <2> QED
        BY <1>1, <2>1, ClockIsNow DEF Next, ControllerNext
<1>9. CASE UNCHANGED allVars
    BY <1>9 DEF allVars
<1> QED
    BY <1>2, <1>3, <1>4, <1>5, <1>6, <1>7, <1>8, <1>9 DEF RuntimeNext

-----------------------------------------------------------------------------
(* The attempts that run.                                                  *)

LEMMA Slots == MaxConcurrency[Self] \in Nat \ {0}
BY RuntimeAssumption, TimingAssumption

(* A step that starts no attempt keeps the limit, if a claim that begins   *)
(* finds a slot.                                                           *)
LEMMA NoneStarted ==
    ASSUME RuntimeInvariant, ActiveIDs' \subseteq ActiveIDs,
           poll' = 0 \/ (SlotForTheClaim /\ poll' = poll) \/ FreeSlots # 0
    PROVE  IsFiniteSet(ActiveIDs') /\ RunsWithinLimit' /\ SlotForTheClaim'
<1>1. IsFiniteSet(ActiveIDs') /\ Cardinality(ActiveIDs') <= Cardinality(ActiveIDs)
    BY FS_Subset DEF RuntimeInvariant
<1>2. Cardinality(ActiveIDs') \in Nat /\ Cardinality(ActiveIDs) \in Nat
    BY <1>1, FS_CardinalityType DEF RuntimeInvariant
<1>3. Cardinality(ActiveIDs) <= MaxConcurrency[Self]
    BY DEF RuntimeInvariant, RunsWithinLimit
<1>4. poll' # 0 => Cardinality(ActiveIDs) < MaxConcurrency[Self]
    BY <1>2, <1>3, Slots DEF SlotForTheClaim, FreeSlots
<1> QED
    BY <1>1, <1>2, <1>3, <1>4, Slots DEF RunsWithinLimit, SlotForTheClaim

(* The attempt a claim is given takes the slot the claim was made for.     *)
LEMMA OneStarted ==
    ASSUME RuntimeInvariant, NEW id, ActiveIDs' \subseteq ActiveIDs \cup {id},
           poll # 0, poll' = 0
    PROVE  IsFiniteSet(ActiveIDs') /\ RunsWithinLimit' /\ SlotForTheClaim'
<1>1. /\ IsFiniteSet(ActiveIDs \cup {id})
      /\ Cardinality(ActiveIDs \cup {id}) <= Cardinality(ActiveIDs) + 1
    <2>1. IsFiniteSet(ActiveIDs) /\ Cardinality(ActiveIDs) \in Nat
        BY FS_CardinalityType DEF RuntimeInvariant
    <2>2. /\ IsFiniteSet(ActiveIDs \cup {id})
          /\ Cardinality(ActiveIDs \cup {id}) =
               IF id \in ActiveIDs THEN Cardinality(ActiveIDs) ELSE Cardinality(ActiveIDs) + 1
        BY <2>1, FS_AddElement, Zenon
    <2> QED
        BY <2>1, <2>2
<1>2. /\ IsFiniteSet(ActiveIDs')
      /\ Cardinality(ActiveIDs') <= Cardinality(ActiveIDs \cup {id})
    BY <1>1, FS_Subset
<1>3. /\ Cardinality(ActiveIDs) \in Nat /\ Cardinality(ActiveIDs') \in Nat
      /\ Cardinality(ActiveIDs \cup {id}) \in Nat
    BY <1>1, <1>2, FS_CardinalityType DEF RuntimeInvariant
<1>4. Cardinality(ActiveIDs) < MaxConcurrency[Self]
    BY DEF RuntimeInvariant, SlotForTheClaim
<1> QED
    BY <1>1, <1>2, <1>3, <1>4, Slots DEF RunsWithinLimit, SlotForTheClaim

-----------------------------------------------------------------------------
(* The runtime's own variables, action by action.                          *)

Kept == /\ RuntimeTypeOK' /\ IsFiniteSet(ActiveIDs') /\ IsFiniteSet(beat.ids)'
        /\ RunsWithinLimit' /\ SlotForTheClaim'

LEMMA CancelTasksStartsNone ==
    ASSUME RuntimeTypeOK, NEW ids, CancelTasks(ids)
    PROVE  /\ ActiveIDs' \subseteq ActiveIDs
           /\ task' \in [AttemptIDs -> TaskStates]
           /\ renewAt' \in [AttemptIDs -> Nat]
BY DEF RuntimeTypeOK, CancelTasks, ActiveIDs, TaskStates

LEMMA ClaimStartKeeps ==
    ASSUME RuntimeInvariant, ClaimStart
    PROVE  Kept
<1>1. RuntimeTypeOK' /\ IsFiniteSet(beat.ids)'
    <2>1. poll' \in Nat
        BY ClockIsNow, RuntimeAssumption DEF ClaimStart, RuntimeInvariant, Consistent
    <2> QED
        BY <2>1 DEF ClaimStart, RuntimeInvariant, RuntimeTypeOK
<1>2. ActiveIDs' \subseteq ActiveIDs /\ FreeSlots # 0
    BY DEF ClaimStart, MayClaim, ActiveIDs
<1> QED
    BY <1>1, <1>2, NoneStarted DEF Kept

LEMMA ClaimEmptyKeeps ==
    ASSUME RuntimeInvariant, ClaimEmpty
    PROVE  Kept
<1>1. RuntimeTypeOK' /\ IsFiniteSet(beat.ids)'
    BY DEF ClaimEmpty, ClaimOver, RuntimeInvariant, RuntimeTypeOK
<1>2. ActiveIDs' \subseteq ActiveIDs /\ poll' = 0
    BY DEF ClaimEmpty, ClaimOver, ActiveIDs
<1>3. IsFiniteSet(ActiveIDs') /\ RunsWithinLimit' /\ SlotForTheClaim'
    BY <1>2, NoneStarted
<1> QED
    BY <1>1, <1>3 DEF Kept

(* A claim finds a queued job, whose next attempt its policy allows.       *)
LEMMA ClaimedIsAttempt ==
    ASSUME Consistent, NEW j \in Jobs, ClaimNextJob(Self, j, clock)
    PROVE  <<j, Len(attempts[j]) + 1>> \in AttemptIDs
<1>1. jobState[j] = "queued"
    BY DEF ClaimNextJob, Claimable
<1>2. Len(attempts[j]) < MaxAttempts[j] /\ Len(attempts[j]) \in Nat /\ MaxAttempts[j] \in Nat
    BY <1>1, LenProperties, JobsAssumption DEF Consistent, Bookkeeping, TypeOK
<1>3. Len(attempts[j]) + 1 \in 1 .. MaxAttempts[j]
    BY <1>2
<1> QED
    BY <1>3 DEF AttemptIDs

LEMMA ClaimGrantedKeeps ==
    ASSUME RuntimeInvariant, NEW j \in Jobs, ClaimGranted(j)
    PROVE  Kept
<1>1. RuntimeTypeOK /\ Consistent /\ TypeOK /\ clock \in Nat
    BY ClockIsNow DEF RuntimeInvariant, Consistent
<1>2. poll # 0 /\ poll' = 0 /\ ClaimNextJob(Self, j, clock)
    BY DEF ClaimGranted, ClaimOver
<1>3. PICK id : id = <<j, Len(attempts[j]) + 1>>
    OBVIOUS
<1>4. id \in AttemptIDs
    BY <1>1, <1>2, <1>3, ClaimedIsAttempt
<1>5. \/ /\ task' = [task EXCEPT ![id] = "running"]
         /\ renewAt' = [renewAt EXCEPT ![id] = clock + RenewEvery]
      \/ UNCHANGED <<task, renewAt>>
    BY <1>3 DEF ClaimGranted
<1>6. clock + RenewEvery \in Nat
    BY <1>1, TimingAssumption DEF RenewEvery
<1>7. task' \in [AttemptIDs -> TaskStates] /\ renewAt' \in [AttemptIDs -> Nat]
    BY <1>1, <1>5, <1>6 DEF RuntimeTypeOK, TaskStates
<1>8. RuntimeTypeOK' /\ IsFiniteSet(beat.ids)'
    <2>1. lost' \in 0 .. MaxLost
        BY <1>1, RuntimeAssumption DEF ClaimGranted, RuntimeTypeOK
    <2> QED
        BY <1>1, <1>7, <2>1 DEF ClaimGranted, ClaimOver, RuntimeInvariant, RuntimeTypeOK
<1>9. ActiveIDs' \subseteq ActiveIDs \cup {id}
    BY <1>1, <1>5 DEF ActiveIDs, RuntimeTypeOK
<1> QED
    BY <1>2, <1>8, <1>9, OneStarted DEF Kept

(* An execution moves on among the states of a task.                       *)
LEMMA MovesStartsNone ==
    ASSUME RuntimeTypeOK, NEW id \in AttemptIDs, task[id] # "none",
           NEW to \in TaskStates, Moves(id, to)
    PROVE  ActiveIDs' \subseteq ActiveIDs /\ task' \in [AttemptIDs -> TaskStates]
BY DEF RuntimeTypeOK, ActiveIDs, Moves

LEMMA LostInRange ==
    ASSUME RuntimeTypeOK, UNCHANGED lost \/ (lost < MaxLost /\ lost' = lost + 1)
    PROVE  lost' \in 0 .. MaxLost
BY RuntimeAssumption DEF RuntimeTypeOK

LEMMA RenewCallKeeps ==
    ASSUME RuntimeInvariant, NEW id \in AttemptIDs, RenewCall(id)
    PROVE  Kept
<1>1. RuntimeTypeOK
    BY DEF RuntimeInvariant
<1>2. lost' \in 0 .. MaxLost
    <2>1. UNCHANGED lost \/ (lost < MaxLost /\ lost' = lost + 1)
        BY Zenon DEF RenewCall, Call
    <2> QED
        BY <1>1, <2>1, LostInRange
<1>3. renewAt' \in [AttemptIDs -> Nat]
    BY <1>1, TimingAssumption DEF RenewCall, Call, RenewEvery, RuntimeTypeOK
<1>4. RuntimeTypeOK' /\ IsFiniteSet(beat.ids)'
    BY <1>1, <1>2, <1>3 DEF RenewCall, RuntimeInvariant, RuntimeTypeOK
<1>5. ActiveIDs' \subseteq ActiveIDs /\ poll' = poll /\ SlotForTheClaim
    BY DEF RenewCall, ActiveIDs, RuntimeInvariant
<1> QED
    BY <1>4, <1>5, NoneStarted, Zenon DEF Kept

(* What the steps of an execution have in common.                          *)
LEMMA TaskStepKeeps ==
    ASSUME RuntimeInvariant, NEW id \in AttemptIDs, task[id] # "none",
           NEW to \in TaskStates, Moves(id, to), TaskStep,
           released' \subseteq AttemptIDs,
           UNCHANGED lost \/ (lost < MaxLost /\ lost' = lost + 1)
    PROVE  Kept
<1>1. RuntimeTypeOK
    BY DEF RuntimeInvariant
<1>2. ActiveIDs' \subseteq ActiveIDs /\ task' \in [AttemptIDs -> TaskStates]
    BY <1>1, MovesStartsNone
<1>3. lost' \in 0 .. MaxLost
    BY <1>1, LostInRange
<1>4. RuntimeTypeOK' /\ IsFiniteSet(beat.ids)'
    BY <1>1, <1>2, <1>3 DEF TaskStep, RuntimeInvariant, RuntimeTypeOK
<1>5. poll' = poll /\ SlotForTheClaim
    BY DEF TaskStep, RuntimeInvariant
<1> QED
    BY <1>2, <1>4, <1>5, NoneStarted, Zenon DEF Kept

LEMMA ReportingKeeps ==
    ASSUME RuntimeInvariant, NEW id \in AttemptIDs,
           Executed(id) \/ SaveCall(id) \/ CompleteCall(id) \/ FailCall(id)
    PROVE  Kept
<1>1. released \subseteq AttemptIDs
    BY DEF RuntimeInvariant, RuntimeTypeOK
<1>2. task[id] # "none"
    BY DEF Executed, SaveCall, CompleteCall, FailCall, At
<1>3. \E to \in TaskStates : Moves(id, to)
    <2>1. \E to \in {"saving", "saved", "failing", "reported"} : Moves(id, to)
        BY Zenon DEF Executed, SaveCall, CompleteCall, FailCall, Call
    <2> QED
        BY <2>1 DEF TaskStates
<1>4. TaskStep /\ released' \subseteq AttemptIDs
    BY <1>1 DEF Executed, SaveCall, CompleteCall, FailCall, ReportStep
<1>5. UNCHANGED lost \/ (lost < MaxLost /\ lost' = lost + 1)
    BY Zenon DEF Executed, SaveCall, CompleteCall, FailCall, Call
<1> QED
    BY <1>2, <1>3, <1>4, <1>5, TaskStepKeeps

LEMMA DeadlinePassesKeeps ==
    ASSUME RuntimeInvariant, NEW id \in AttemptIDs, DeadlinePasses(id)
    PROVE  Kept
<1>1. RuntimeTypeOK
    BY DEF RuntimeInvariant
<1>2. /\ ActiveIDs' \subseteq ActiveIDs
      /\ task' \in [AttemptIDs -> TaskStates] /\ renewAt' \in [AttemptIDs -> Nat]
    BY <1>1, CancelTasksStartsNone DEF DeadlinePasses
<1>3. RuntimeTypeOK' /\ IsFiniteSet(beat.ids)'
    BY <1>1, <1>2 DEF DeadlinePasses, RuntimeInvariant, RuntimeTypeOK
<1>4. poll' = poll /\ SlotForTheClaim
    BY DEF DeadlinePasses, RuntimeInvariant
<1> QED
    BY <1>2, <1>3, <1>4, NoneStarted, Zenon DEF Kept

LEMMA ReturnedKeeps ==
    ASSUME RuntimeInvariant, NEW id \in AttemptIDs, Returned(id)
    PROVE  Kept
<1>1. RuntimeTypeOK
    BY DEF RuntimeInvariant
<1>2. ActiveIDs' \subseteq ActiveIDs /\ task' \in [AttemptIDs -> TaskStates]
    <2>1. task[id] # "none" /\ Moves(id, "none")
        BY DEF Returned, At
    <2> QED
        BY <1>1, <2>1, MovesStartsNone DEF TaskStates
<1>3. RuntimeTypeOK' /\ IsFiniteSet(beat.ids)'
    BY <1>1, <1>2 DEF Returned, RuntimeInvariant, RuntimeTypeOK
<1>4. poll' = poll /\ SlotForTheClaim
    BY DEF Returned, RuntimeInvariant
<1> QED
    BY <1>2, <1>3, <1>4, NoneStarted, Zenon DEF Kept

(* The heartbeat reads the map of attempts, then the free slots, which the *)
(* limit keeps from being negative.                                        *)
LEMMA BeatBeginsKeeps ==
    ASSUME RuntimeInvariant, BeatStart \/ BeatSlots
    PROVE  Kept
<1>1. RuntimeTypeOK /\ IsFiniteSet(ActiveIDs) /\ IsFiniteSet(beat.ids)
    BY DEF RuntimeInvariant
<1>2. FreeSlots \in 0 .. MaxConcurrency[Self]
    <2>1. Cardinality(ActiveIDs) \in Nat /\ Cardinality(ActiveIDs) <= MaxConcurrency[Self]
        BY <1>1, FS_CardinalityType DEF RuntimeInvariant, RunsWithinLimit
    <2> QED
        BY <2>1, Slots DEF FreeSlots
<1>3. /\ beat' \in [at : {"none", "slots", "locking"}, ids : SUBSET AttemptIDs,
                   free : 0 .. MaxConcurrency[Self]]
      /\ beat'.ids \in {ActiveIDs, beat.ids}
    <2>1. CASE BeatStart
        BY <1>1, <2>1, Slots DEF BeatStart, ActiveIDs
    <2>2. CASE BeatSlots
        BY <1>1, <1>2, <2>2 DEF BeatSlots, RuntimeTypeOK
    <2> QED
        BY <2>1, <2>2
<1>4. IsFiniteSet(beat.ids)'
    BY <1>1, <1>3
<1>5. RuntimeTypeOK'
    BY <1>1, <1>3 DEF BeatStart, BeatSlots, RuntimeTypeOK
<1>6. ActiveIDs' \subseteq ActiveIDs /\ poll' = poll /\ SlotForTheClaim
    BY DEF BeatStart, BeatSlots, ActiveIDs, RuntimeInvariant
<1> QED
    BY <1>4, <1>5, <1>6, NoneStarted, Zenon DEF Kept

LEMMA NoBeatType ==
    /\ NoBeat \in [at : {"none", "slots", "locking"}, ids : SUBSET AttemptIDs,
                   free : 0 .. MaxConcurrency[Self]]
    /\ IsFiniteSet(NoBeat.ids)
BY FS_EmptySet, Slots DEF NoBeat

LEMMA BeatCallKeeps ==
    ASSUME RuntimeInvariant, BeatCall
    PROVE  Kept
<1>1. RuntimeTypeOK /\ clock \in Nat
    BY ClockIsNow DEF RuntimeInvariant, Consistent
<1>2. /\ beatAt' \in {beatAt + HeartbeatEvery, clock + 1}
      /\ CancelTasks(Told(beat.ids)) \/ UNCHANGED <<task, renewAt>>
    BY Zenon DEF BeatCall, Call
<1>3. UNCHANGED lost \/ (lost < MaxLost /\ lost' = lost + 1)
    BY Zenon DEF BeatCall, Call
<1>4. /\ ActiveIDs' \subseteq ActiveIDs
      /\ task' \in [AttemptIDs -> TaskStates] /\ renewAt' \in [AttemptIDs -> Nat]
    <2>1. CASE CancelTasks(Told(beat.ids))
        <3>1. PICK ids : ids = Told(beat.ids)
            OBVIOUS
        <3> QED
            BY <1>1, <2>1, <3>1, CancelTasksStartsNone
    <2>2. CASE UNCHANGED <<task, renewAt>>
        BY <1>1, <2>2 DEF ActiveIDs, RuntimeTypeOK
    <2> QED
        BY <1>2, <2>1, <2>2
<1>5. beatAt' \in Nat /\ late' \in [AttemptIDs -> Nat] /\ lost' \in 0 .. MaxLost
    BY <1>1, <1>2, <1>3, LostInRange, RuntimeAssumption DEF BeatCall, RuntimeTypeOK
<1>6. RuntimeTypeOK' /\ IsFiniteSet(beat.ids)'
    BY <1>1, <1>4, <1>5, NoBeatType DEF BeatCall, RuntimeTypeOK
<1>7. poll' = poll /\ SlotForTheClaim
    BY DEF BeatCall, RuntimeInvariant
<1> QED
    BY <1>4, <1>6, <1>7, NoneStarted, Zenon DEF Kept

LEMMA ShutdownKeeps ==
    ASSUME RuntimeInvariant, Shutdown \/ CancelAll
    PROVE  Kept
<1>1. RuntimeTypeOK
    BY DEF RuntimeInvariant
<1>2. /\ ActiveIDs' \subseteq ActiveIDs
      /\ task' \in [AttemptIDs -> TaskStates] /\ renewAt' \in [AttemptIDs -> Nat]
    <2>1. CASE Shutdown
        BY <1>1, <2>1 DEF Shutdown, ActiveIDs, RuntimeTypeOK
    <2>2. CASE CancelAll
        BY <1>1, <2>2, CancelTasksStartsNone DEF CancelAll
    <2> QED
        BY <2>1, <2>2
<1>3. RuntimeTypeOK' /\ IsFiniteSet(beat.ids)'
    BY <1>1, <1>2 DEF Shutdown, CancelAll, RuntimeInvariant, RuntimeTypeOK
<1>4. poll' = poll /\ SlotForTheClaim
    BY DEF Shutdown, CancelAll, RuntimeInvariant
<1> QED
    BY <1>2, <1>3, <1>4, NoneStarted, Zenon DEF Kept

LEMMA LeavesKeeps ==
    ASSUME RuntimeInvariant, Leaves, UNCHANGED lost \/ (lost < MaxLost /\ lost' = lost + 1)
    PROVE  Kept
<1>1. RuntimeTypeOK
    BY DEF RuntimeInvariant
<1>2. lost' \in 0 .. MaxLost
    BY <1>1, LostInRange
<1>3. RuntimeTypeOK' /\ IsFiniteSet(beat.ids)'
    BY <1>1, <1>2, NoBeatType DEF Leaves, RuntimeTypeOK, TaskStates
<1>4. ActiveIDs' \subseteq ActiveIDs /\ poll' = 0
    BY DEF Leaves, ActiveIDs
<1> QED
    BY <1>3, <1>4, NoneStarted, Zenon DEF Kept

(* Time, clients, controllers, and steps of nobody.                        *)
LEMMA OutsideKeeps ==
    ASSUME RuntimeInvariant, TimePasses \/ Others \/ UNCHANGED allVars
    PROVE  Kept
<1>1. RuntimeTypeOK
    BY DEF RuntimeInvariant
<1>2. /\ UNCHANGED <<phase, task, renewAt, poll, beat, released, beatAt, lost>>
      /\ late' \in [AttemptIDs -> Nat]
    BY <1>1 DEF TimePasses, Others, allVars, local, RuntimeTypeOK
<1>3. RuntimeTypeOK' /\ IsFiniteSet(beat.ids)'
    BY <1>1, <1>2 DEF RuntimeInvariant, RuntimeTypeOK
<1>4. ActiveIDs' \subseteq ActiveIDs /\ poll' = poll /\ SlotForTheClaim
    BY <1>2 DEF ActiveIDs, RuntimeInvariant
<1> QED
    BY <1>3, <1>4, NoneStarted, Zenon DEF Kept

-----------------------------------------------------------------------------
LEMMA InitRuntimeInvariant ==
    ASSUME RuntimeInit
    PROVE  RuntimeInvariant
<1>1. Consistent
    BY InitConsistent DEF RuntimeInit
<1>2. RuntimeTypeOK /\ IsFiniteSet(beat.ids)
    BY NoBeatType, RuntimeAssumption DEF RuntimeInit, RuntimeTypeOK, TaskStates
<1>3. ActiveIDs = {} /\ poll = 0
    BY DEF RuntimeInit, ActiveIDs
<1>4. IsFiniteSet(ActiveIDs) /\ RunsWithinLimit /\ SlotForTheClaim
    BY <1>3, FS_EmptySet, Slots DEF RunsWithinLimit, SlotForTheClaim
<1> QED
    BY <1>1, <1>2, <1>4 DEF RuntimeInvariant

LEMMA NextRuntimeInvariant ==
    ASSUME RuntimeInvariant, [RuntimeNext]_allVars
    PROVE  RuntimeInvariant'
<1>1. Consistent'
    BY StepIsStoreStep, NextConsistent DEF RuntimeInvariant
<1>2. CASE ClaimStart
    BY <1>1, <1>2, ClaimStartKeeps DEF Kept, RuntimeInvariant
<1>3. CASE ClaimEmpty
    BY <1>1, <1>3, ClaimEmptyKeeps DEF Kept, RuntimeInvariant
<1>4. CASE \E j \in Jobs : ClaimGranted(j)
    BY <1>1, <1>4, ClaimGrantedKeeps DEF Kept, RuntimeInvariant
<1>5. ASSUME NEW id \in AttemptIDs, Execution(id)
      PROVE  Kept
    BY <1>5, RenewCallKeeps, ReportingKeeps, DeadlinePassesKeeps, ReturnedKeeps DEF Execution
<1>6. CASE BeatStart \/ BeatSlots
    BY <1>1, <1>6, BeatBeginsKeeps DEF Kept, RuntimeInvariant
<1>7. CASE BeatCall
    BY <1>1, <1>7, BeatCallKeeps DEF Kept, RuntimeInvariant
<1>8. CASE Shutdown \/ CancelAll
    BY <1>1, <1>8, ShutdownKeeps DEF Kept, RuntimeInvariant
<1>9. CASE Exit \/ Kill
    BY <1>1, <1>9, LeavesKeeps DEF Exit, Kill, Kept, RuntimeInvariant
<1>10. CASE TimePasses \/ Others \/ UNCHANGED allVars
    BY <1>1, <1>10, OutsideKeeps DEF Kept, RuntimeInvariant
<1>11. CASE \E id \in AttemptIDs : Execution(id)
    BY <1>1, <1>5, <1>11 DEF Kept, RuntimeInvariant
<1> QED
    BY <1>2, <1>3, <1>4, <1>6, <1>7, <1>8, <1>9, <1>10, <1>11 DEF RuntimeNext

LEMMA RuntimeInvariantHolds == RuntimeSpec => []RuntimeInvariant
<1>1. RuntimeInit => RuntimeInvariant
    BY InitRuntimeInvariant
<1>2. RuntimeInvariant /\ [RuntimeNext]_allVars => RuntimeInvariant'
    BY NextRuntimeInvariant
<1> QED
    BY <1>1, <1>2, PTL DEF RuntimeSpec

(* Every variable of the worker process keeps its type; the free slots a   *)
(* heartbeat reports are never negative.                                   *)
THEOREM RuntimeTypeCorrect == RuntimeSpec => []RuntimeTypeOK
<1>1. RuntimeInvariant => RuntimeTypeOK
    BY DEF RuntimeInvariant
<1> QED
    BY <1>1, RuntimeInvariantHolds, PTL

(* claimLoop never takes on more than the worker registered for, whatever  *)
(* the server thinks is free, whichever answers are lost and however long  *)
(* a claim is held up.                                                     *)
THEOREM WorkerRunsWithinLimit == RuntimeSpec => []RunsWithinLimit
<1>1. RuntimeInvariant => RunsWithinLimit
    BY DEF RuntimeInvariant
<1> QED
    BY <1>1, RuntimeInvariantHolds, PTL

(* The worker's loops, its client and the handlers they call implement the *)
(* store as JobStore describes it: no interleaving of claims, renewals,    *)
(* reports, heartbeats, losses and shutdown leaves what workers may do.    *)
THEOREM RuntimeImplementsStore == RuntimeSpec => ImplementsStore
<1>1. RuntimeInit => Init
    BY DEF RuntimeInit
<1>2. RuntimeInvariant /\ [RuntimeNext]_allVars => [Next]_vars
    BY StepIsStoreStep
<1> QED
    BY <1>1, <1>2, RuntimeInvariantHolds, PTL DEF RuntimeSpec, ImplementsStore, Spec

(* What is proved of the store therefore holds of it with this worker: the *)
(* job tables are consistent at all times.                                 *)
THEOREM StoreConsistentUnderRuntime == RuntimeSpec => []Consistent
BY RuntimeImplementsStore, Consistency, PTL DEF ImplementsStore
=============================================================================
