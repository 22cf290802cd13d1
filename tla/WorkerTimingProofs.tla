------------------------- MODULE WorkerTimingProofs -------------------------
(***************************************************************************)
(* Proofs about the times of WorkerRuntime: for which durations the lock   *)
(* of the client leaves a worker its leases, and how long an executor runs *)
(* on after its job was ended.                                             *)
(***************************************************************************)
EXTENDS WorkerRuntimeProofs

(* The heartbeat that follows one which did not know of an attempt begins  *)
(* within this time of the end of the attempt's job.                       *)
BeatGap == IF HeartbeatEvery > ClaimWait THEN HeartbeatEvery ELSE ClaimWait

(* A poll ends in time, and a heartbeat begins when it is due.             *)
LoopTimes ==
    /\ poll <= clock + ClaimWait
    /\ beat.at = "none" => beatAt <= clock + HeartbeatEvery
    /\ beat.at # "none" => beatAt <= clock

(* What is executed was claimed, and timers belong to what is executed.    *)
Executing(id) ==
    /\ task[id] = "none" => renewAt[id] = 0 /\ late[id] = 0
    /\ task[id] # "none" => Up /\ id[2] \in DOMAIN attempts[id[1]]

(* A renewal is held up by no more than one poll: it is overdue only while *)
(* a heartbeat waits for that poll, and right after, before the next.      *)
RenewsOnTime(id) ==
    renewAt[id] # 0 =>
        /\ clock <= renewAt[id] + ClaimWait
        /\ beat.at = "locking" /\ poll # 0 => poll <= renewAt[id] + ClaimWait
        /\ renewAt[id] < clock => \/ beat.at = "locking"
                                  \/ beat.at = "none" /\ id \in released

(* An active attempt has a renewal to come, and its lease outlasts it.     *)
Leased(id) ==
    /\ AttemptOf(id).state # "lease_expired"
    /\ Active(AttemptOf(id)) =>
          /\ renewAt[id] # 0
          /\ renewAt[id] + LeaseDuration <= AttemptOf(id).expires + RenewEvery

(* How long an executor may have run on, by what the heartbeat is doing    *)
(* and whether it knows of the attempt.                                    *)
RunsOn(id) ==
    /\ ~ShouldCancel(id[1]) => late[id] = 0
    /\ beat.at = "none" => late[id] <= BeatGap /\ late[id] + beatAt <= clock + BeatGap
    /\ beat.at = "slots" => late[id] <= BeatGap /\ (id \in beat.ids \/ late[id] = 0)
    /\ beat.at = "locking" /\ id \in beat.ids /\ poll # 0 =>
          late[id] + poll <= clock + LongestDelay
    /\ beat.at = "locking" /\ id \notin beat.ids =>
          /\ late[id] <= ClaimWait
          /\ late[id] + beatAt <= clock
          /\ poll # 0 => late[id] + poll <= clock + ClaimWait

OnTime(id) ==
    /\ Executing(id)
    /\ lost = 0 => /\ late[id] <= LongestDelay
                   /\ task[id] = "running" => RunsOn(id)
    /\ lost = 0 /\ PollsAreShort /\ task[id] = "running" =>
          RenewsOnTime(id) /\ Leased(id)

(* The inductive invariant, on top of RuntimeInvariant.                    *)
TimingInvariant == LoopTimes /\ \A id \in AttemptIDs : OnTime(id)

-----------------------------------------------------------------------------
(* Durations and types.                                                    *)

LEMMA Durations ==
    /\ HeartbeatEvery \in Nat \ {0} /\ ClaimWait \in Nat \ {0} /\ LeaseDuration \in Nat \ {0}
    /\ RenewEvery \in Nat \ {0}
    /\ BeatGap \in Nat /\ HeartbeatEvery <= BeatGap /\ ClaimWait <= BeatGap
    /\ LongestDelay = BeatGap + ClaimWait
    /\ PollsAreShort => ClaimWait <= RenewEvery /\ RenewEvery + ClaimWait < LeaseDuration
<1>1. /\ HeartbeatEvery \in Nat \ {0} /\ ClaimWait \in Nat \ {0}
      /\ LeaseDuration \in Nat \ {0} /\ HeartbeatEvery < LeaseDuration
    BY RuntimeAssumption, TimingAssumption
<1>2. RenewEvery \in Nat \ {0} /\ LeaseDuration <= RenewEvery + RenewEvery + 1
    BY <1>1 DEF RenewEvery
<1>3. /\ BeatGap \in Nat /\ HeartbeatEvery <= BeatGap /\ ClaimWait <= BeatGap
      /\ LongestDelay = BeatGap + ClaimWait
    BY <1>1 DEF BeatGap, LongestDelay
<1>4. PollsAreShort => ClaimWait <= RenewEvery /\ RenewEvery + ClaimWait < LeaseDuration
    BY <1>1, <1>2 DEF PollsAreShort
<1> QED
    BY <1>1, <1>2, <1>3, <1>4

LEMMA RuntimeTypes ==
    ASSUME RuntimeInvariant, NEW id \in AttemptIDs
    PROVE  /\ clock \in Nat /\ poll \in Nat /\ beatAt \in Nat /\ lost \in Nat
           /\ beat.at \in {"none", "slots", "locking"}
           /\ task \in [AttemptIDs -> TaskStates] /\ task[id] \in TaskStates
           /\ renewAt \in [AttemptIDs -> Nat] /\ renewAt[id] \in Nat
           /\ late \in [AttemptIDs -> Nat] /\ late[id] \in Nat
           /\ id[1] \in Jobs /\ attempts \in [Jobs -> Seq(Attempts)]
           /\ \A j \in Jobs : \A n \in DOMAIN attempts[j] :
                 attempts[j][n] \in Attempts /\ attempts[j][n].expires \in Nat
<1>1. RuntimeTypeOK /\ TypeOK /\ id[1] \in Jobs
    BY AttemptOfJob DEF RuntimeInvariant, Consistent
<1>2. \A j \in Jobs : \A n \in DOMAIN attempts[j] : attempts[j][n] \in Attempts
    BY <1>1, LenProperties, ElementOfSeq DEF TypeOK
<1>3. \A j \in Jobs : \A n \in DOMAIN attempts[j] : attempts[j][n].expires \in Nat
    BY <1>2 DEF Attempts
<1> QED
    BY <1>1, <1>2, <1>3 DEF RuntimeTypeOK, TypeOK

-----------------------------------------------------------------------------
(* What the steps of the store do to the rows of attempts.                 *)

(* A row stays or its attempt ends, and its lease is taken away only when  *)
(* it has run out.                                                         *)
RowKept(j, n) ==
    /\ n \in DOMAIN attempts'[j]
    /\ \/ attempts'[j][n] = attempts[j][n]
       \/ /\ Active(attempts[j][n]) /\ ~Active(attempts'[j][n])
          /\ attempts'[j][n].state = "lease_expired" => attempts[j][n].expires <= clock

RowsKept == \A j \in Jobs : \A n \in DOMAIN attempts[j] : RowKept(j, n)

LEMMA SameRows ==
    ASSUME UNCHANGED attempts
    PROVE  RowsKept
BY DEF RowsKept, RowKept

LEMMA ClaimKeepsRows ==
    ASSUME Consistent, NEW j \in Jobs, ClaimNextJob(Self, j, clock)
    PROVE  /\ RowsKept
           /\ DOMAIN attempts'[j] = 1 .. (Len(attempts[j]) + 1)
           /\ attempts'[j][Len(attempts[j]) + 1] = NewAttempt(Self, clock)
<1>1. TypeOK /\ clock \in Nat /\ attempts \in [Jobs -> Seq(Attempts)]
    BY DEF Consistent, TypeOK
<1>2. PICK as \in Seq(Attempts) : as = attempts[j]
    BY <1>1
<1>3. PICK a \in Attempts : a = NewAttempt(Self, clock)
    <2>1. NewAttempt(Self, clock) \in Attempts
        BY <1>1, TimingAssumption, RuntimeAssumption
           DEF NewAttempt, Attempts, AttemptStates, ActiveAttemptStates
    <2> QED
        BY <2>1
<1>4. attempts' = [attempts EXCEPT ![j] = Append(as, a)]
    BY <1>2, <1>3 DEF ClaimNextJob
<1>5. /\ DOMAIN Append(as, a) = 1..(Len(as) + 1)
      /\ \A n \in 1..Len(as) : Append(as, a)[n] = as[n]
      /\ Append(as, a)[Len(as) + 1] = a
    BY AppendedAttempt, Zenon
<1>6. DOMAIN as = 1 .. Len(as) /\ Len(as) \in Nat
    BY LenProperties
<1>7. attempts'[j] = Append(as, a) /\ \A k \in Jobs : k # j => attempts'[k] = attempts[k]
    BY <1>1, <1>4
<1>8. ASSUME NEW k \in Jobs, NEW n \in DOMAIN attempts[k]
      PROVE  RowKept(k, n)
    <2>1. CASE k = j
        <3>1. n \in 1 .. Len(as) /\ n \in 1 .. (Len(as) + 1)
            BY <1>2, <1>6, <1>8, <2>1
        <3> QED
            BY <1>2, <1>5, <1>7, <2>1, <3>1 DEF RowKept
    <2>2. CASE k # j
        BY <1>7, <1>8, <2>2 DEF RowKept
    <2> QED
        BY <2>1, <2>2
<1> QED
    BY <1>2, <1>3, <1>5, <1>7, <1>8 DEF RowsKept

(* Ending the active attempt of each of some jobs.                         *)
LEMMA EndingKeepsRows ==
    ASSUME TypeOK, NEW ended \in SUBSET Jobs, NEW st \in AttemptStates,
           st \notin ActiveAttemptStates,
           attempts' = [j \in Jobs |-> IF j \in ended THEN EndActive(attempts[j], st)
                                                      ELSE attempts[j]],
           \A j \in ended : \A n \in DOMAIN attempts[j] :
              Active(attempts[j][n]) /\ st = "lease_expired" => attempts[j][n].expires <= clock
    PROVE  RowsKept
<1> SUFFICES ASSUME NEW j \in Jobs, NEW n \in DOMAIN attempts[j]
             PROVE  RowKept(j, n)
    BY DEF RowsKept
<1>1. CASE j \notin ended
    BY <1>1 DEF RowKept
<1>2. CASE j \in ended
    <2>1. attempts'[j] = EndActive(attempts[j], st)
        BY <1>2
    <2>2. /\ n \in DOMAIN attempts'[j]
          /\ attempts'[j][n] = IF Active(attempts[j][n]) THEN EndedAs(attempts[j][n], st)
                                                         ELSE attempts[j][n]
        BY <2>1 DEF EndActive
    <2>3. EndedAs(attempts[j][n], st).state = st /\ ~Active(EndedAs(attempts[j][n], st))
        BY DEF EndedAs, Active
    <2> QED
        BY <1>2, <2>2, <2>3 DEF RowKept
<1> QED
    BY <1>1, <1>2

LEMMA CancelKeepsRows ==
    ASSUME TypeOK, NEW j \in Jobs, CancelJob(j)
    PROVE  RowsKept
<1>1. attempts' = [k \in Jobs |-> IF k \in {j} THEN EndActive(attempts[k], "canceled")
                                               ELSE attempts[k]]
    BY Zenon DEF CancelJob, TypeOK
<1>2. "canceled" \in AttemptStates /\ "canceled" \notin ActiveAttemptStates
    BY DEF AttemptStates, ActiveAttemptStates
<1> QED
    BY <1>1, <1>2, EndingKeepsRows

(* Only the newest attempt of a job is active, so the one that is expired  *)
(* is the one whose lease has run out.                                     *)
LEMMA ExpiryKeepsRows ==
    ASSUME Consistent, ExpireLeases(clock)
    PROVE  RowsKept
<1>1. PICK expired \in SUBSET Jobs :
        /\ expired = {j \in Jobs : \E n \in DOMAIN attempts[j] :
                        /\ Active(attempts[j][n])
                        /\ attempts[j][n].expires # NoLease
                        /\ attempts[j][n].expires <= clock}
        /\ expireLeases(expired, clock)
    BY DEF ExpireLeases
<1>2. attempts' = [j \in Jobs |-> IF j \in expired
                                   THEN EndActive(attempts[j], "lease_expired")
                                   ELSE attempts[j]]
    BY <1>1 DEF expireLeases
<1>3. \A j \in expired : \A n \in DOMAIN attempts[j] :
         Active(attempts[j][n]) => attempts[j][n].expires <= clock
    BY <1>1 DEF Consistent, LeaseDiscipline
<1>4. "lease_expired" \in AttemptStates /\ "lease_expired" \notin ActiveAttemptStates /\ TypeOK
    BY DEF AttemptStates, ActiveAttemptStates, Consistent
<1> QED
    BY <1>2, <1>3, <1>4, EndingKeepsRows

LEMMA TimeoutKeepsRows ==
    ASSUME TypeOK, TimeoutJobs(clock)
    PROVE  RowsKept
<1>1. PICK overdue \in SUBSET Jobs : overdue = Overdue(clock)
    BY DEF Overdue
<1>2. attempts' = [j \in Jobs |-> IF j \in overdue THEN EndActive(attempts[j], "canceled")
                                                   ELSE attempts[j]]
    BY <1>1 DEF TimeoutJobs
<1>3. "canceled" \in AttemptStates /\ "canceled" \notin ActiveAttemptStates
    BY DEF AttemptStates, ActiveAttemptStates
<1> QED
    BY <1>2, <1>3, EndingKeepsRows

LEMMA CompletionKeepsRows ==
    ASSUME TypeOK, NEW w, NEW j \in Jobs, NEW n, NEW st \in {"succeeded", "failed"},
           NEW outcome, CompleteAttempt(w, j, n, st, outcome, clock)
    PROVE  RowsKept
<1>1. /\ n \in DOMAIN attempts[j] /\ Active(attempts[j][n])
      /\ attempts' = [attempts EXCEPT ![j][n] = EndedAs(attempts[j][n], st)]
    BY DEF CompleteAttempt
<1>2. EndedAs(attempts[j][n], st).state = st /\ ~Active(EndedAs(attempts[j][n], st))
    BY DEF EndedAs, Active, ActiveAttemptStates
<1>3. ASSUME NEW k \in Jobs, NEW m \in DOMAIN attempts[k]
      PROVE  RowKept(k, m)
    <2>1. CASE k = j /\ m = n
        <3>1. attempts'[j][n] = EndedAs(attempts[j][n], st) /\ n \in DOMAIN attempts'[j]
            BY <1>1 DEF TypeOK
        <3> QED
            BY <1>1, <1>2, <2>1, <3>1 DEF RowKept
    <2>2. CASE ~(k = j /\ m = n)
        BY <1>1, <1>3, <2>2 DEF RowKept, TypeOK
    <2> QED
        BY <2>1, <2>2
<1> QED
    BY <1>3 DEF RowsKept

(* The clients and controllers of the server.                              *)
LEMMA OthersKeepRows ==
    ASSUME Consistent, Others
    PROVE  RowsKept
<1>1. TypeOK
    BY DEF Consistent
<1>2. CASE \E j \in Jobs : CreateJobRead(j) \/ CreateJobInsert(j)
    BY <1>2, SameRows DEF CreateJobRead, CreateJobInsert
<1>3. CASE \E j \in Jobs : CancelJob(j)
    BY <1>1, <1>3, CancelKeepsRows
<1> QED
    BY <1>1, <1>2, <1>3, ExpiryKeepsRows, TimeoutKeepsRows DEF Others, ClientNext

-----------------------------------------------------------------------------
(* One attempt, and a step that is about something else.                   *)

(* A job whose execution is to be canceled stays so.                       *)
LEMMA CancelStays ==
    ASSUME RuntimeInvariant, [RuntimeNext]_allVars, NEW j \in Jobs, ShouldCancel(j)
    PROVE  ShouldCancel(j)'
<1>1. Terminal(j)
    BY DEF ShouldCancel, Terminal, TerminalJobStates
<1>2. jobState'[j] = jobState[j]
    BY <1>1, StepIsStoreStep, StepKeepsFinished DEF RuntimeInvariant
<1> QED
    BY <1>2 DEF ShouldCancel

(* The step leaves the heartbeat and the times alone, ends no poll but by  *)
(* its answer, and of the attempt changes at most that it stops to run.    *)
Quiet(id) ==
    /\ clock' = clock /\ beat' = beat /\ beatAt' = beatAt /\ poll' \in {poll, 0}
    /\ Up => Up'
    /\ late'[id] = late[id]
    /\ task[id] = "none" => task'[id] = "none" /\ renewAt'[id] = renewAt[id]
    /\ task[id] # "none" => task'[id] # "none"
    /\ task'[id] = "running" => /\ task[id] = "running" /\ renewAt'[id] = renewAt[id]
                                /\ id \in released => id \in released'
    /\ lost' = 0 => lost = 0

(* A lease that is renewed on time has not run out.                        *)
LEMMA LeaseLasts ==
    ASSUME RuntimeInvariant, NEW id \in AttemptIDs, PollsAreShort,
           id[2] \in DOMAIN attempts[id[1]],
           RenewsOnTime(id), Leased(id), Active(AttemptOf(id))
    PROVE  clock < AttemptOf(id).expires
<1>1. AttemptOf(id).expires \in Nat /\ clock \in Nat /\ renewAt[id] \in Nat
    BY RuntimeTypes DEF AttemptOf
<1>2. /\ clock <= renewAt[id] + ClaimWait
      /\ renewAt[id] + LeaseDuration <= AttemptOf(id).expires + RenewEvery
    BY DEF RenewsOnTime, Leased
<1> QED
    BY <1>1, <1>2, Durations

LEMMA QuietStaysLeased ==
    ASSUME RuntimeInvariant, NEW id \in AttemptIDs, PollsAreShort,
           id[2] \in DOMAIN attempts[id[1]], RowKept(id[1], id[2]),
           RenewsOnTime(id), Leased(id), renewAt'[id] = renewAt[id]
    PROVE  Leased(id)'
<1>1. CASE AttemptOf(id)' = AttemptOf(id)
    BY <1>1 DEF Leased
<1>2. CASE Active(AttemptOf(id)) /\ ~Active(AttemptOf(id)')
    <2>1. clock < AttemptOf(id).expires /\ clock \in Nat /\ AttemptOf(id).expires \in Nat
        BY <1>2, LeaseLasts, RuntimeTypes DEF AttemptOf
    <2>2. AttemptOf(id)'.state = "lease_expired" => AttemptOf(id).expires <= clock
        BY <1>2 DEF RowKept, AttemptOf
    <2>3. AttemptOf(id)'.state # "lease_expired"
        BY <2>1, <2>2
    <2> QED
        BY <1>2, <2>3 DEF Leased, Active
<1> QED
    BY <1>1, <1>2 DEF RowKept, AttemptOf

LEMMA QuietKeeps ==
    ASSUME RuntimeInvariant, [RuntimeNext]_allVars, NEW id \in AttemptIDs, OnTime(id),
           id[2] \in DOMAIN attempts[id[1]] => RowKept(id[1], id[2]), Quiet(id)
    PROVE  OnTime(id)'
<1>1. Executing(id)'
    <2>1. id[2] \in DOMAIN attempts[id[1]] => id[2] \in DOMAIN attempts'[id[1]]
        BY DEF RowKept
    <2> QED
        BY <2>1 DEF OnTime, Executing, Quiet
<1>2. ASSUME lost' = 0
      PROVE  /\ late'[id] <= LongestDelay
             /\ task'[id] = "running" => RunsOn(id)'
    <2>1. /\ lost = 0 /\ late[id] <= LongestDelay /\ late'[id] = late[id]
          /\ task'[id] = "running" => task[id] = "running"
          /\ task[id] = "running" => RunsOn(id)
        BY <1>2 DEF Quiet, OnTime
    <2>2. ShouldCancel(id[1]) => ShouldCancel(id[1])'
        BY CancelStays, AttemptOfJob
    <2>3. RunsOn(id) => RunsOn(id)'
        BY <2>2 DEF Quiet, RunsOn
    <2> QED
        BY <2>1, <2>3
<1>3. ASSUME lost' = 0, PollsAreShort, task'[id] = "running"
      PROVE  RenewsOnTime(id)' /\ Leased(id)'
    <2>1. /\ lost = 0 /\ task[id] = "running" /\ renewAt'[id] = renewAt[id]
          /\ id[2] \in DOMAIN attempts[id[1]]
          /\ RenewsOnTime(id) /\ Leased(id)
        BY <1>3 DEF Quiet, OnTime, Executing
    <2>2. RenewsOnTime(id)'
        BY <1>3, <2>1 DEF Quiet, RenewsOnTime
    <2>3. Leased(id)'
        BY <1>3, <2>1, QuietStaysLeased
    <2> QED
        BY <2>2, <2>3
<1> QED
    BY <1>1, <1>2, <1>3 DEF OnTime

(* So it is for the loops, as long as the clock and the heartbeat stay.    *)
LEMMA QuietLoops ==
    ASSUME RuntimeInvariant, LoopTimes, clock' = clock, beat' = beat, beatAt' = beatAt,
           poll' \in {poll, 0}
    PROVE  LoopTimes'
<1>1. clock + ClaimWait \in Nat
    BY Durations DEF RuntimeInvariant, Consistent, TypeOK
<1> QED
    BY <1>1 DEF LoopTimes

LEMMA AllQuiet ==
    ASSUME RuntimeInvariant, TimingInvariant, [RuntimeNext]_allVars, RowsKept,
           UNCHANGED <<clock, beat, beatAt>>, poll' \in {poll, 0},
           \A id \in AttemptIDs : Quiet(id)
    PROVE  TimingInvariant'
<1>1. LoopTimes'
    BY QuietLoops DEF TimingInvariant
<1>2. ASSUME NEW id \in AttemptIDs PROVE OnTime(id)'
    BY QuietKeeps, AttemptOfJob DEF TimingInvariant, RowsKept
<1> QED
    BY <1>1, <1>2 DEF TimingInvariant

-----------------------------------------------------------------------------
(* The steps of a worker, action by action.                                *)

LEMMA CancelTasksIsQuiet ==
    ASSUME RuntimeInvariant, TimingInvariant, NEW ids, CancelTasks(ids),
           UNCHANGED <<vars, poll, beat, released, beatAt, late, lost>>, Up => Up',
           NEW id \in AttemptIDs
    PROVE  Quiet(id)
<1>1. Executing(id)
    BY DEF TimingInvariant, OnTime
<1>2. /\ task'[id] = IF id \in ids /\ task[id] = "running" THEN "canceled" ELSE task[id]
      /\ renewAt'[id] = IF id \in ids THEN 0 ELSE renewAt[id]
    BY DEF CancelTasks
<1> QED
    BY <1>1, <1>2 DEF Executing, Quiet, vars

LEMMA OutsideOnTime ==
    ASSUME RuntimeInvariant, TimingInvariant, Others \/ UNCHANGED allVars
    PROVE  TimingInvariant'
<1>1. UNCHANGED <<clock, local, lost>>
    BY DEF Others, ClientNext, CreateJobRead, CreateJobInsert, CancelJob,
           ExpireLeases, expireLeases, TimeoutJobs, allVars, vars
<1>2. RowsKept
    BY OthersKeepRows, SameRows DEF RuntimeInvariant, allVars, vars
<1>3. \A id \in AttemptIDs : Quiet(id)
    BY <1>1 DEF Quiet, local, Up
<1>4. UNCHANGED <<clock, beat, beatAt>> /\ poll' \in {poll, 0}
    BY <1>1 DEF local
<1>5. [RuntimeNext]_allVars
    BY DEF RuntimeNext
<1> QED
    BY <1>2, <1>3, <1>4, <1>5, AllQuiet

LEMMA ShutdownOnTime ==
    ASSUME RuntimeInvariant, TimingInvariant, Shutdown \/ CancelAll
    PROVE  TimingInvariant'
<1>1. UNCHANGED <<vars, poll, beat, released, beatAt, late, lost>> /\ (Up => Up')
    BY DEF Shutdown, CancelAll, Up
<1>2. \A id \in AttemptIDs : Quiet(id)
    <2>1. CASE Shutdown
        BY <1>1, <2>1 DEF Shutdown, Quiet, vars
    <2>2. CASE CancelAll
        BY <1>1, <2>2, CancelTasksIsQuiet DEF CancelAll
    <2> QED
        BY <2>1, <2>2
<1>3. RowsKept
    BY <1>1, SameRows DEF vars
<1>4. UNCHANGED <<clock, beat, beatAt>> /\ poll' \in {poll, 0}
    BY <1>1 DEF vars
<1>5. [RuntimeNext]_allVars
    BY DEF RuntimeNext
<1> QED
    BY <1>2, <1>3, <1>4, <1>5, AllQuiet

LEMMA DeadlineOnTime ==
    ASSUME RuntimeInvariant, TimingInvariant, NEW id \in AttemptIDs, DeadlinePasses(id)
    PROVE  TimingInvariant'
<1>1. UNCHANGED <<vars, poll, beat, released, beatAt, late, lost>> /\ (Up => Up')
    BY DEF DeadlinePasses, Up
<1>2. \A k \in AttemptIDs : Quiet(k)
    BY <1>1, CancelTasksIsQuiet DEF DeadlinePasses
<1>3. RowsKept
    BY <1>1, SameRows DEF vars
<1>4. UNCHANGED <<clock, beat, beatAt>> /\ poll' \in {poll, 0}
    BY <1>1 DEF vars
<1>5. [RuntimeNext]_allVars
    BY DEF RuntimeNext, Execution
<1> QED
    BY <1>2, <1>3, <1>4, <1>5, AllQuiet

LEMMA ClaimEmptyOnTime ==
    ASSUME RuntimeInvariant, TimingInvariant, ClaimEmpty
    PROVE  TimingInvariant'
<1>1. /\ UNCHANGED <<vars, task, renewAt, beat, released, beatAt, late, lost>>
      /\ poll' = 0 /\ (Up => Up')
    BY DEF ClaimEmpty, ClaimOver, Up
<1>2. \A id \in AttemptIDs : Quiet(id)
    BY <1>1 DEF Quiet, vars
<1>3. RowsKept
    BY <1>1, SameRows DEF vars
<1>4. UNCHANGED <<clock, beat, beatAt>> /\ poll' \in {poll, 0}
    BY <1>1 DEF vars
<1>5. [RuntimeNext]_allVars
    BY DEF RuntimeNext
<1> QED
    BY <1>2, <1>3, <1>4, <1>5, AllQuiet

(* The calls of an execution that report on it.                            *)
LEMMA ReportKeepsRows ==
    ASSUME RuntimeInvariant, NEW id \in AttemptIDs,
           Executed(id) \/ SaveCall(id) \/ CompleteCall(id) \/ FailCall(id)
    PROVE  RowsKept /\ clock' = clock
<1>1. TypeOK /\ id[1] \in Jobs
    BY AttemptOfJob DEF RuntimeInvariant, Consistent
<1>2. \/ UNCHANGED vars
      \/ SaveResult(Self, id[1], id[2])
      \/ Complete(Self, id[1], id[2], clock)
      \/ \E retryable \in BOOLEAN : Fail(Self, id[1], id[2], retryable, clock)
    BY Zenon DEF Executed, SaveCall, CompleteCall, FailCall, Call
<1>3. CASE UNCHANGED vars \/ SaveResult(Self, id[1], id[2])
    BY <1>3, SameRows DEF SaveResult, vars
<1>4. CASE \/ Complete(Self, id[1], id[2], clock)
           \/ \E retryable \in BOOLEAN : Fail(Self, id[1], id[2], retryable, clock)
    <2>1. PICK st \in {"succeeded", "failed"} :
              \E outcome : CompleteAttempt(Self, id[1], id[2], st, outcome, clock)
        BY <1>4 DEF Complete, Fail
    <2>2. PICK outcome : CompleteAttempt(Self, id[1], id[2], st, outcome, clock)
        BY <2>1
    <2>3. RowsKept
        BY <1>1, <2>2, CompletionKeepsRows
    <2> QED
        BY <2>2, <2>3 DEF CompleteAttempt
<1> QED
    BY <1>2, <1>3, <1>4

LEMMA ReportOnTime ==
    ASSUME RuntimeInvariant, TimingInvariant, NEW id \in AttemptIDs,
           Executed(id) \/ SaveCall(id) \/ CompleteCall(id) \/ FailCall(id)
    PROVE  TimingInvariant'
<1>1. RowsKept /\ clock' = clock
    BY ReportKeepsRows
<1>2. /\ UNCHANGED <<phase, renewAt, poll, beat, beatAt, late>>
      /\ released \ {id} \subseteq released'
      /\ task[id] # "none"
    BY DEF Executed, SaveCall, CompleteCall, FailCall, ReportStep, TaskStep, At
<1>3. PICK to \in {"saving", "saved", "failing", "reported"} : Moves(id, to)
    BY Zenon DEF Executed, SaveCall, CompleteCall, FailCall, Call
<1>4. lost' = 0 => lost = 0
    <2>1. UNCHANGED lost \/ lost' = lost + 1
        BY Zenon DEF Executed, SaveCall, CompleteCall, FailCall, Call
    <2> QED
        BY <2>1, RuntimeTypes
<1>5. ASSUME NEW k \in AttemptIDs PROVE Quiet(k)
    <2>1. task'[k] = IF k = id THEN to ELSE task[k]
        BY <1>3, RuntimeTypes DEF Moves
    <2> QED
        BY <1>1, <1>2, <1>4, <2>1 DEF Quiet, Up
<1>6. UNCHANGED <<clock, beat, beatAt>> /\ poll' \in {poll, 0}
    BY <1>1, <1>2
<1>7. [RuntimeNext]_allVars
    BY DEF RuntimeNext, Execution
<1> QED
    BY <1>1, <1>5, <1>6, <1>7, AllQuiet

(* The attempt leaves the map, and takes its timers along.                 *)
LEMMA ReturnedOnTime ==
    ASSUME RuntimeInvariant, TimingInvariant, NEW id \in AttemptIDs, Returned(id)
    PROVE  TimingInvariant'
<1>1. /\ UNCHANGED <<vars, phase, poll, beat, released, beatAt, lost>>
      /\ \A k \in AttemptIDs :
            /\ task'[k] = IF k = id THEN "none" ELSE task[k]
            /\ renewAt'[k] = IF k = id THEN 0 ELSE renewAt[k]
            /\ late'[k] = IF k = id THEN 0 ELSE late[k]
    BY RuntimeTypes DEF Returned, Moves
<1>2. RowsKept
    BY <1>1, SameRows DEF vars
<1>3. [RuntimeNext]_allVars
    BY DEF RuntimeNext, Execution
<1>4. LoopTimes'
    BY <1>1, QuietLoops DEF TimingInvariant, vars
<1>5. ASSUME NEW k \in AttemptIDs PROVE OnTime(k)'
    <2>1. CASE k = id
        BY <1>1, <2>1, Durations DEF OnTime, Executing
    <2>2. CASE k # id
        <3>1. Quiet(k)
            BY <1>1, <2>2 DEF Quiet, Up, vars
        <3> QED
            BY <1>2, <1>3, <3>1, QuietKeeps, AttemptOfJob DEF TimingInvariant, RowsKept
    <2> QED
        BY <2>1, <2>2
<1> QED
    BY <1>4, <1>5 DEF TimingInvariant

(* The worker is gone: nothing is executed.                                *)
LEMMA LeavesOnTime ==
    ASSUME RuntimeInvariant, TimingInvariant, Exit \/ Kill
    PROVE  TimingInvariant'
<1>1. Leaves /\ clock' = clock
    BY DEF Exit, Kill, Heartbeat, vars
<1>2. LoopTimes'
    <2>1. clock \in Nat
        BY DEF RuntimeInvariant, Consistent, TypeOK
    <2> QED
        BY <1>1, <2>1, Durations DEF Leaves, LoopTimes, NoBeat
<1>3. ASSUME NEW id \in AttemptIDs PROVE OnTime(id)'
    BY <1>1, Durations DEF Leaves, OnTime, Executing
<1> QED
    BY <1>2, <1>3 DEF TimingInvariant

(* A poll begins only when no heartbeat waits.                             *)
LEMMA ClaimStartOnTime ==
    ASSUME RuntimeInvariant, TimingInvariant, ClaimStart
    PROVE  TimingInvariant'
<1>1. /\ UNCHANGED <<vars, phase, task, renewAt, beat, released, beatAt, late, lost>>
      /\ beat.at # "locking" /\ poll' = clock + ClaimWait
    BY DEF ClaimStart, MayCall
<1>2. LoopTimes'
    BY <1>1 DEF LoopTimes, TimingInvariant, vars
<1>3. ASSUME NEW id \in AttemptIDs PROVE OnTime(id)'
    <2>1. OnTime(id)
        BY DEF TimingInvariant
    <2> QED
        BY <1>1, <2>1 DEF OnTime, Executing, RunsOn, RenewsOnTime, Leased, Up,
                          ShouldCancel, AttemptOf, vars
<1> QED
    BY <1>2, <1>3 DEF TimingInvariant

(* The attempt that is claimed has a fresh lease and a renewal to come.    *)
LEMMA ClaimGrantedOnTime ==
    ASSUME RuntimeInvariant, TimingInvariant, NEW j \in Jobs, ClaimGranted(j)
    PROVE  TimingInvariant'
<1>1. Consistent /\ clock \in Nat
    BY DEF RuntimeInvariant, Consistent, TypeOK
<1>2. PICK id : id = <<j, Len(attempts[j]) + 1>>
    OBVIOUS
<1>3. /\ Up /\ ClaimNextJob(Self, j, clock) /\ clock' = clock
      /\ poll' = 0 /\ UNCHANGED <<beat, released, beatAt, late>> /\ Up'
    BY DEF ClaimGranted, ClaimOver, ClaimNextJob, Up
<1>4. id \in AttemptIDs /\ id[1] = j /\ id[2] = Len(attempts[j]) + 1 /\ Len(attempts[j]) \in Nat
    BY <1>1, <1>2, <1>3, ClaimedIsAttempt, LenProperties DEF Consistent, TypeOK
<1>5. /\ RowsKept
      /\ DOMAIN attempts'[j] = 1 .. (Len(attempts[j]) + 1)
      /\ attempts'[j][Len(attempts[j]) + 1] = NewAttempt(Self, clock)
    BY <1>1, <1>3, ClaimKeepsRows
<1>6. \/ /\ task' = [task EXCEPT ![id] = "running"]
         /\ renewAt' = [renewAt EXCEPT ![id] = clock + RenewEvery]
         /\ UNCHANGED lost
      \/ UNCHANGED <<task, renewAt, lost>>
      \/ lost' = lost + 1 /\ UNCHANGED <<task, renewAt>>
    BY <1>2 DEF ClaimGranted
<1>7. [RuntimeNext]_allVars
    BY DEF RuntimeNext
<1>8. LoopTimes'
    BY <1>3, QuietLoops DEF TimingInvariant
<1>9. lost \in Nat /\ (lost' = 0 => lost = 0)
    BY <1>6, <1>4, RuntimeTypes
<1>10. ASSUME NEW k \in AttemptIDs, k # id \/ UNCHANGED <<task, renewAt>>
       PROVE  OnTime(k)'
    <2>1. task'[k] = task[k] /\ renewAt'[k] = renewAt[k]
        BY <1>4, <1>6, <1>10, RuntimeTypes
    <2>2. Quiet(k)
        BY <1>3, <1>9, <2>1 DEF Quiet
    <2> QED
        BY <1>5, <1>7, <2>2, QuietKeeps, AttemptOfJob DEF TimingInvariant, RowsKept
<1>11. ASSUME task' = [task EXCEPT ![id] = "running"],
              renewAt' = [renewAt EXCEPT ![id] = clock + RenewEvery], UNCHANGED lost
       PROVE  OnTime(id)'
    <2>1. task'[id] = "running" /\ renewAt'[id] = clock + RenewEvery
        BY <1>4, <1>11, RuntimeTypes
    <2>2. late'[id] = 0 /\ Executing(id)'
        <3>1. Executing(id)
            BY <1>4 DEF TimingInvariant, OnTime
        <3>2. DOMAIN attempts[j] = 1 .. Len(attempts[j])
            BY <1>1, NumbersOfAttempts DEF Consistent
        <3>3. task[id] = "none"
            BY <1>4, <3>1, <3>2 DEF Executing
        <3>4. late'[id] = 0
            BY <1>3, <3>1, <3>3 DEF Executing
        <3>5. id[2] \in DOMAIN attempts'[id[1]]
            BY <1>4, <1>5
        <3> QED
            BY <1>3, <2>1, <3>4, <3>5 DEF Executing
    <2>3. AttemptOf(id)' = NewAttempt(Self, clock)
        BY <1>4, <1>5 DEF AttemptOf
    <2>4. Leased(id)' /\ RenewsOnTime(id)'
        <3>1. AttemptOf(id)'.state = "leased" /\ AttemptOf(id)'.expires = clock + LeaseDuration
            BY <2>3 DEF NewAttempt
        <3> QED
            BY <1>1, <1>3, <2>1, <3>1, Durations DEF Leased, RenewsOnTime
    <2>5. RunsOn(id)'
        <3>1. beatAt' \in Nat /\ clock' \in Nat
            BY <1>1, <1>3, <1>4, RuntimeTypes
        <3> QED
            BY <1>3, <1>8, <2>2, <3>1, Durations DEF RunsOn, LoopTimes
    <2> QED
        BY <2>2, <2>4, <2>5, Durations DEF OnTime
<1> QED
    BY <1>6, <1>8, <1>10, <1>11 DEF TimingInvariant

(* A renewal finds its lease alive, and gains a lease that outlasts the    *)
(* next one.                                                               *)
LEMMA RenewCallRows ==
    ASSUME RuntimeInvariant, NEW id \in AttemptIDs, RenewCall(id)
    PROVE  /\ UNCHANGED <<clock, jobState>>
           /\ \A k \in AttemptIDs : k[2] \in DOMAIN attempts[k[1]] =>
                 /\ k[2] \in DOMAIN attempts'[k[1]]
                 /\ k # id => attempts'[k[1]][k[2]] = attempts[k[1]][k[2]]
<1>1. UNCHANGED vars \/ RenewLease(Self, id[1], id[2], clock + LeaseDuration)
    BY DEF RenewCall, Call
<1>2. CASE UNCHANGED vars
    BY <1>2 DEF vars
<1>3. CASE RenewLease(Self, id[1], id[2], clock + LeaseDuration)
    <2>1. /\ UNCHANGED <<clock, jobState>> /\ id[1] \in Jobs
          /\ attempts' = [attempts EXCEPT ![id[1]][id[2]].expires = clock + LeaseDuration]
        BY <1>3, AttemptOfJob DEF RenewLease
    <2>2. ASSUME NEW k \in AttemptIDs, k[2] \in DOMAIN attempts[k[1]]
          PROVE  /\ k[2] \in DOMAIN attempts'[k[1]]
                 /\ k # id => attempts'[k[1]][k[2]] = attempts[k[1]][k[2]]
        <3>1. k[1] \in Jobs /\ (k # id => k[1] # id[1] \/ k[2] # id[2])
            BY AttemptOfJob DEF AttemptIDs
        <3> QED
            BY <2>1, <2>2, <3>1, RuntimeTypes
    <2> QED
        BY <2>1, <2>2
<1> QED
    BY <1>1, <1>2, <1>3

LEMMA RenewCallOnTime ==
    ASSUME RuntimeInvariant, TimingInvariant, NEW id \in AttemptIDs, RenewCall(id)
    PROVE  TimingInvariant'
<1>1. /\ UNCHANGED <<clock, jobState>>
      /\ \A k \in AttemptIDs : k[2] \in DOMAIN attempts[k[1]] =>
            /\ k[2] \in DOMAIN attempts'[k[1]]
            /\ k # id => attempts'[k[1]][k[2]] = attempts[k[1]][k[2]]
    BY RenewCallRows
<1>2. /\ Up /\ beat.at # "locking" /\ renewAt[id] # 0 /\ renewAt[id] <= clock
      /\ released' = released \ {id}
      /\ UNCHANGED <<phase, task, poll, beat, beatAt, late>>
    BY DEF RenewCall, MayCall, RenewDue
<1>3. \/ /\ LeaseHolds(id) /\ RenewLease(Self, id[1], id[2], clock + LeaseDuration)
         /\ renewAt' = [renewAt EXCEPT ![id] = @ + RenewEvery] /\ UNCHANGED lost
      \/ /\ ~LeaseHolds(id) /\ UNCHANGED vars
         /\ renewAt' = [renewAt EXCEPT ![id] = 0] /\ UNCHANGED lost
      \/ /\ lost' = lost + 1 /\ renewAt' = [renewAt EXCEPT ![id] = 0]
    BY Zenon DEF RenewCall, Call
<1>4. lost' = 0 => lost = 0 /\ UNCHANGED lost
    BY <1>3, RuntimeTypes
<1>5. [RuntimeNext]_allVars
    BY DEF RuntimeNext, Execution
<1>6. LoopTimes'
    BY <1>1, <1>2, QuietLoops DEF TimingInvariant
<1>7. ASSUME NEW k \in AttemptIDs, k # id PROVE OnTime(k)'
    <2>1. renewAt'[k] = renewAt[k]
        BY <1>3, <1>7, RuntimeTypes
    <2>2. Quiet(k)
        BY <1>1, <1>2, <1>4, <1>7, <2>1 DEF Quiet, Up
    <2>3. k[2] \in DOMAIN attempts[k[1]] => RowKept(k[1], k[2])
        BY <1>1, <1>7 DEF RowKept
    <2> QED
        BY <1>5, <2>2, <2>3, QuietKeeps DEF TimingInvariant
<1>8. OnTime(id)'
    <2>1. OnTime(id) /\ Executing(id) /\ task[id] # "none" /\ id[2] \in DOMAIN attempts[id[1]]
        BY <1>2 DEF TimingInvariant, OnTime, Executing
    <2>2. Executing(id)'
        <3>1. id[2] \in DOMAIN attempts'[id[1]]
            BY <1>1, <2>1
        <3>2. Up' /\ task'[id] # "none"
            BY <1>2, <2>1 DEF Up
        <3> QED
            BY <3>1, <3>2, Zenon DEF Executing
    <2>3. RunsOn(id) => RunsOn(id)'
        <3>1. UNCHANGED <<clock, jobState, poll, beat, beatAt, late>>
            BY <1>1, <1>2
        <3> QED
            BY <3>1 DEF RunsOn, ShouldCancel
    <2>4. ASSUME lost' = 0, PollsAreShort, task'[id] = "running"
          PROVE  RenewsOnTime(id)' /\ Leased(id)'
        <3>1. RenewsOnTime(id) /\ Leased(id)
            BY <1>2, <1>4, <2>1, <2>4 DEF OnTime
        <3>2. CASE /\ LeaseHolds(id) /\ RenewLease(Self, id[1], id[2], clock + LeaseDuration)
                   /\ renewAt' = [renewAt EXCEPT ![id] = @ + RenewEvery]
            <4>1. renewAt'[id] = renewAt[id] + RenewEvery
                BY <3>2, RuntimeTypes
            <4>2. /\ AttemptOf(id)'.state = AttemptOf(id).state
                  /\ AttemptOf(id)'.expires = clock + LeaseDuration
                <5>1. attempts' = [attempts EXCEPT ![id[1]][id[2]].expires = clock + LeaseDuration]
                    BY <3>2 DEF RenewLease
                <5>2. AttemptOf(id) \in Attempts
                    BY <2>1, RuntimeTypes DEF AttemptOf
                <5> QED
                    BY <2>1, <5>1, <5>2, RuntimeTypes DEF AttemptOf, Attempts
            <4>3. Leased(id)'
                <5>1. renewAt'[id] # 0 /\ renewAt'[id] + LeaseDuration <=
                                             clock + LeaseDuration + RenewEvery
                    BY <1>2, <4>1, Durations, RuntimeTypes
                <5>2. AttemptOf(id)'.state # "lease_expired"
                    BY <3>1, <4>2 DEF Leased
                <5> QED
                    BY <4>2, <5>1, <5>2 DEF Leased
            <4>4. RenewsOnTime(id)'
                <5>1. clock <= renewAt[id] + ClaimWait
                    BY <1>2, <3>1 DEF RenewsOnTime
                <5>2. clock <= renewAt'[id] /\ clock <= renewAt'[id] + ClaimWait
                    BY <2>4, <4>1, <5>1, Durations, RuntimeTypes
                <5>3. renewAt'[id] \in Nat /\ clock \in Nat
                    BY <4>1, Durations, RuntimeTypes
                <5>4. ~(renewAt'[id] < clock)
                    BY <5>2, <5>3
                <5> QED
                    BY <1>1, <1>2, <5>2, <5>4 DEF RenewsOnTime
            <4> QED
                BY <4>3, <4>4
        <3>3. CASE /\ ~LeaseHolds(id) /\ UNCHANGED vars
                   /\ renewAt' = [renewAt EXCEPT ![id] = 0]
            <4>1. renewAt'[id] = 0 /\ AttemptOf(id)' = AttemptOf(id)
                BY <3>3, RuntimeTypes DEF AttemptOf, vars
            <4>2. Active(AttemptOf(id)) => LeaseHolds(id)
                <5>1. Active(AttemptOf(id)) => clock < AttemptOf(id).expires
                    BY <2>1, <2>4, <3>1, LeaseLasts
                <5>2. clock \in Nat /\ AttemptOf(id).expires \in Nat
                    BY <2>1, RuntimeTypes DEF AttemptOf
                <5> QED
                    BY <5>1, <5>2 DEF LeaseHolds
            <4> QED
                BY <3>1, <3>3, <4>1, <4>2 DEF Leased, RenewsOnTime
        <3>4. lost' # lost + 1
            BY <1>4, <2>4
        <3> QED
            BY <1>3, <3>2, <3>3, <3>4
    <2> QED
        BY <1>2, <1>4, <2>1, <2>2, <2>3, <2>4 DEF OnTime
<1> QED
    BY <1>6, <1>7, <1>8 DEF TimingInvariant

(* A heartbeat begins: the calls the last one kept waiting are made.       *)
LEMMA BeatStartOnTime ==
    ASSUME RuntimeInvariant, TimingInvariant, BeatStart
    PROVE  TimingInvariant'
<1>1. /\ UNCHANGED <<vars, phase, task, renewAt, poll, released, beatAt, late, lost>>
      /\ Up /\ beat.at = "none" /\ beatAt <= clock
      /\ \A id \in released : ~HasCall(id)
      /\ beat'.at = "slots" /\ beat'.ids = ActiveIDs
    BY DEF BeatStart
<1>2. UNCHANGED <<clock, attempts, jobState>>
    BY <1>1 DEF vars
<1>3. LoopTimes'
    BY <1>1, <1>2 DEF LoopTimes, TimingInvariant
<1>4. ASSUME NEW id \in AttemptIDs PROVE OnTime(id)'
    <2>1. OnTime(id)
        BY DEF TimingInvariant
    <2>2. Executing(id)'
        BY <1>1, <1>2, <2>1 DEF OnTime, Executing, Up
    <2>3. ASSUME task[id] = "running", RunsOn(id) PROVE RunsOn(id)'
        <3>1. id \in beat'.ids
            BY <1>1, <2>3 DEF ActiveIDs
        <3> QED
            BY <1>1, <1>2, <2>3, <3>1 DEF RunsOn, ShouldCancel
    <2>4. RenewsOnTime(id) => RenewsOnTime(id)'
        <3>1. ~(renewAt[id] # 0 /\ renewAt[id] < clock /\ id \in released)
            BY <1>1, RuntimeTypes DEF HasCall, RenewDue
        <3> QED
            BY <1>1, <1>2, <3>1 DEF RenewsOnTime
    <2>5. Leased(id) => Leased(id)'
        BY <1>1, <1>2 DEF Leased, AttemptOf
    <2> QED
        BY <1>1, <2>1, <2>2, <2>3, <2>4, <2>5 DEF OnTime
<1> QED
    BY <1>3, <1>4 DEF TimingInvariant

(* A heartbeat waits for the lock: no longer than the poll under way.      *)
LEMMA BeatSlotsOnTime ==
    ASSUME RuntimeInvariant, TimingInvariant, BeatSlots
    PROVE  TimingInvariant'
<1>1. /\ UNCHANGED <<vars, phase, task, renewAt, poll, beatAt, late, lost>>
      /\ Up /\ beat.at = "slots"
      /\ beat'.at = "locking" /\ beat'.ids = beat.ids
    <2>1. beat \in [at : {"none", "slots", "locking"}, ids : SUBSET AttemptIDs,
                    free : 0 .. MaxConcurrency[Self]]
        BY DEF RuntimeInvariant, RuntimeTypeOK
    <2>2. beat' = [beat EXCEPT !.at = "locking", !.free = FreeSlots]
        BY DEF BeatSlots
    <2>3. beat'.at = "locking" /\ beat'.ids = beat.ids
        BY <2>1, <2>2
    <2> QED
        BY <2>3 DEF BeatSlots
<1>2. UNCHANGED <<clock, attempts, jobState>>
    BY <1>1 DEF vars
<1>3. poll <= clock + ClaimWait /\ beatAt <= clock
    BY <1>1 DEF TimingInvariant, LoopTimes
<1>4. LoopTimes'
    BY <1>1, <1>2 DEF LoopTimes, TimingInvariant
<1>5. ASSUME NEW id \in AttemptIDs PROVE OnTime(id)'
    <2>1. OnTime(id)
        BY DEF TimingInvariant
    <2>2. Executing(id)'
        BY <1>1, <1>2, <2>1 DEF OnTime, Executing, Up
    <2>3. ASSUME RunsOn(id) PROVE RunsOn(id)'
        <3>1. /\ ~ShouldCancel(id[1]) => late[id] = 0
              /\ late[id] <= BeatGap /\ (id \in beat.ids \/ late[id] = 0)
            BY <1>1, <2>3 DEF RunsOn
        <3>2. /\ late[id] + poll <= clock + LongestDelay
              /\ late[id] = 0 => /\ late[id] <= ClaimWait /\ late[id] + beatAt <= clock
                                 /\ late[id] + poll <= clock + ClaimWait
            BY <1>3, <3>1, RuntimeTypes, Durations
        <3> QED
            BY <1>1, <1>2, <3>1, <3>2 DEF RunsOn, ShouldCancel
    <2>4. ASSUME RenewsOnTime(id) PROVE RenewsOnTime(id)'
        <3>1. renewAt[id] # 0 =>
                 clock <= renewAt[id] + ClaimWait /\ poll <= renewAt[id] + ClaimWait
            BY <1>1, <1>3, <2>4, RuntimeTypes, Durations DEF RenewsOnTime
        <3> QED
            BY <1>1, <1>2, <3>1 DEF RenewsOnTime
    <2>5. Leased(id) => Leased(id)'
        BY <1>1, <1>2 DEF Leased, AttemptOf
    <2> QED
        BY <1>1, <2>1, <2>2, <2>3, <2>4, <2>5 DEF OnTime
<1> QED
    BY <1>4, <1>5 DEF TimingInvariant

(* A job whose executor must stop has no active attempt, so the answer to  *)
(* a heartbeat that knows of the attempt names it.                         *)
LEMMA EndedIsTold ==
    ASSUME RuntimeInvariant, NEW id \in beat.ids, id \in AttemptIDs,
           id[2] \in DOMAIN attempts[id[1]], ShouldCancel(id[1])
    PROVE  id \in Told(beat.ids)
<1>1. id[1] \in Jobs /\ LeaseDiscipline
    BY AttemptOfJob DEF RuntimeInvariant, Consistent
<1>2. jobState[id[1]] # "leased"
    BY DEF ShouldCancel
<1>3. ~Active(AttemptOf(id))
    BY <1>1, <1>2 DEF LeaseDiscipline, AttemptOf
<1> QED
    BY <1>3 DEF Told, Ended

LEMMA BeatCallOnTime ==
    ASSUME RuntimeInvariant, TimingInvariant, BeatCall
    PROVE  TimingInvariant'
<1>1. /\ Up /\ beat.at = "locking" /\ poll = 0 /\ beat'.at = "none"
      /\ released' = {id \in AttemptIDs : HasCall(id)}
      /\ UNCHANGED <<phase, poll, clock, attempts, jobState>>
    BY Zenon DEF BeatCall, Call, NoBeat, Heartbeat, vars
<1>2. \/ /\ ~Refused(beat.ids) /\ beatAt' = beatAt + HeartbeatEvery
         /\ CancelTasks(Told(beat.ids)) /\ late' = late /\ UNCHANGED lost
      \/ /\ Refused(beat.ids) /\ beatAt' = clock + 1 /\ UNCHANGED <<task, renewAt>>
         /\ late' = [id \in AttemptIDs |-> 0] /\ UNCHANGED lost
      \/ /\ lost' = lost + 1 /\ beatAt' = clock + 1 /\ UNCHANGED <<task, renewAt>>
         /\ (late' = late \/ late' = [id \in AttemptIDs |-> 0])
    BY Zenon DEF BeatCall, Call
<1>3. beatAt <= clock
    BY <1>1 DEF TimingInvariant, LoopTimes
<1>4. LoopTimes'
    <2>1. beatAt' <= clock + HeartbeatEvery
        BY <1>2, <1>3, Durations DEF RuntimeInvariant, RuntimeTypeOK, Consistent, TypeOK
    <2> QED
        BY <1>1, <2>1 DEF TimingInvariant, LoopTimes
<1>5. ASSUME NEW id \in AttemptIDs PROVE OnTime(id)'
    <2>1. OnTime(id) /\ Executing(id)
        BY DEF TimingInvariant, OnTime
    <2>2. /\ late'[id] \in {0, late[id]} /\ renewAt'[id] \in {0, renewAt[id]}
          /\ task'[id] = task[id] \/ (task[id] = "running" /\ task'[id] = "canceled")
          /\ task'[id] = "running" => renewAt'[id] = renewAt[id]
        BY <1>2 DEF CancelTasks
    <2>3. Executing(id)'
        BY <1>1, <2>1, <2>2 DEF Executing, Up
    <2>4. ASSUME lost' = 0
          PROVE  lost = 0 /\ late'[id] <= LongestDelay
        <3>1. lost = 0 /\ UNCHANGED lost
            BY <1>2, <2>4, RuntimeTypes
        <3>2. late[id] <= LongestDelay
            BY <2>1, <3>1 DEF OnTime
        <3>3. LongestDelay \in Nat
            BY Durations
        <3> QED
            BY <2>2, <3>1, <3>2, <3>3
    <2>5. ASSUME lost' = 0, task'[id] = "running"
          PROVE  task[id] = "running" /\ RunsOn(id)'
        <3>1. task[id] = "running" /\ RunsOn(id)
            BY <2>1, <2>2, <2>4, <2>5 DEF OnTime
        <3>2. /\ ~ShouldCancel(id[1]) => late'[id] = 0
              /\ late'[id] <= BeatGap /\ late'[id] + beatAt' <= clock + BeatGap
            <4>1. CASE Refused(beat.ids) /\ UNCHANGED lost
                <5>1. late'[id] = 0 /\ beatAt' = clock + 1
                    BY <1>2, <4>1, RuntimeTypes
                <5> QED
                    BY <5>1, RuntimeTypes, Durations
            <4>2. CASE ~Refused(beat.ids) /\ UNCHANGED lost
                <5>1. /\ late'[id] = late[id] /\ beatAt' = beatAt + HeartbeatEvery
                      /\ id \notin Told(beat.ids)
                    BY <1>2, <2>5, <3>1, <4>2, RuntimeTypes DEF CancelTasks
                <5>2. id \in beat.ids => late[id] = 0
                    <6>1. id[2] \in DOMAIN attempts[id[1]]
                        BY <2>1, <3>1 DEF Executing
                    <6> QED
                        BY <3>1, <5>1, <6>1, EndedIsTold DEF RunsOn
                <5>3. id \notin beat.ids => late[id] <= ClaimWait /\ late[id] + beatAt <= clock
                    BY <1>1, <3>1 DEF RunsOn
                <5>4. ~ShouldCancel(id[1]) => late[id] = 0
                    BY <3>1 DEF RunsOn
                <5> QED
                    BY <1>3, <5>1, <5>2, <5>3, <5>4, RuntimeTypes, Durations
            <4>3. UNCHANGED lost
                BY <1>2, <2>4, <2>5
            <4> QED
                BY <4>1, <4>2, <4>3
        <3> QED
            BY <1>1, <3>1, <3>2 DEF RunsOn, ShouldCancel
    <2>6. ASSUME lost' = 0, PollsAreShort, task'[id] = "running"
          PROVE  RenewsOnTime(id)' /\ Leased(id)'
        <3>1. RenewsOnTime(id) /\ Leased(id) /\ renewAt'[id] = renewAt[id]
            BY <2>1, <2>2, <2>4, <2>5, <2>6 DEF OnTime
        <3>2. Leased(id)'
            <4>1. AttemptOf(id)' = AttemptOf(id)
                BY <1>1 DEF AttemptOf
            <4> QED
                BY <3>1, <4>1 DEF Leased
        <3>3. renewAt[id] # 0 /\ renewAt[id] < clock => id \in released'
            BY <1>1, RuntimeTypes DEF HasCall, RenewDue
        <3>4. RenewsOnTime(id)'
            BY <1>1, <3>1, <3>3 DEF RenewsOnTime
        <3> QED
            BY <3>2, <3>4
    <2> QED
        BY <2>3, <2>4, <2>5, <2>6 DEF OnTime
<1> QED
    BY <1>4, <1>5 DEF TimingInvariant

(* Time waits for what is due, so no delay grows beyond its bound.         *)
LEMMA TimePassesOnTime ==
    ASSUME RuntimeInvariant, TimingInvariant, TimePasses
    PROVE  TimingInvariant'
<1>1. /\ clock' = clock + 1 /\ ~Due
      /\ UNCHANGED <<attempts, jobState, phase, task, renewAt, poll, beat, released,
                     beatAt, lost>>
      /\ late' = [id \in AttemptIDs |-> IF task[id] = "running" /\ ShouldCancel(id[1])
                                        THEN late[id] + 1 ELSE late[id]]
    BY Zenon DEF TimePasses, Tick
<1>2. /\ clock \in Nat /\ poll \in Nat /\ beatAt \in Nat
      /\ beat.at \in {"none", "slots", "locking"}
    BY DEF RuntimeInvariant, RuntimeTypeOK, Consistent, TypeOK
<1>3. /\ beat.at # "slots"
      /\ beat.at = "locking" => poll # 0 /\ clock < poll
      /\ Up /\ beat.at = "none" => clock < beatAt
      /\ \A id \in ActiveIDs : Up /\ beat.at = "none" => ~HasCall(id)
    BY <1>1, <1>2 DEF Due, MayCall
<1>4. LoopTimes'
    BY <1>1, <1>2, Durations DEF LoopTimes, TimingInvariant
<1>5. ASSUME NEW id \in AttemptIDs PROVE OnTime(id)'
    <2>1. OnTime(id) /\ Executing(id)
        BY DEF TimingInvariant, OnTime
    <2>2. /\ late'[id] = IF task[id] = "running" /\ ShouldCancel(id[1])
                         THEN late[id] + 1 ELSE late[id]
          /\ UNCHANGED <<task, renewAt, phase, attempts, lost>>
        BY <1>1, Zenon
    <2>3. Executing(id)'
        BY <2>1, <2>2 DEF Executing, Up
    <2>4. CASE task[id] # "running"
        <3>1. late'[id] = late[id] /\ task'[id] # "running" /\ lost' = lost
            BY <2>2, <2>4
        <3> QED
            BY <2>1, <2>3, <3>1, Zenon DEF OnTime
    <2>5. CASE task[id] = "running"
        <3>1. Up /\ id \in ActiveIDs
            BY <2>1, <2>5 DEF Executing, ActiveIDs
        <3>2. late'[id] \in Nat /\ late'[id] <= late[id] + 1 /\ late[id] \in Nat
            BY <2>2, RuntimeTypes
        <3>3. ASSUME lost = 0 PROVE RunsOn(id)' /\ late'[id] <= LongestDelay
            <4>1. RunsOn(id)
                BY <2>1, <2>5, <3>3 DEF OnTime
            <4>2. ~ShouldCancel(id[1]) => late'[id] = 0
                BY <2>2, <4>1 DEF RunsOn
            <4>3. CASE beat.at = "none"
                <5>1. late[id] + beatAt <= clock + BeatGap /\ clock < beatAt
                    BY <1>3, <3>1, <4>1, <4>3 DEF RunsOn
                <5>2. /\ late'[id] <= BeatGap /\ late'[id] <= LongestDelay
                      /\ late'[id] + beatAt <= clock' + BeatGap
                    BY <1>1, <1>2, <3>2, <5>1, Durations
                <5> QED
                    BY <1>1, <4>2, <4>3, <5>2 DEF RunsOn, ShouldCancel
            <4>4. CASE beat.at = "locking" /\ id \in beat.ids
                <5>1. late[id] + poll <= clock + LongestDelay /\ clock < poll
                    BY <1>3, <4>1, <4>4 DEF RunsOn
                <5>2. /\ late'[id] <= LongestDelay
                      /\ late'[id] + poll <= clock' + LongestDelay
                    BY <1>1, <1>2, <3>2, <5>1, Durations
                <5> QED
                    BY <1>1, <4>2, <4>4, <5>2 DEF RunsOn, ShouldCancel
            <4>5. CASE beat.at = "locking" /\ id \notin beat.ids
                <5>1. /\ late[id] + poll <= clock + ClaimWait /\ clock < poll
                      /\ late[id] + beatAt <= clock
                    BY <1>3, <4>1, <4>5 DEF RunsOn
                <5>2. /\ late'[id] <= ClaimWait /\ late'[id] <= LongestDelay
                      /\ late'[id] + beatAt <= clock'
                      /\ late'[id] + poll <= clock' + ClaimWait
                    BY <1>1, <1>2, <3>2, <5>1, Durations
                <5> QED
                    BY <1>1, <4>2, <4>5, <5>2 DEF RunsOn, ShouldCancel
            <4> QED
                BY <1>2, <1>3, <4>3, <4>4, <4>5
        <3>4. ASSUME lost = 0, PollsAreShort PROVE RenewsOnTime(id)' /\ Leased(id)'
            <4>1. RenewsOnTime(id) /\ Leased(id)
                BY <2>1, <2>5, <3>4, Zenon DEF OnTime
            <4>2. Leased(id)'
                <5>1. AttemptOf(id)' = AttemptOf(id) /\ renewAt'[id] = renewAt[id]
                    BY <2>2 DEF AttemptOf
                <5> QED
                    BY <4>1, <5>1 DEF Leased
            <4>3. CASE beat.at = "none"
                <5>1. renewAt[id] # 0 => clock + 1 <= renewAt[id]
                    BY <1>2, <1>3, <3>1, <4>3, RuntimeTypes DEF HasCall, RenewDue
                <5> QED
                    BY <1>1, <1>2, <4>2, <4>3, <5>1, RuntimeTypes, Durations DEF RenewsOnTime
            <4>4. CASE beat.at = "locking"
                <5>1. renewAt[id] # 0 => clock + 1 <= renewAt[id] + ClaimWait
                    BY <1>2, <1>3, <4>1, <4>4, RuntimeTypes, Durations DEF RenewsOnTime
                <5> QED
                    BY <1>1, <4>1, <4>2, <4>4, <5>1 DEF RenewsOnTime
            <4> QED
                BY <1>2, <1>3, <4>3, <4>4
        <3> QED
            BY <2>2, <2>3, <3>3, <3>4, Zenon DEF OnTime
    <2> QED
        BY <2>4, <2>5
<1> QED
    BY <1>4, <1>5 DEF TimingInvariant

-----------------------------------------------------------------------------
(* The theorems.                                                           *)

LEMMA InitTimingInvariant ==
    ASSUME RuntimeInit
    PROVE  TimingInvariant
<1>1. /\ poll = 0 /\ beat.at = "none" /\ beatAt = 0 /\ clock = 0
      /\ \A id \in AttemptIDs : task[id] = "none" /\ renewAt[id] = 0 /\ late[id] = 0
    BY DEF RuntimeInit, NoBeat, Init
<1>2. LongestDelay \in Nat
    BY Durations
<1> QED
    BY <1>1, <1>2, Durations DEF TimingInvariant, LoopTimes, OnTime, Executing

LEMMA NextTimingInvariant ==
    ASSUME RuntimeInvariant, TimingInvariant, [RuntimeNext]_allVars
    PROVE  TimingInvariant'
<1>1. CASE ClaimStart \/ ClaimEmpty \/ \E j \in Jobs : ClaimGranted(j)
    BY <1>1, ClaimStartOnTime, ClaimEmptyOnTime, ClaimGrantedOnTime
<1>2. CASE \E id \in AttemptIDs : Execution(id)
    BY <1>2, RenewCallOnTime, ReportOnTime, DeadlineOnTime, ReturnedOnTime DEF Execution
<1>3. CASE BeatStart \/ BeatSlots \/ BeatCall
    BY <1>3, BeatStartOnTime, BeatSlotsOnTime, BeatCallOnTime
<1>4. CASE Shutdown \/ CancelAll \/ Exit \/ Kill
    BY <1>4, ShutdownOnTime, LeavesOnTime
<1>5. CASE TimePasses
    BY <1>5, TimePassesOnTime
<1>6. CASE Others \/ UNCHANGED allVars
    BY <1>6, OutsideOnTime
<1> QED
    BY <1>1, <1>2, <1>3, <1>4, <1>5, <1>6 DEF RuntimeNext

LEMMA TimingInvariantHolds == RuntimeSpec => []TimingInvariant
<1>1. RuntimeInit => TimingInvariant
    BY InitTimingInvariant
<1>2. RuntimeInvariant /\ TimingInvariant /\ [RuntimeNext]_allVars => TimingInvariant'
    BY NextTimingInvariant
<1> QED
    BY <1>1, <1>2, RuntimeInvariantHolds, PTL DEF RuntimeSpec

(* For every heartbeat interval and every poll short enough to fit between *)
(* a renewal and the end of the lease, renewLoop keeps the lease of all    *)
(* that a worker executes, though it shares the client's lock with the     *)
(* long poll and the heartbeat.                                            *)
THEOREM LeasesAreKept ==
    ASSUME PollsAreShort
    PROVE  RuntimeSpec => []LeaseIsKept
<1>1. TimingInvariant => LeaseIsKept
    BY DEF TimingInvariant, OnTime, Leased, LeaseIsKept
<1> QED
    BY <1>1, TimingInvariantHolds, PTL

(* For all durations, heartbeatLoop stops an executor within LongestDelay  *)
(* of the end of its job, unless a heartbeat is refused or a call fails.   *)
THEOREM CancellationIsDelivered == RuntimeSpec => []CancellationArrives
<1>1. TimingInvariant => CancellationArrives
    BY DEF TimingInvariant, OnTime, CancellationArrives
<1> QED
    BY <1>1, TimingInvariantHolds, PTL
=============================================================================
