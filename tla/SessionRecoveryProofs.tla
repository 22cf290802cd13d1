----------------------- MODULE SessionRecoveryProofs -----------------------
(***************************************************************************)
(* Proofs about SessionRecovery, for any policies, attempt limit, number   *)
(* of epochs and of crashes: RecoverySound is inductive, and from it       *)
(* follow the properties of the session row that hold in every             *)
(* interleaving of the handlers and controllers.                           *)
(***************************************************************************)
EXTENDS SessionRecovery, TLAPS

(* What a step may do to the session row; all that the lifecycle, the      *)
(* owner and the rebuild policy ask for.                                   *)
Moves ==
    /\ session' \in Sessions
    /\ session'.policy = session.policy
    /\ session'.attempts >= session.attempts
    /\ OwnerCleared'
    /\ session.state \in Ended => session'.state \in Ended
    /\ [Lifecycle!Next]_<<session.state, session.epoch>>
    /\ session.owner # 0 /\ session'.epoch = session.epoch => session'.owner = session.owner
    /\ session.policy = "rebuild" /\ session.state = "recovering" /\ session'.state = "active"
         => rebuild[session.epoch] = "succeeded"

(* A rebuild step that exists stays, and one that has succeeded stays so.  *)
RebuildKept ==
    \A e \in Epochs : /\ rebuild[e] # "none" => rebuild'[e] # "none"
                      /\ rebuild[e] = "succeeded" => rebuild'[e] = "succeeded"

HealthKept == health' \in {health, Resting}

(* The round of the controller goes on, is given up, or takes a step that  *)
(* rests on nothing it has found out.                                      *)
RoundKept ==
    \/ recovery' \in {recovery, Between}
    \/ /\ recovery'.epoch # 0
       /\ recovery'.step \notin {"create", "validate", "acknowledge", "complete"}

Sound == RecoverySound' /\ Moves

-----------------------------------------------------------------------------
(* Records.                                                                *)

LEMMA Constants ==
    /\ NoCall \in Calls /\ NoJoin \in Joins /\ Halted \in Processes
    /\ Resting \in Healths /\ Between \in Recoveries
    /\ Resting.step = "rest" /\ Resting.reserved = 0
    /\ Between.step = "rest" /\ Between.epoch = 0
    /\ 1 \in Epochs /\ Epochs \subseteq Nat
BY RecoveryAssumption
   DEF NoCall, NoJoin, Halted, Resting, Between, Calls, Joins, Processes, Healths,
       Recoveries, Rounds, Stages, Epochs

LEMMA SessionFields ==
    ASSUME TypeOK
    PROVE  /\ session.state \in States /\ session.epoch \in Epochs /\ session.epoch \in Nat
           /\ session.owner \in 0 .. MaxEpoch /\ session.attempts \in Nat
           /\ session.recovery \in Stages /\ session.acked \in BOOLEAN
           /\ session.policy \in Policies
BY DEF TypeOK, Sessions, Epochs

LEMMA RoundFields ==
    ASSUME TypeOK
    PROVE  /\ recovery.step \in Rounds /\ recovery.epoch \in 0 .. MaxEpoch
           /\ recovery.worker \in 0 .. MaxEpoch
           /\ recovery.boxes \subseteq Epochs
           /\ health.step \in {"rest", "revoke", "recover", "expire"}
           /\ health.worker \in 0 .. MaxEpoch /\ health.reserved \in 0 .. MaxEpoch
BY DEF TypeOK, Recoveries, Healths

LEMMA GoFacts ==
    ASSUME TypeOK, NEW s \in Rounds, Go(s)
    PROVE  /\ recovery' \in Recoveries
           /\ recovery'.step = s /\ recovery'.epoch = recovery.epoch
           /\ UNCHANGED <<call, join, health, expiry>>
BY DEF TypeOK, Recoveries, Go

LEMMA DoneFacts ==
    ASSUME Done
    PROVE  /\ recovery' \in Recoveries /\ recovery' = Between
           /\ UNCHANGED <<call, join, health, expiry>>
BY Constants DEF Done

LEMMA StopFacts ==
    ASSUME Stop
    PROVE  /\ call' \in [Epochs -> Calls] /\ join' \in [Epochs -> Joins]
           /\ health' \in Healths /\ expiry' \in {"rest", "close"} /\ recovery' \in Recoveries
           /\ health' = Resting /\ recovery' = Between
BY Constants DEF Stop

-----------------------------------------------------------------------------
(* What keeps the invariant.                                               *)

LEMMA RoomKept ==
    ASSUME RecoverySound, HealthKept, session'.epoch = session.epoch
    PROVE  RoomForHealth'
<1>1. RoomForHealth
  BY DEF RecoverySound
<1>2. CASE health' = health
  BY <1>1, <1>2 DEF RoomForHealth
<1>3. CASE health' = Resting
  BY <1>3, Constants DEF RoomForHealth
<1> QED BY <1>2, <1>3 DEF HealthKept

LEMMA CountKept ==
    ASSUME RecoverySound, Moves, launched' = launched, RoundKept
    PROVE  LaunchesCounted'
<1>1. /\ LaunchesCounted /\ launched \in Nat /\ session.attempts \in Nat
      /\ session'.attempts \in Nat /\ session'.attempts >= session.attempts
      /\ MaxAttempts \in Nat
  BY RecoveryAssumption DEF RecoverySound, TypeOK, Moves, Sessions
<1>2. recovery'.step = "create" => recovery.step = "create"
  BY Constants DEF RoundKept
<1> QED BY <1>1, <1>2 DEF LaunchesCounted, Claimed

LEMMA StandsKept ==
    ASSUME RecoverySound, Moves, RebuildKept, RoundKept
    PROVE  RebuildStands'
<1>1. /\ RebuildStands /\ recovery.epoch \in 0 .. MaxEpoch /\ MaxEpoch \in Nat
  BY RoundFields, RecoveryAssumption DEF RecoverySound
<1>2. session'.policy = session.policy /\ (session.state \in Ended => session'.state \in Ended)
  BY DEF Moves
<1>3. CASE recovery' = recovery
  <2>1. recovery.step # "rest" => recovery.epoch \in Epochs
    BY <1>1 DEF RebuildStands, Epochs
  <2> QED BY <1>1, <1>2, <1>3, <2>1 DEF RebuildStands, RebuildKept
<1>4. CASE recovery' = Between
  BY <1>4, Constants DEF RebuildStands
<1>5. CASE /\ recovery'.epoch # 0
           /\ recovery'.step \notin {"create", "validate", "acknowledge", "complete"}
  BY <1>5 DEF RebuildStands
<1> QED BY <1>3, <1>4, <1>5 DEF RoundKept

LEMMA Keeps ==
    ASSUME RecoverySound, TypeOK', Moves, launched' = launched, RebuildKept, RoundKept,
           RoomForHealth'
    PROVE  Sound
BY CountKept, StandsKept DEF Sound, RecoverySound, Moves

LEMMA SessionKept ==
    ASSUME RecoverySound, session' = session
    PROVE  Moves
<1>1. session \in Sessions /\ session.attempts \in Nat /\ OwnerCleared
  BY DEF RecoverySound, TypeOK, Sessions
<1> QED BY <1>1 DEF Moves, OwnerCleared

(* A step that changes neither the session row, nor a round of the health  *)
(* or the recovery controller, but to end it.                              *)
LEMMA Quiet ==
    ASSUME RecoverySound, TypeOK', session' = session, launched' = launched, RebuildKept,
           HealthKept, RoundKept
    PROVE  Sound
BY SessionKept, RoomKept, Keeps
-----------------------------------------------------------------------------
(* The transactions of the store.                                          *)

(* finishSessionTx and what follows it in TerminalRecovery.                *)
LEMMA FinishFacts ==
    ASSUME RecoverySound, NEW state \in Ended, Finish(state)
    PROVE  /\ Moves /\ RebuildKept
           /\ session'.epoch = session.epoch
           /\ session' \in Sessions /\ row' \in [Epochs -> Rows]
           /\ box' \in [Epochs -> {"absent", "free", "held"}]
           /\ rebuild' \in [Epochs -> {"none", "queued", "leased", "succeeded", "failed"}]
           /\ work' \subseteq Epochs
<1>1. TypeOK /\ OwnerCleared
  BY DEF RecoverySound
<1>2. /\ session' = [session EXCEPT !.state = state] /\ session.state \notin Ended
      /\ session \in Sessions
  BY <1>1 DEF Finish, TypeOK
<1>3. /\ session' \in Sessions /\ session'.state = state
      /\ session'.policy = session.policy /\ session'.attempts = session.attempts
      /\ session'.epoch = session.epoch /\ session'.owner = session.owner
  BY <1>2 DEF Sessions, States
<1>4. session'.state \notin {"pending", "active", "recovering"} /\ session.attempts \in Nat
  BY <1>1, <1>3, SessionFields DEF Ended
<1>5. Moves
  BY <1>2, <1>3, <1>4 DEF Moves, OwnerCleared, Lifecycle!Next, Lifecycle!End, Lifecycle!Ended,
     Ended
<1>6. row' \in [Epochs -> Rows]
  BY <1>1, RecoveryAssumption DEF Finish, TypeOK, Rows
<1>7. /\ box' \in [Epochs -> {"absent", "free", "held"}]
      /\ work' \subseteq Epochs
  BY <1>1 DEF Finish, TypeOK
<1>8. rebuild' \in [Epochs -> {"none", "queued", "leased", "succeeded", "failed"}] /\ RebuildKept
  BY <1>1 DEF Finish, TypeOK, RebuildKept
<1> QED BY <1>3, <1>5, <1>6, <1>7, <1>8

LEMMA FinishIfOpenFacts ==
    ASSUME RecoverySound, NEW state \in Ended, FinishIfOpen(state)
    PROVE  /\ Moves /\ RebuildKept
           /\ session'.epoch = session.epoch
           /\ session' \in Sessions /\ row' \in [Epochs -> Rows]
           /\ box' \in [Epochs -> {"absent", "free", "held"}]
           /\ rebuild' \in [Epochs -> {"none", "queued", "leased", "succeeded", "failed"}]
           /\ work' \subseteq Epochs
<1>1. CASE Finish(state)
  BY <1>1, FinishFacts
<1>2. CASE UNCHANGED store
  BY <1>2, SessionKept DEF store, RecoverySound, TypeOK, RebuildKept
<1> QED BY <1>1, <1>2 DEF FinishIfOpen

LEMMA RequestRecoveryFacts ==
    ASSUME RecoverySound, RequestRecovery, session.epoch < MaxEpoch
    PROVE  /\ Moves /\ session'.epoch = session.epoch + 1
           /\ UNCHANGED <<row, box, rebuild, work>>
<1>1. /\ TypeOK /\ session \in Sessions /\ MaxEpoch \in Nat
  BY RecoveryAssumption DEF RecoverySound, TypeOK
<1>2. /\ session' = [session EXCEPT !.state = "recovering", !.recovery = "pending",
                       !.epoch = @ + 1, !.owner = 0, !.acked = FALSE]
      /\ session.state \in {"active", "recovering"}
      /\ UNCHANGED <<row, box, rebuild, work>>
  BY DEF RequestRecovery, Recoverable
<1>3. /\ session.epoch + 1 \in Epochs /\ 0 \in 0 .. MaxEpoch
      /\ session.attempts \in Nat /\ session.epoch \in Nat
  BY <1>1, SessionFields DEF Epochs
<1>4. /\ session' \in Sessions /\ session'.state = "recovering"
      /\ session'.policy = session.policy /\ session'.attempts = session.attempts
      /\ session'.epoch = session.epoch + 1 /\ session'.owner = 0
  BY <1>1, <1>2, <1>3 DEF Sessions, States, Stages
<1>5. session.epoch + 1 # session.epoch /\ session.attempts >= session.attempts
  BY <1>3
<1>6. Lifecycle!Next
  BY <1>2, <1>4 DEF Lifecycle!Next, Lifecycle!Recover
<1> QED BY <1>2, <1>4, <1>5, <1>6 DEF Moves, OwnerCleared, Ended

LEMMA FailRecoveryFacts ==
    ASSUME RecoverySound, NEW epoch, FailRecovery(epoch)
    PROVE  /\ Moves /\ session'.epoch = session.epoch /\ row' \in [Epochs -> Rows]
<1>1. TypeOK /\ OwnerCleared /\ session \in Sessions
  BY DEF RecoverySound, TypeOK
<1>2. session' = [session EXCEPT !.recovery = "failed"] /\ session.state = "recovering"
  BY DEF FailRecovery, RecoveringAt
<1>3. /\ session' \in Sessions /\ session'.state = session.state
      /\ session'.policy = session.policy /\ session'.attempts = session.attempts
      /\ session'.epoch = session.epoch /\ session'.owner = session.owner
  BY <1>1, <1>2 DEF Sessions, Stages
<1>4. row' \in [Epochs -> Rows]
  BY <1>1, RecoveryAssumption DEF FailRecovery, TypeOK, Rows
<1>5. session.attempts \in Nat
  BY <1>1, SessionFields
<1> QED BY <1>1, <1>2, <1>3, <1>4, <1>5 DEF Moves, OwnerCleared

LEMMA AcknowledgeRecoveryFacts ==
    ASSUME RecoverySound, NEW epoch, NEW w, AcknowledgeRecovery(epoch, w)
    PROVE  /\ Moves /\ session'.epoch = session.epoch /\ session'.state = session.state
           /\ UNCHANGED <<row, box, rebuild, work>>
<1>1. TypeOK /\ OwnerCleared /\ session \in Sessions
  BY DEF RecoverySound, TypeOK
<1>2. /\ session' = [session EXCEPT !.acked = TRUE, !.recovery = "restoring"]
      /\ session.state = "recovering" /\ UNCHANGED <<row, box, rebuild, work>>
  BY DEF AcknowledgeRecovery, MayAcknowledge, RecoveringAt
<1>3. /\ session' \in Sessions /\ session'.state = session.state
      /\ session'.policy = session.policy /\ session'.attempts = session.attempts
      /\ session'.epoch = session.epoch /\ session'.owner = session.owner
  BY <1>1, <1>2 DEF Sessions, Stages
<1>4. session.attempts \in Nat
  BY <1>1, SessionFields
<1> QED BY <1>1, <1>2, <1>3, <1>4 DEF Moves, OwnerCleared

(* Only a controller that has reached "complete" asks for this.            *)
LEMMA CompleteRecoveryFacts ==
    ASSUME RecoverySound, recovery.step = "complete",
           CompleteRecovery(recovery.epoch, recovery.worker)
    PROVE  /\ Moves /\ session'.epoch = session.epoch /\ row' \in [Epochs -> Rows]
           /\ UNCHANGED <<box, rebuild, work>>
<1>1. TypeOK /\ OwnerCleared /\ RebuildStands /\ session \in Sessions
  BY DEF RecoverySound, TypeOK
<1>2. /\ session' = [session EXCEPT !.state = "active", !.recovery = "idle",
                                     !.owner = recovery.worker]
      /\ row' = [row EXCEPT ![recovery.worker].reserved = recovery.epoch]
      /\ session.state = "recovering" /\ session.epoch = recovery.epoch
      /\ UNCHANGED <<box, rebuild, work>>
  BY DEF CompleteRecovery, RecoveringAt
<1>3. /\ session' \in Sessions /\ session'.state = "active"
      /\ session'.policy = session.policy /\ session'.attempts = session.attempts
      /\ session'.epoch = session.epoch
  BY <1>1, <1>2, RoundFields DEF Sessions, Stages, States
<1>4. session.attempts \in Nat /\ session.owner = 0
  BY <1>1, <1>2, SessionFields DEF OwnerCleared
<1>5. session.policy = "rebuild" => rebuild[session.epoch] = "succeeded"
  BY <1>1, <1>2 DEF RebuildStands, Ended
<1>6. row' \in [Epochs -> Rows]
  BY <1>1, <1>2, RoundFields DEF TypeOK, Rows
<1>7. Lifecycle!Next
  BY <1>2, <1>3 DEF Lifecycle!Next, Lifecycle!Resume
<1> QED BY <1>2, <1>3, <1>4, <1>5, <1>6, <1>7 DEF Moves, OwnerCleared, Ended

LEMMA TerminalRecoveryFacts ==
    ASSUME RecoverySound, NEW epoch, TerminalRecovery(epoch)
    PROVE  /\ Moves /\ RebuildKept
           /\ session'.epoch = session.epoch
           /\ session' \in Sessions /\ row' \in [Epochs -> Rows]
           /\ box' \in [Epochs -> {"absent", "free", "held"}]
           /\ rebuild' \in [Epochs -> {"none", "queued", "leased", "succeeded", "failed"}]
           /\ work' \subseteq Epochs
<1>1. TypeOK /\ session \in Sessions
  BY DEF RecoverySound, TypeOK
<1>2. /\ session' = [session EXCEPT !.state = "lost", !.recovery = "failed"]
      /\ session.state = "recovering"
  BY DEF TerminalRecovery, RecoveringAt
<1>3. /\ session' \in Sessions /\ session'.state = "lost"
      /\ session'.policy = session.policy /\ session'.attempts = session.attempts
      /\ session'.epoch = session.epoch /\ session'.owner = session.owner
  BY <1>1, <1>2 DEF Sessions, States, Stages, Ended
<1>4. session.attempts \in Nat
  BY <1>1, SessionFields
<1>5. Moves
  BY <1>2, <1>3, <1>4 DEF Moves, OwnerCleared, Lifecycle!Next, Lifecycle!End, Lifecycle!Ended,
     Ended
<1>6. row' \in [Epochs -> Rows]
  BY <1>1, RecoveryAssumption DEF TerminalRecovery, TypeOK, Rows
<1>7. box' \in [Epochs -> {"absent", "free", "held"}] /\ work' \subseteq Epochs
  BY <1>1 DEF TerminalRecovery, TypeOK
<1>8. rebuild' \in [Epochs -> {"none", "queued", "leased", "succeeded", "failed"}] /\ RebuildKept
  BY <1>1 DEF TerminalRecovery, TypeOK, RebuildKept
<1> QED BY <1>3, <1>5, <1>6, <1>7, <1>8

LEMMA ClaimBindFacts ==
    ASSUME RecoverySound, NEW w \in Epochs, ClaimBind(w)
    PROVE  /\ Moves /\ session'.epoch = session.epoch /\ row' \in [Epochs -> Rows]
           /\ box' \in [Epochs -> {"absent", "free", "held"}] /\ work' \subseteq Epochs
           /\ UNCHANGED rebuild
<1>1. TypeOK /\ OwnerCleared /\ session \in Sessions /\ w \in 0 .. MaxEpoch
  BY DEF RecoverySound, TypeOK, Epochs
<1>2. /\ session' = [session EXCEPT !.state = "active", !.owner = w]
      /\ session.state = "pending" /\ UNCHANGED rebuild
  BY DEF ClaimBind
<1>3. /\ session' \in Sessions /\ session'.state = "active"
      /\ session'.policy = session.policy /\ session'.attempts = session.attempts
      /\ session'.epoch = session.epoch
  BY <1>1, <1>2 DEF Sessions, States
<1>4. session.attempts \in Nat /\ session.owner = 0 /\ session.epoch \in 0 .. MaxEpoch
  BY <1>1, <1>2, SessionFields DEF OwnerCleared, Epochs
<1>5. row' \in [Epochs -> Rows]
  BY <1>1, <1>4 DEF ClaimBind, TypeOK, Rows
<1>6. box' \in [Epochs -> {"absent", "free", "held"}] /\ work' \subseteq Epochs
  BY <1>1 DEF ClaimBind, TypeOK
<1>7. Lifecycle!Next
  BY <1>2, <1>3 DEF Lifecycle!Next, Lifecycle!Bind
<1> QED BY <1>2, <1>3, <1>4, <1>5, <1>6, <1>7 DEF Moves, OwnerCleared, Ended
-----------------------------------------------------------------------------
(* The worker requests.                                                    *)

LEMMA AuthenticateSound ==
    ASSUME RecoverySound, NEW w \in Epochs,
           NEW kind \in {"heartbeat", "complete", "acknowledge", "fail"}, Authenticate(w, kind)
    PROVE  Sound
<1>1. /\ TypeOK /\ UNCHANGED <<store, machines, join, health, expiry, recovery, restarts>>
  BY DEF RecoverySound, Authenticate
<1>2. call' \in [Epochs -> Calls]
  BY <1>1 DEF Authenticate, TypeOK, Calls, Rows
<1>3. TypeOK'
  BY <1>1, <1>2 DEF TypeOK, store, machines
<1> QED BY <1>1, <1>3, Quiet DEF store, machines, RebuildKept, HealthKept, RoundKept

LEMMA RegistrationSound ==
    ASSUME RecoverySound, NEW w \in Epochs,
           RegisterRead(w) \/ RegisterSession(w) \/ RegisterWrite(w)
    PROVE  Sound
<1>1. TypeOK /\ 0 \in 0 .. MaxEpoch /\ session.epoch \in 0 .. MaxEpoch
  BY RecoveryAssumption, SessionFields DEF RecoverySound, Epochs
<1>2. CASE RegisterRead(w)
  <2>1. join' \in [Epochs -> Joins]
    BY <1>1, <1>2 DEF RegisterRead, TypeOK, Joins, Processes
  <2>2. TypeOK'
    BY <1>1, <1>2, <2>1 DEF RegisterRead, TypeOK, store, machines
  <2> QED BY <1>2, <2>2, Quiet DEF RegisterRead, store, machines, RebuildKept, HealthKept,
             RoundKept
<1>3. CASE RegisterSession(w)
  <2>1. /\ join[w] \in Joins
        /\ \E r \in 0 .. MaxEpoch :
              join' = [join EXCEPT ![w].step = "write", ![w].reserved = r]
    BY <1>1, <1>3 DEF RegisterSession, TypeOK
  <2>2. PICK r \in 0 .. MaxEpoch :
           join' = [join EXCEPT ![w] = [join[w] EXCEPT !.step = "write", !.reserved = r]]
    BY <2>1
  <2>3. [join[w] EXCEPT !.step = "write", !.reserved = r] \in Joins
    BY <2>1 DEF Joins
  <2>4. join' \in [Epochs -> Joins]
    BY <1>1, <2>2, <2>3 DEF TypeOK
  <2>5. TypeOK'
    BY <1>1, <1>3, <2>4 DEF RegisterSession, TypeOK, store, machines
  <2> QED BY <1>3, <2>5, Quiet DEF RegisterSession, store, machines, RebuildKept, HealthKept,
             RoundKept
<1>4. CASE RegisterWrite(w)
  <2>1. join[w] \in Joins /\ join[w].token \in Nat /\ join[w].reserved \in 0 .. MaxEpoch
    BY <1>1 DEF TypeOK, Joins
  <2>2. row' \in [Epochs -> Rows]
    BY <1>1, <1>4, <2>1 DEF RegisterWrite, TypeOK, Rows
  <2>3. process' \in [Epochs -> Processes]
    BY <1>1, <1>4, <2>1 DEF RegisterWrite, TypeOK, Processes
  <2>4. join' \in [Epochs -> Joins] /\ box' \in [Epochs -> {"absent", "free", "held"}]
    BY <1>1, <1>4, Constants DEF RegisterWrite, TypeOK
  <2>5. TypeOK'
    BY <1>1, <1>4, <2>2, <2>3, <2>4 DEF RegisterWrite, TypeOK
  <2> QED BY <1>4, <2>5, Quiet DEF RegisterWrite, RebuildKept, HealthKept, RoundKept
<1> QED BY <1>2, <1>3, <1>4

LEMMA AnswerFacts ==
    ASSUME TypeOK, NEW w \in Epochs, Answer(w)
    PROVE  /\ call' \in [Epochs -> Calls]
           /\ UNCHANGED <<launched, join, health, expiry, recovery, restarts>>
           /\ HealthKept /\ RoundKept
           /\ call[w].token \in Nat /\ call[w].reserved \in 0 .. MaxEpoch
<1>1. call' \in [Epochs -> Calls]
  BY Constants DEF TypeOK, Answer
<1>2. call[w].token \in Nat /\ call[w].reserved \in 0 .. MaxEpoch
  BY DEF TypeOK, Calls
<1> QED BY <1>1, <1>2 DEF Answer, HealthKept, RoundKept

LEMMA WriteSound ==
    ASSUME RecoverySound, NEW w \in Epochs, HeartbeatWrite(w) \/ CompleteWrite(w)
    PROVE  Sound
<1>1. TypeOK
  BY DEF RecoverySound
<1>2. CASE HeartbeatWrite(w)
  <2>1. Answer(w) /\ UNCHANGED <<session, box, rebuild, work, process>>
    BY <1>2 DEF HeartbeatWrite
  <2>2. row' \in [Epochs -> Rows]
    BY <1>1, <1>2, <2>1, AnswerFacts DEF HeartbeatWrite, TypeOK, Rows
  <2>3. TypeOK'
    BY <1>1, <2>1, <2>2, AnswerFacts DEF TypeOK
  <2> QED BY <1>1, <2>1, <2>3, Quiet, AnswerFacts DEF RebuildKept
<1>3. CASE CompleteWrite(w)
  <2>1. Answer(w) /\ UNCHANGED <<session, row, box, rebuild, process>> /\ work' = work \ {w}
    BY <1>3 DEF CompleteWrite
  <2>2. TypeOK'
    BY <1>1, <2>1, AnswerFacts DEF TypeOK
  <2> QED BY <1>1, <2>1, <2>2, Quiet, AnswerFacts DEF RebuildKept
<1> QED BY <1>2, <1>3

LEMMA AcknowledgeWriteSound ==
    ASSUME RecoverySound, NEW w \in Epochs, AcknowledgeWrite(w)
    PROVE  Sound
<1>1. TypeOK /\ Answer(w)
  BY DEF RecoverySound, AcknowledgeWrite
<1>2. CASE /\ AcknowledgeRecovery(call[w].reserved, w)
           /\ process' = [process EXCEPT ![w] =
                IF @.token = call[w].token THEN [@ EXCEPT !.phase = "serve"] ELSE @]
  <2>1. process' \in [Epochs -> Processes]
    BY <1>1, <1>2 DEF TypeOK, Processes
  <2>2. /\ Moves /\ session'.epoch = session.epoch /\ UNCHANGED <<row, box, rebuild, work>>
    BY <1>2, AcknowledgeRecoveryFacts
  <2>3. TypeOK'
    BY <1>1, <2>1, <2>2, AnswerFacts DEF TypeOK, Moves
  <2>4. RebuildKept /\ RoomForHealth'
    BY <1>1, <2>2, AnswerFacts, RoomKept DEF RebuildKept
  <2> QED BY <1>1, <2>2, <2>3, <2>4, AnswerFacts, Keeps
<1>3. CASE /\ process' = [process EXCEPT ![w] = IF @.token = call[w].token THEN Halted ELSE @]
           /\ UNCHANGED store
  <2>1. process' \in [Epochs -> Processes]
    BY <1>1, <1>3, Constants DEF TypeOK
  <2>2. TypeOK'
    BY <1>1, <1>3, <2>1, AnswerFacts DEF TypeOK, store
  <2> QED BY <1>1, <1>3, <2>2, Quiet, AnswerFacts DEF RebuildKept, store
<1> QED BY <1>2, <1>3 DEF AcknowledgeWrite

(* A process whose sandbox is terminated ends or runs on.                  *)
LEMMA TerminateFacts ==
    ASSUME TypeOK, NEW boxes, Terminate(boxes)
    PROVE  /\ process' \in [Epochs -> Processes]
           /\ \A v \in Epochs : process'[v] \in {process[v], Halted}
<1>1. PICK left \in SUBSET (boxes \cap Stubborn) :
          process' = [e \in Epochs |-> IF e \in boxes \ left THEN Halted ELSE process[e]]
  BY DEF Terminate
<1> QED BY <1>1, Constants DEF TypeOK

LEMMA RestoreFailedSound ==
    ASSUME RecoverySound, NEW w \in Epochs, RestoreFailedReap(w) \/ RestoreFailedWrite(w)
    PROVE  Sound
<1>1. TypeOK
  BY DEF RecoverySound
<1>2. CASE RestoreFailedReap(w)
  <2>1. /\ UNCHANGED <<session, row, rebuild, work, launched, join, health, expiry, recovery,
                       restarts>>
        /\ box' \in [Epochs -> {"absent", "free", "held"}]
        /\ process' \in [Epochs -> Processes]
    BY <1>1, <1>2, TerminateFacts DEF RestoreFailedReap, TypeOK
  <2>2. call' \in [Epochs -> Calls]
    BY <1>1, <1>2 DEF RestoreFailedReap, TypeOK, Calls
  <2>3. TypeOK'
    BY <1>1, <2>1, <2>2 DEF TypeOK
  <2> QED BY <2>1, <2>3, Quiet DEF RebuildKept, HealthKept, RoundKept
<1>3. CASE RestoreFailedWrite(w)
  <2>1. Answer(w) /\ UNCHANGED <<box, rebuild, work, process>>
    BY <1>3 DEF RestoreFailedWrite
  <2>2. /\ Moves /\ session'.epoch = session.epoch /\ row' \in [Epochs -> Rows]
    <3>1. CASE FailRecovery(call[w].reserved)
      BY <3>1, FailRecoveryFacts
    <3>2. CASE UNCHANGED <<session, row>>
      BY <1>1, <3>2, SessionKept DEF TypeOK
    <3> QED BY <1>3, <3>1, <3>2 DEF RestoreFailedWrite
  <2>3. TypeOK'
    BY <1>1, <2>1, <2>2, AnswerFacts DEF TypeOK, Moves
  <2>4. RebuildKept /\ RoomForHealth'
    BY <1>1, <2>1, <2>2, AnswerFacts, RoomKept DEF RebuildKept
  <2> QED BY <1>1, <2>1, <2>2, <2>3, <2>4, AnswerFacts, Keeps
<1> QED BY <1>2, <1>3

(* Claims, leases and the ends of rebuild steps and processes.             *)
LEMMA ClaimSound ==
    ASSUME RecoverySound, NEW w \in Epochs,
           \/ ClaimBind(w) \/ ClaimActive(w) \/ ExpireLease(w) \/ ProcessDies(w)
           \/ \E e \in Epochs : ClaimRebuild(w, e)
           \/ \E e \in Epochs, r \in {"succeeded", "failed"} : EndRebuild(e, r)
    PROVE  Sound
<1>1. TypeOK
  BY DEF RecoverySound
<1>2. CASE ClaimBind(w)
  <2>1. UNCHANGED <<machines, flight, restarts, rebuild>>
    BY <1>2 DEF ClaimBind, Claim
  <2>2. /\ Moves /\ session'.epoch = session.epoch /\ row' \in [Epochs -> Rows]
        /\ box' \in [Epochs -> {"absent", "free", "held"}] /\ work' \subseteq Epochs
    BY <1>2, ClaimBindFacts
  <2>3. TypeOK'
    BY <1>1, <2>1, <2>2 DEF TypeOK, machines, flight, Moves
  <2>4. RebuildKept /\ HealthKept /\ RoundKept /\ launched' = launched
    BY <2>1 DEF RebuildKept, HealthKept, RoundKept, machines, flight
  <2> QED BY <2>2, <2>3, <2>4, RoomKept, Keeps
<1>3. CASE ClaimActive(w) \/ ExpireLease(w)
  <2>1. UNCHANGED <<session, row, box, rebuild, machines, flight, restarts>>
        /\ work' \subseteq Epochs
    BY <1>1, <1>3 DEF ClaimActive, ExpireLease, Claim, TypeOK
  <2>2. TypeOK'
    BY <1>1, <2>1 DEF TypeOK, machines, flight
  <2> QED BY <2>1, <2>2, Quiet DEF RebuildKept, HealthKept, RoundKept, machines, flight
<1>4. CASE ProcessDies(w)
  <2>1. UNCHANGED <<store, launched, flight, restarts>> /\ process' \in [Epochs -> Processes]
    BY <1>1, <1>4, Constants DEF ProcessDies, TypeOK
  <2>2. TypeOK'
    BY <1>1, <2>1 DEF TypeOK, store, flight
  <2> QED BY <2>1, <2>2, Quiet DEF RebuildKept, HealthKept, RoundKept, store, flight
<1>5. CASE \/ \E e \in Epochs : ClaimRebuild(w, e)
           \/ \E e \in Epochs, r \in {"succeeded", "failed"} : EndRebuild(e, r)
  <2>1. /\ UNCHANGED <<session, row, box, work, machines, flight, restarts>>
        /\ \E e \in Epochs, r \in {"leased", "succeeded", "failed"} :
              rebuild[e] \in {"queued", "leased"} /\ rebuild' = [rebuild EXCEPT ![e] = r]
    BY <1>5 DEF ClaimRebuild, EndRebuild, Claim
  <2>2. /\ rebuild' \in [Epochs -> {"none", "queued", "leased", "succeeded", "failed"}]
        /\ RebuildKept
    BY <1>1, <2>1 DEF TypeOK, RebuildKept
  <2>3. TypeOK'
    BY <1>1, <2>1, <2>2 DEF TypeOK, machines, flight
  <2> QED BY <2>1, <2>2, <2>3, Quiet DEF HealthKept, RoundKept, machines, flight
<1> QED BY <1>2, <1>3, <1>4, <1>5
-----------------------------------------------------------------------------
(* The client, the health and expiry controllers, and crashes.             *)

LEMMA HeadroomFacts ==
    ASSUME TypeOK, Headroom
    PROVE  /\ session.epoch < MaxEpoch
           /\ health.reserved # 0 /\ health.step # "expire" => session.epoch + 1 < MaxEpoch
<1>1. session.epoch \in Nat /\ MaxEpoch \in Nat
  BY SessionFields, RecoveryAssumption
<1> QED BY <1>1 DEF Headroom

LEMMA ClientSound ==
    ASSUME RecoverySound, CloseSession \/ RecoverSession
    PROVE  Sound
<1>1. TypeOK
  BY DEF RecoverySound
<1>2. CASE CloseSession
  <2>1. UNCHANGED <<machines, flight, restarts>> /\ Finish("closed") /\ "closed" \in Ended
    BY <1>2 DEF CloseSession, Ended
  <2>2. TypeOK'
    BY <1>1, <2>1, FinishFacts DEF TypeOK, machines, flight
  <2>3. HealthKept /\ RoundKept /\ launched' = launched
    BY <2>1 DEF HealthKept, RoundKept, machines, flight
  <2> QED BY <2>1, <2>2, <2>3, FinishFacts, RoomKept, Keeps
<1>3. CASE RecoverSession
  <2>1. UNCHANGED <<machines, flight, restarts>> /\ RequestRecovery /\ Headroom
    BY <1>3 DEF RecoverSession
  <2>2. /\ Moves /\ session'.epoch = session.epoch + 1 /\ UNCHANGED <<row, box, rebuild, work>>
    BY <1>1, <2>1, HeadroomFacts, RequestRecoveryFacts
  <2>3. TypeOK'
    BY <1>1, <2>1, <2>2 DEF TypeOK, machines, flight, Moves
  <2>4. RoomForHealth'
    BY <1>1, <2>1, <2>2, HeadroomFacts DEF RoomForHealth, flight, RecoverySound
  <2> QED BY <2>1, <2>2, <2>3, <2>4, Keeps DEF RebuildKept, RoundKept, machines, flight
<1> QED BY <1>2, <1>3

LEMMA ExpirySound ==
    ASSUME RecoverySound, ExpireSessionsRead \/ ExpireSessionsClose
    PROVE  Sound
<1>1. TypeOK
  BY DEF RecoverySound
<1>2. CASE ExpireSessionsRead
  <2>1. TypeOK'
    BY <1>1, <1>2 DEF ExpireSessionsRead, TypeOK, store, machines
  <2> QED BY <1>2, <2>1, Quiet DEF ExpireSessionsRead, RebuildKept, HealthKept, RoundKept,
             store, machines
<1>3. CASE ExpireSessionsClose
  <2>1. /\ UNCHANGED <<machines, call, join, health, recovery, restarts>> /\ expiry' = "rest"
        /\ FinishIfOpen("closed") /\ "closed" \in Ended
    BY <1>3 DEF ExpireSessionsClose, Ended
  <2>2. TypeOK'
    BY <1>1, <2>1, FinishIfOpenFacts DEF TypeOK, machines
  <2>3. HealthKept /\ RoundKept /\ launched' = launched
    BY <2>1 DEF HealthKept, RoundKept, machines
  <2> QED BY <2>1, <2>2, <2>3, FinishIfOpenFacts, RoomKept, Keeps
<1> QED BY <1>2, <1>3

(* All that is in flight is gone.                                          *)
LEMMA StopSound ==
    ASSUME RecoverySound, Stop, UNCHANGED <<session, rebuild, launched>>,
           row' \in [Epochs -> Rows], box' \in [Epochs -> {"absent", "free", "held"}],
           work' \subseteq Epochs, process' \in [Epochs -> Processes],
           restarts' \in 0 .. MaxRestarts
    PROVE  Sound
<1>1. TypeOK'
  BY StopFacts DEF RecoverySound, TypeOK
<1>2. RebuildKept /\ HealthKept /\ RoundKept
  BY StopFacts DEF RebuildKept, HealthKept, RoundKept
<1> QED BY <1>1, <1>2, Quiet

LEMMA CrashSound ==
    ASSUME RecoverySound, Crash
    PROVE  Sound
<1>1. TypeOK /\ Stop /\ UNCHANGED <<store, machines>>
  BY DEF RecoverySound, Crash
<1>2. restarts' \in 0 .. MaxRestarts
  BY <1>1, RecoveryAssumption DEF Crash, TypeOK
<1> QED BY <1>1, <1>2, StopSound DEF TypeOK, store, machines

LEMMA HealthSound ==
    ASSUME RecoverySound, HealthStep
    PROVE  Sound
<1>1. TypeOK /\ RoomForHealth
  BY DEF RecoverySound
<1>2. ASSUME NEW w \in Epochs, HealthRead(w)
      PROVE  Sound
  <2>1. /\ UNCHANGED <<store, machines, call, join, expiry, recovery, restarts>>
        /\ health' = [step |-> "revoke", worker |-> w, reserved |-> row[w].reserved]
        /\ row[w].reserved # 0 => Headroom
    BY <1>2 DEF HealthRead
  <2>2. health' \in Healths
    BY <1>1, <2>1 DEF TypeOK, Rows, Healths, Epochs
  <2>3. TypeOK'
    BY <1>1, <2>1, <2>2 DEF TypeOK, store, machines
  <2>4. RoomForHealth'
    BY <1>1, <2>1, HeadroomFacts DEF RoomForHealth, store
  <2> QED BY <2>1, <2>3, <2>4, SessionKept, Keeps DEF RebuildKept, RoundKept, store, machines
<1>3. CASE HealthRevoke
  <2>1. /\ UNCHANGED <<session, box, rebuild, work, machines, call, join, expiry, recovery,
                       restarts>>
        /\ health.step = "revoke"
        /\ health' = [health EXCEPT !.step = IF health.reserved # 0 THEN "recover" ELSE "expire"]
    BY <1>3 DEF HealthRevoke
  <2>2. /\ health' \in Healths /\ health'.reserved = health.reserved /\ health'.step # "rest"
        /\ health'.step = "recover" => health.reserved # 0
    BY <1>1, <2>1 DEF TypeOK, Healths
  <2>3. row' \in [Epochs -> Rows]
    BY <1>1, <1>3, RoundFields DEF HealthRevoke, TypeOK, Rows
  <2>4. TypeOK'
    BY <1>1, <2>1, <2>2, <2>3 DEF TypeOK, machines
  <2>5. RoomForHealth'
    BY <1>1, <2>1, <2>2 DEF RoomForHealth
  <2> QED BY <2>1, <2>4, <2>5, SessionKept, Keeps DEF RebuildKept, RoundKept, machines
<1>4. CASE HealthRecover
  <2>1. health.step = "recover" /\ UNCHANGED <<machines, restarts>>
    BY <1>4 DEF HealthRecover
  <2>2. CASE /\ IF session.policy = "none" THEN FinishIfOpen("lost") ELSE RequestRecovery
             /\ health' = [health EXCEPT !.step = "expire"]
             /\ UNCHANGED <<call, join, expiry, recovery>>
    <3>1. health' \in Healths /\ RoomForHealth' /\ RoundKept /\ launched' = launched
      BY <1>1, <2>1, <2>2 DEF TypeOK, Healths, RoomForHealth, RoundKept, machines
    <3>2. CASE session.policy = "none"
      <4>1. FinishIfOpen("lost") /\ "lost" \in Ended
        BY <2>2, <3>2 DEF Ended
      <4>2. TypeOK'
        BY <1>1, <2>1, <2>2, <3>1, <4>1, FinishIfOpenFacts DEF TypeOK, machines
      <4> QED BY <3>1, <4>1, <4>2, FinishIfOpenFacts, Keeps
    <3>3. CASE session.policy # "none" /\ session.epoch < MaxEpoch
      <4>1. Moves /\ UNCHANGED <<row, box, rebuild, work>>
        BY <2>2, <3>3, RequestRecoveryFacts
      <4>2. TypeOK'
        BY <1>1, <2>1, <2>2, <3>1, <4>1 DEF TypeOK, machines, Moves
      <4> QED BY <3>1, <4>1, <4>2, Keeps DEF RebuildKept
    <3> QED BY <1>1, <2>1, <3>2, <3>3 DEF RoomForHealth
  <2>3. CASE Stop /\ UNCHANGED store
    BY <1>1, <2>1, <2>3, StopSound DEF TypeOK, store, machines
  <2> QED BY <1>4, <2>2, <2>3 DEF HealthRecover
<1>5. CASE HealthExpire
  <2>1. TypeOK'
    BY <1>1, <1>5, Constants DEF HealthExpire, TypeOK, machines
  <2> QED BY <1>5, <2>1, Quiet DEF HealthExpire, RebuildKept, HealthKept, RoundKept, machines
<1> QED BY <1>2, <1>3, <1>4, <1>5 DEF HealthStep
-----------------------------------------------------------------------------
(* The recovery controller.                                                *)

(* The first steps of a round, which only read.                            *)
LEMMA ReadingSound ==
    ASSUME RecoverySound, ReadSession \/ ReadBoxes
    PROVE  Sound
<1>1. TypeOK /\ RebuildStands
  BY DEF RecoverySound
<1>2. /\ UNCHANGED <<store, machines, call, join, health, expiry, restarts>>
      /\ recovery' \in Recoveries /\ recovery'.epoch # 0
      /\ recovery'.step \in {"boxes", "workers"}
  <2>1. CASE ReadSession
    <3>1. /\ UNCHANGED <<store, machines, call, join, health, expiry, restarts>>
          /\ recovery' = [Between EXCEPT !.step = "boxes", !.epoch = session.epoch,
                            !.state = session.recovery, !.acked = session.acked]
      BY <2>1 DEF ReadSession, At
    <3>2. session.epoch \in 0 .. MaxEpoch /\ session.epoch # 0
      BY <1>1, SessionFields, RecoveryAssumption DEF Epochs
    <3> QED BY <1>1, <3>1, <3>2, SessionFields, Constants DEF Recoveries, Between, Rounds
  <2>2. CASE ReadBoxes
    BY <1>1, <2>2 DEF ReadBoxes, At, TypeOK, Recoveries, Rounds, RebuildStands
  <2> QED BY <2>1, <2>2
<1>3. TypeOK'
  BY <1>1, <1>2 DEF TypeOK, store, machines
<1> QED BY <1>2, <1>3, Quiet DEF RebuildKept, HealthKept, RoundKept, store, machines

(* A step that only moves the round on, to one that rests on nothing.      *)
LEMMA GoSound ==
    ASSUME RecoverySound, NEW s \in Rounds \ {"create", "validate", "acknowledge", "complete"},
           recovery.epoch # 0, Go(s), UNCHANGED <<session, launched, restarts>>, RebuildKept,
           row' \in [Epochs -> Rows], box' \in [Epochs -> {"absent", "free", "held"}],
           rebuild' \in [Epochs -> {"none", "queued", "leased", "succeeded", "failed"}],
           work' \subseteq Epochs, process' \in [Epochs -> Processes]
    PROVE  Sound
<1>1. TypeOK
  BY DEF RecoverySound
<1>2. /\ recovery' \in Recoveries /\ recovery'.step = s /\ recovery'.epoch = recovery.epoch
      /\ UNCHANGED <<call, join, health, expiry>>
  BY <1>1, GoFacts
<1>3. TypeOK'
  BY <1>1, <1>2 DEF TypeOK
<1> QED BY <1>2, <1>3, Quiet DEF HealthKept, RoundKept

LEMMA DoneSound ==
    ASSUME RecoverySound, Done, Moves, session'.epoch = session.epoch, RebuildKept,
           UNCHANGED <<launched, restarts>>,
           row' \in [Epochs -> Rows], box' \in [Epochs -> {"absent", "free", "held"}],
           rebuild' \in [Epochs -> {"none", "queued", "leased", "succeeded", "failed"}],
           work' \subseteq Epochs, process' \in [Epochs -> Processes]
    PROVE  Sound
<1>1. TypeOK'
  BY DoneFacts DEF RecoverySound, TypeOK, Moves
<1>2. HealthKept /\ RoundKept
  BY DoneFacts DEF HealthKept, RoundKept
<1> QED BY <1>1, <1>2, RoomKept, Keeps

LEMMA ChoiceSound ==
    ASSUME RecoverySound, Await \/ StartAnew \/ (\E w \in Epochs : Adopt(w) \/ GiveUp(w))
    PROVE  Sound
<1>1. TypeOK /\ RebuildStands
  BY DEF RecoverySound
<1>2. recovery.step = "workers" /\ UNCHANGED <<store, machines, restarts>> /\ recovery.epoch # 0
  BY <1>1 DEF Await, StartAnew, Adopt, GiveUp, At, RebuildStands
<1>3. CASE Await \/ StartAnew
  <2>1. Go("fail") \/ Go("claim") \/ Done
    BY <1>3 DEF Await, StartAnew
  <2>2. "fail" \in Rounds /\ "claim" \in Rounds /\ RebuildKept /\ Moves
    BY <1>2, SessionKept DEF Rounds, RebuildKept, store
  <2> QED BY <1>1, <1>2, <2>1, <2>2, GoSound, DoneSound DEF TypeOK, store, machines
<1>4. ASSUME NEW w \in Epochs, Adopt(w) \/ GiveUp(w)
      PROVE  Sound
  <2>1. /\ UNCHANGED <<call, join, health, expiry>>
        /\ \/ recovery' = Between
           \/ /\ recovery' = [recovery EXCEPT !.worker = w, !.step = "complete"]
              /\ session.policy # "rebuild"
           \/ recovery' = [recovery EXCEPT !.worker = w, !.step = "enqueue"]
           \/ recovery' = [recovery EXCEPT !.worker = w, !.step = "reap"]
    BY <1>1, <1>4 DEF Adopt, GiveUp, TypeOK, Recoveries
  <2>2. w \in 0 .. MaxEpoch
    BY DEF Epochs
  <2>3. /\ recovery' \in Recoveries
        /\ \/ recovery' = Between
           \/ /\ recovery'.epoch # 0
              /\ \/ recovery'.step = "complete" /\ session.policy # "rebuild"
                 \/ recovery'.step \in {"enqueue", "reap"}
    <3>1. ASSUME NEW s \in {"complete", "enqueue", "reap"},
                 recovery' = [recovery EXCEPT !.worker = w, !.step = s]
          PROVE  /\ recovery' \in Recoveries
                 /\ recovery'.epoch # 0 /\ recovery'.step = s
      <4>1. recovery \in Recoveries
        BY <1>1 DEF TypeOK
      <4> QED BY <1>2, <2>2, <3>1, <4>1 DEF Recoveries, Rounds
    <3> QED BY <2>1, <3>1, Constants
  <2>4. TypeOK'
    BY <1>1, <1>2, <2>1, <2>3 DEF TypeOK, store, machines
  <2>5. RebuildKept /\ HealthKept /\ session' = session /\ launched' = launched
    BY <1>2, <2>1 DEF RebuildKept, HealthKept, store, machines
  <2>6. CASE RoundKept
    BY <2>4, <2>5, <2>6, Quiet
  <2>7. CASE /\ recovery'.epoch # 0
             /\ recovery'.step = "complete" /\ session.policy # "rebuild"
    <3>1. Moves /\ RoomForHealth'
      BY <2>5, SessionKept, RoomKept
    <3>2. RebuildStands'
      BY <2>5, <2>7 DEF RebuildStands
    <3>3. LaunchesCounted'
      BY <1>2, <2>5, <2>7 DEF LaunchesCounted, Claimed, RecoverySound
    <3> QED BY <2>4, <3>1, <3>2, <3>3 DEF Sound, RecoverySound, Moves
  <2> QED BY <2>3, <2>6, <2>7 DEF RoundKept
<1> QED BY <1>3, <1>4

(* A round that goes on to a step which rests on what it has found.        *)
LEMMA FoundSound ==
    ASSUME RecoverySound, NEW s \in {"validate", "acknowledge", "complete"}, Go(s),
           recovery.step # "rest", Moves, session'.epoch = session.epoch,
           UNCHANGED <<row, box, work, process, launched, restarts>>,
           rebuild' \in [Epochs -> {"none", "queued", "leased", "succeeded", "failed"}],
           session'.policy = "rebuild" /\ session'.state \notin Ended =>
              IF s = "validate" THEN rebuild'[recovery.epoch] # "none"
                                ELSE rebuild'[recovery.epoch] = "succeeded"
    PROVE  Sound
<1>1. TypeOK /\ LaunchesCounted /\ RebuildStands /\ s \in Rounds
  BY DEF RecoverySound, Rounds
<1>2. /\ recovery' \in Recoveries /\ recovery'.step = s /\ recovery'.epoch = recovery.epoch
      /\ UNCHANGED <<call, join, health, expiry>>
  BY <1>1, GoFacts
<1>3. TypeOK'
  BY <1>1, <1>2 DEF TypeOK, Moves
<1>4. RoomForHealth'
  BY <1>2, RoomKept DEF HealthKept
<1>5. LaunchesCounted'
  <2>1. /\ launched \in Nat /\ session.attempts \in Nat /\ session'.attempts \in Nat
        /\ session'.attempts >= session.attempts /\ MaxAttempts \in Nat
    BY <1>1, RecoveryAssumption DEF TypeOK, Moves, Sessions
  <2> QED BY <1>1, <1>2, <2>1 DEF LaunchesCounted, Claimed
<1>6. RebuildStands'
  BY <1>1, <1>2 DEF RebuildStands
<1> QED BY <1>3, <1>4, <1>5, <1>6 DEF Sound, RecoverySound, Moves

(* enqueueRebuild and rebuildValidated.                                    *)
LEMMA RebuildSound ==
    ASSUME RecoverySound, EnqueueRebuild \/ ValidateRebuild \/ AcknowledgeRebuild
    PROVE  Sound
<1>1. TypeOK /\ RebuildStands
  BY DEF RecoverySound
<1>2. recovery.step # "rest" => recovery.epoch \in Epochs
  BY <1>1, RoundFields DEF RebuildStands, Epochs
<1>3. CASE EnqueueRebuild
  <2>1. /\ Go("validate") /\ recovery.step = "enqueue"
        /\ UNCHANGED <<session, row, box, work, machines, restarts>>
        /\ rebuild' = [rebuild EXCEPT ![recovery.epoch] =
                         IF @ = "none" /\ session.state \notin Ended THEN "queued" ELSE @]
    BY <1>3 DEF EnqueueRebuild, At
  <2>2. /\ rebuild' \in [Epochs -> {"none", "queued", "leased", "succeeded", "failed"}]
        /\ session.state \notin Ended => rebuild'[recovery.epoch] # "none"
    BY <1>1, <1>2, <2>1 DEF TypeOK
  <2> QED BY <2>1, <2>2, SessionKept, FoundSound DEF machines
<1>4. CASE ValidateRebuild
  <2>1. /\ recovery.step = "validate" /\ UNCHANGED <<store, machines, restarts>>
        /\ \/ Go("terminal") \/ Done
           \/ /\ rebuild[recovery.epoch] \in {"none", "succeeded"}
              /\ Go("complete") \/ Go("acknowledge")
    BY <1>4 DEF ValidateRebuild, At
  <2>2. "terminal" \in Rounds /\ RebuildKept /\ Moves /\ recovery.epoch # 0
    BY <1>1, <2>1, SessionKept DEF Rounds, RebuildKept, store, RebuildStands
  <2>3. CASE Go("terminal") \/ Done
    BY <1>1, <2>1, <2>2, <2>3, GoSound, DoneSound DEF TypeOK, store, machines
  <2>4. CASE /\ rebuild[recovery.epoch] \in {"none", "succeeded"}
             /\ Go("complete") \/ Go("acknowledge")
    <3>1. session.policy = "rebuild" /\ session.state \notin Ended =>
             rebuild[recovery.epoch] = "succeeded"
      BY <1>1, <2>1, <2>4 DEF RebuildStands
    <3> QED BY <1>1, <2>1, <2>2, <2>4, <3>1, FoundSound DEF TypeOK, store, machines
  <2> QED BY <2>1, <2>3, <2>4
<1>5. CASE AcknowledgeRebuild
  <2>1. /\ recovery.step = "acknowledge" /\ UNCHANGED <<machines, restarts>>
        /\ \/ AcknowledgeRecovery(recovery.epoch, recovery.worker) /\ Go("complete")
           \/ Stop /\ UNCHANGED store
    BY <1>5 DEF AcknowledgeRebuild, At
  <2>2. CASE AcknowledgeRecovery(recovery.epoch, recovery.worker) /\ Go("complete")
    <3>1. /\ Moves /\ session'.epoch = session.epoch /\ session'.state = session.state
          /\ UNCHANGED <<row, box, rebuild, work>>
      BY <2>2, AcknowledgeRecoveryFacts
    <3>2. session'.policy = "rebuild" /\ session'.state \notin Ended =>
             rebuild'[recovery.epoch] = "succeeded"
      BY <1>1, <2>1, <3>1 DEF RebuildStands, Moves
    <3> QED BY <1>1, <2>1, <2>2, <3>1, <3>2, FoundSound DEF TypeOK, machines
  <2>3. CASE Stop /\ UNCHANGED store
    BY <1>1, <2>1, <2>3, StopSound DEF TypeOK, store, machines
  <2> QED BY <2>1, <2>2, <2>3
<1> QED BY <1>3, <1>4, <1>5

LEMMA OutcomeSound ==
    ASSUME RecoverySound, Complete \/ Terminal \/ Fail
    PROVE  Sound
<1>1. TypeOK
  BY DEF RecoverySound
<1>2. UNCHANGED <<machines, restarts>>
  BY DEF Complete, Terminal, Fail, At
<1>3. CASE Complete
  <2>1. CASE CompleteRecovery(recovery.epoch, recovery.worker)
    <3>1. /\ Moves /\ session'.epoch = session.epoch /\ row' \in [Epochs -> Rows]
          /\ UNCHANGED <<box, rebuild, work>> /\ Done
      BY <1>3, <2>1, CompleteRecoveryFacts DEF Complete, At
    <3> QED BY <1>1, <1>2, <3>1, DoneSound DEF TypeOK, machines, RebuildKept
  <2>2. CASE UNCHANGED store
    BY <1>1, <1>2, <1>3, <2>2, SessionKept, DoneSound DEF Complete, TypeOK, machines, store,
       RebuildKept
  <2> QED BY <1>3, <2>1, <2>2 DEF Complete
<1>4. CASE Terminal
  <2>1. CASE TerminalRecovery(recovery.epoch) /\ Done
    BY <1>1, <1>2, <2>1, TerminalRecoveryFacts, DoneSound DEF TypeOK, machines
  <2>2. CASE Stop /\ UNCHANGED store
    BY <1>1, <1>2, <2>2, StopSound DEF TypeOK, store, machines
  <2> QED BY <1>4, <2>1, <2>2 DEF Terminal
<1>5. CASE Fail
  <2>1. UNCHANGED <<box, rebuild, work>>
    BY <1>5 DEF Fail
  <2>2. CASE FailRecovery(recovery.epoch) /\ Done
    BY <1>1, <1>2, <2>1, <2>2, FailRecoveryFacts, DoneSound DEF TypeOK, machines, RebuildKept
  <2>3. CASE Stop /\ UNCHANGED <<session, row>>
    BY <1>1, <1>2, <2>1, <2>3, StopSound DEF TypeOK, machines
  <2> QED BY <1>5, <2>2, <2>3 DEF Fail
<1> QED BY <1>3, <1>4, <1>5

LEMMA ReplacementSound ==
    ASSUME RecoverySound, Reap \/ Exhaust \/ Record
    PROVE  Sound
<1>1. TypeOK /\ RebuildStands
  BY DEF RecoverySound
<1>2. /\ UNCHANGED <<session, row, rebuild, work, launched, restarts>>
      /\ process' \in [Epochs -> Processes] /\ box' \in [Epochs -> {"absent", "free", "held"}]
      /\ Go("fail") \/ Go("terminal") \/ Stop \/ Done
      /\ recovery.step # "rest"
  BY <1>1, TerminateFacts DEF Reap, Exhaust, Record, At, TypeOK, machines
<1>3. /\ "fail" \in Rounds /\ "terminal" \in Rounds /\ RebuildKept /\ Moves /\ recovery.epoch # 0
  BY <1>1, <1>2, SessionKept DEF Rounds, RebuildKept, RebuildStands
<1> QED BY <1>1, <1>2, <1>3, GoSound, StopSound, DoneSound DEF TypeOK

(* ClaimRecovery counts the attempt before it is compared with the limit,  *)
(* and Create uses the one claim that the controller holds.                *)
LEMMA AttemptSound ==
    ASSUME RecoverySound, ClaimRecovery \/ Create
    PROVE  Sound
<1>1. TypeOK /\ LaunchesCounted /\ OwnerCleared /\ RebuildStands /\ session \in Sessions
  BY DEF RecoverySound, TypeOK
<1>2. /\ launched \in Nat /\ session.attempts \in Nat /\ MaxAttempts \in Nat
      /\ session.epoch \in 0 .. MaxEpoch /\ session.epoch # 0
  BY <1>1, SessionFields, RecoveryAssumption DEF TypeOK, Epochs
<1>3. ASSUME ClaimRecovery, MayClaim,
             session' = [session EXCEPT !.recovery = "provisioning", !.attempts = @ + 1],
             recovery' = [recovery EXCEPT !.epoch = session.epoch,
                !.step = IF session.attempts + 1 > MaxAttempts THEN "exhaust" ELSE "create"]
      PROVE  Sound
  <2>1. /\ recovery.step = "claim"
        /\ UNCHANGED <<row, box, rebuild, work, machines, call, join, health, expiry, restarts>>
    BY <1>3 DEF ClaimRecovery, At
  <2>2. session.attempts + 1 \in Nat
    BY <1>2
  <2>3. /\ session' \in Sessions /\ session'.state = session.state
        /\ session'.policy = session.policy /\ session'.attempts = session.attempts + 1
        /\ session'.epoch = session.epoch /\ session'.owner = session.owner
    BY <1>1, <1>3, <2>2 DEF Sessions, Stages
  <2>4. /\ recovery' \in Recoveries /\ recovery'.epoch # 0
        /\ recovery'.step = IF session.attempts + 1 > MaxAttempts THEN "exhaust" ELSE "create"
    BY <1>1, <1>2, <1>3 DEF TypeOK, Recoveries, Rounds
  <2>5. Moves
    BY <1>1, <1>2, <2>3 DEF Moves, OwnerCleared
  <2>6. TypeOK'
    BY <1>1, <2>1, <2>3, <2>4 DEF TypeOK, machines
  <2>7. RoomForHealth'
    BY <2>1, <2>3, RoomKept DEF HealthKept
  <2>8. LaunchesCounted'
    BY <1>1, <1>2, <2>1, <2>3, <2>4 DEF LaunchesCounted, Claimed, machines
  <2>9. RebuildStands'
    BY <2>4 DEF RebuildStands
  <2> QED BY <2>5, <2>6, <2>7, <2>8, <2>9 DEF Sound, RecoverySound, Moves
<1>4. CASE ClaimRecovery /\ recovery' = Between /\ UNCHANGED session
  <2>1. TypeOK'
    BY <1>1, <1>4, Constants DEF TypeOK, ClaimRecovery, At, machines
  <2> QED BY <1>4, <2>1, Quiet DEF ClaimRecovery, machines, RebuildKept, HealthKept, RoundKept
<1>5. CASE Create
  <2>1. recovery.step = "create" /\ recovery.epoch # 0 /\ UNCHANGED <<store, restarts>>
    BY <1>1, <1>5 DEF Create, At, RebuildStands
  <2>2. CASE Go("fail") /\ UNCHANGED machines
    <3>1. RebuildKept /\ "fail" \in Rounds
      BY <2>1 DEF RebuildKept, Rounds, store
    <3> QED BY <1>1, <2>1, <2>2, <3>1, GoSound DEF TypeOK, store, machines
  <2>3. CASE /\ launched' = launched + 1
             /\ process' = [process EXCEPT ![recovery.epoch] =
                              [token |-> launched + 1, phase |-> "boot", epoch |-> 0]]
             /\ Go("record")
    <3>1. "record" \in Rounds /\ launched' \in Nat
      BY <1>2, <2>3 DEF Rounds
    <3>2. process' \in [Epochs -> Processes]
      <4>1. launched + 1 \in Nat /\ 0 \in 0 .. MaxEpoch
        BY <1>2, RecoveryAssumption
      <4>2. [token |-> launched + 1, phase |-> "boot", epoch |-> 0] \in Processes
        BY <4>1 DEF Processes
      <4> QED BY <1>1, <2>3, <4>2 DEF TypeOK
    <3>3. /\ recovery' \in Recoveries /\ recovery'.step = "record"
          /\ recovery'.epoch = recovery.epoch /\ UNCHANGED <<call, join, health, expiry>>
      BY <1>1, <2>3, <3>1, GoFacts
    <3>4. TypeOK'
      BY <1>1, <2>1, <3>1, <3>2, <3>3 DEF TypeOK, store
    <3>5. Moves /\ RebuildKept /\ RoundKept /\ RoomForHealth'
      BY <2>1, <3>3, SessionKept, RoomKept DEF store, RebuildKept, RoundKept, HealthKept
    <3>6. LaunchesCounted'
      BY <1>1, <1>2, <2>1, <2>3, <3>3 DEF LaunchesCounted, Claimed, store
    <3> QED BY <3>4, <3>5, <3>6, StandsKept DEF Sound, RecoverySound, Moves
  <2> QED BY <1>5, <2>2, <2>3 DEF Create
<1> QED BY <1>3, <1>4, <1>5 DEF ClaimRecovery

-----------------------------------------------------------------------------
(* The theorems.                                                           *)

LEMMA NextSound ==
    ASSUME RecoverySound, [Next]_vars
    PROVE  Sound
<1>1. ASSUME NEW w \in Epochs, WorkerStep(w) \/ ExpireLease(w) \/ ProcessDies(w)
      PROVE  Sound
  <2>1. CASE HeartbeatRead(w) \/ CompleteRead(w) \/ AcknowledgeRead(w) \/ RestoreFailedRead(w)
    BY <2>1, AuthenticateSound DEF HeartbeatRead, CompleteRead, AcknowledgeRead,
       RestoreFailedRead
  <2> QED BY <1>1, <2>1, RegistrationSound, WriteSound, AcknowledgeWriteSound,
             RestoreFailedSound, ClaimSound DEF WorkerStep
<1>2. ASSUME \E e \in Epochs, r \in {"succeeded", "failed"} : EndRebuild(e, r)
      PROVE  Sound
  BY <1>2, ClaimSound
<1>3. CASE HealthStep
  BY <1>3, HealthSound
<1>4. CASE RecoveryStep
  BY <1>4, ReadingSound, ChoiceSound, RebuildSound, OutcomeSound, ReplacementSound,
     AttemptSound DEF RecoveryStep
<1>5. CASE \/ CloseSession \/ RecoverSession \/ ExpireSessionsRead \/ ExpireSessionsClose
           \/ Crash
  BY <1>5, ClientSound, ExpirySound, CrashSound
<1>6. CASE UNCHANGED vars
  <2>1. TypeOK'
    BY <1>6 DEF vars, store, machines, flight, RecoverySound, TypeOK
  <2> QED BY <1>6, <2>1, Quiet DEF vars, store, machines, flight, RebuildKept, HealthKept,
             RoundKept
<1> QED BY <1>1, <1>2, <1>3, <1>4, <1>5, <1>6 DEF Next

LEMMA InitSound == Init => RecoverySound
<1> SUFFICES ASSUME Init
             PROVE  RecoverySound
  OBVIOUS
<1>1. PICK p \in Policies :
         session = [state |-> "pending", epoch |-> 1, owner |-> 0, acked |-> FALSE,
                    recovery |-> "idle", attempts |-> 0, policy |-> p]
  BY DEF Init
<1>2. /\ MaxEpoch \in Nat \ {0} /\ MaxAttempts \in Nat /\ MaxRestarts \in Nat
      /\ 0 \in 0 .. MaxEpoch /\ 1 \in Epochs
  BY RecoveryAssumption DEF Epochs
<1>3. /\ session \in Sessions /\ session.owner = 0 /\ session.attempts = 0
      /\ recovery = Between /\ health = Resting /\ launched = 1
  <2>1. session \in Sessions /\ session.owner = 0 /\ session.attempts = 0
    BY <1>1, <1>2 DEF Sessions, States, Stages
  <2> QED BY <2>1 DEF Init
<1>4. row \in [Epochs -> Rows]
  BY <1>2 DEF Init, Rows
<1>5. process \in [Epochs -> Processes]
  BY <1>2, Constants DEF Init, Processes
<1>6. TypeOK
  BY <1>2, <1>3, <1>4, <1>5, Constants DEF TypeOK, Init
<1>7. LaunchesCounted
  BY <1>2, <1>3, Constants DEF LaunchesCounted, Claimed
<1>8. OwnerCleared /\ RoomForHealth /\ RebuildStands
  BY <1>3, Constants DEF OwnerCleared, RoomForHealth, RebuildStands
<1> QED BY <1>6, <1>7, <1>8 DEF RecoverySound

(* RecoverySound holds in every state, however the requests, the health,   *)
(* expiry and recovery controllers, the client and crashes interleave.     *)
THEOREM RecoveryIsSound == Spec => []RecoverySound
<1>1. RecoverySound /\ [Next]_vars => RecoverySound'
  BY NextSound DEF Sound
<1> QED BY <1>1, InitSound, PTL DEF Spec

(* RecoveryController.run starts no more replacements than MaxAttempts,    *)
(* and none that ClaimRecovery has not counted in the session row.         *)
THEOREM AttemptsAreLimited == Spec => []AttemptLimit
<1>1. RecoverySound => AttemptLimit
  <2> SUFFICES ASSUME RecoverySound
               PROVE  AttemptLimit
    OBVIOUS
  <2>1. /\ launched \in Nat /\ session.attempts \in Nat /\ MaxAttempts \in Nat
        /\ LaunchesCounted
    BY SessionFields, RecoveryAssumption DEF RecoverySound, TypeOK
  <2> QED BY <2>1 DEF LaunchesCounted, Claimed, AttemptLimit
<1> QED BY <1>1, RecoveryIsSound, PTL

(* ClaimNextJob's binding and CompleteRecovery name a worker at most once  *)
(* in an epoch of the session.                                             *)
THEOREM OwnerPerEpoch == Spec => OneOwnerPerEpoch
<1>1. RecoverySound /\ [Next]_vars =>
         [session.owner # 0 /\ session'.epoch = session.epoch
             => session'.owner = session.owner]_vars
  BY NextSound DEF Sound, Moves
<1> QED BY <1>1, RecoveryIsSound, PTL DEF Spec, OneOwnerPerEpoch

(* With the rebuild policy CompleteRecovery activates a session only when  *)
(* the rebuild step of that epoch has succeeded, although rebuildValidated *)
(* looked at the step earlier.                                             *)
THEOREM RebuiltFirst == Spec => RebuiltBeforeActive
<1>1. RecoverySound /\ [Next]_vars =>
         [session.policy = "rebuild" /\ session.state = "recovering" /\ session'.state = "active"
             => rebuild[session.epoch] = "succeeded"]_vars
  <2> SUFFICES ASSUME RecoverySound, [Next]_vars,
                      session.policy = "rebuild", session.state = "recovering",
                      session'.state = "active"
               PROVE  rebuild[session.epoch] = "succeeded"
    OBVIOUS
  <2> QED BY NextSound DEF Sound, Moves
<1> QED BY <1>1, RecoveryIsSound, PTL DEF Spec, RebuiltBeforeActive

(* The session row of the handlers and controllers moves as                *)
(* SessionLifecycle says.                                                  *)
THEOREM RecoveryImplementsSession == Spec => ImplementsSession
<1>1. Init => Lifecycle!Init
  BY DEF Init, Lifecycle!Init
<1>2. RecoverySound /\ [Next]_vars => [Lifecycle!Next]_(Lifecycle!vars)
  BY NextSound DEF Sound, Moves, Lifecycle!vars
<1> QED BY <1>1, <1>2, RecoveryIsSound, PTL DEF Spec, ImplementsSession, Lifecycle!Spec
-----------------------------------------------------------------------------
(* What it takes to wedge a recovery.                                      *)

(* SetWorkerHealth acts on what it has read: a worker that was not         *)
(* reserved does not register, nor is a heartbeat of it written back,      *)
(* before its token is revoked, and the process does not end between the   *)
(* revocation and the request for recovery.                                *)
HealthUndisturbed ==
    /\ health.step = "revoke" /\ health.reserved = 0 =>
          ~RegisterWrite(health.worker) /\ ~HeartbeatWrite(health.worker)
    /\ health.step = "recover" => health'.step # "rest" \/ HealthRecover

(* What handlers hold is of an epoch that has been, and comes with a token. *)
CallFits(c) == c.reserved <= session.epoch /\ (c.kind # "none" => c.token # 0)
JoinFits(j) == j.reserved <= session.epoch /\ (j.step # "none" => j.token # 0)
Booted(p)   == p.phase = "boot" => p.token # 0

(* A worker reserved for the epoch under recovery loses its token only in  *)
(* a round of the health controller that goes on to request the next.      *)
Guarded ==
    \A w \in Epochs :
        session.state = "recovering" /\ row[w].reserved = session.epoch /\ row[w].token = 0
            => health.step = "recover" /\ health.worker = w

(* One that was read as unreserved is not reserved for it since.           *)
ReadUnreserved ==
    session.state = "recovering" /\ health.step = "revoke" /\ health.reserved = 0 =>
        \A w \in Epochs : health.worker = w => row[w].reserved # session.epoch

(* The inductive invariant, on top of RecoverySound.                       *)
Unwedged ==
    /\ \A w \in Epochs : /\ row[w].reserved <= session.epoch
                         /\ CallFits(call[w]) /\ JoinFits(join[w]) /\ Booted(process[w])
    /\ Guarded
    /\ ReadUnreserved

(* How a step may move the row of a worker, and the health controller.     *)
RowMoves(w) ==
    \/ row'[w] = row[w]
    \/ row'[w].reserved = 0
    \/ /\ RegisterWrite(w) \/ HeartbeatWrite(w)
       /\ row'[w].token # 0 /\ row'[w].reserved <= session.epoch
    \/ session'.state # "recovering" /\ row'[w].reserved <= session.epoch
    \/ HealthRevoke /\ w = health.worker

HealthMoves ==
    \/ health' \in {health, Resting}
    \/ HealthRevoke \/ HealthRecover \/ \E w \in Epochs : HealthRead(w)

InFlight ==
    \A w \in Epochs : CallFits(call'[w]) /\ JoinFits(join'[w]) /\ Booted(process'[w])

Shifts == (\A w \in Epochs : RowMoves(w)) /\ HealthMoves /\ InFlight

LEMMA InitUnwedged == Init => Unwedged
<1> SUFFICES ASSUME Init
             PROVE  Unwedged
  OBVIOUS
<1>1. session.epoch = 1 /\ session.state = "pending" /\ health.step = "rest"
  BY Constants DEF Init
<1>2. ASSUME NEW w \in Epochs
      PROVE  /\ row[w].reserved <= session.epoch
             /\ CallFits(call[w]) /\ JoinFits(join[w]) /\ Booted(process[w])
  BY <1>1 DEF Init, NoCall, NoJoin, Halted, CallFits, JoinFits, Booted
<1> QED BY <1>1, <1>2 DEF Unwedged, Guarded, ReadUnreserved

(* Steps that leave the rows of the workers, and what handlers hold, alone. *)
LEMMA AsideShifts ==
    ASSUME Unwedged, UNCHANGED row, health' \in {health, Resting},
           \A w \in Epochs : /\ call'[w] \in {call[w], NoCall}
                             /\ join'[w] \in {join[w], NoJoin}
                             /\ process'[w] \in {process[w], Halted}
                                   \/ Booted(process'[w]),
           session.epoch \in Nat
    PROVE  Shifts
<1>1. CallFits(NoCall) /\ JoinFits(NoJoin) /\ Booted(Halted)
  BY DEF NoCall, NoJoin, Halted, CallFits, JoinFits, Booted
<1> QED BY <1>1 DEF Shifts, RowMoves, HealthMoves, InFlight, Unwedged

LEMMA RegistrationShifts ==
    ASSUME RecoverySound, Unwedged, NEW w \in Epochs,
           RegisterRead(w) \/ RegisterSession(w) \/ RegisterWrite(w)
    PROVE  Shifts
<1>1. TypeOK /\ session.epoch \in Nat
  BY SessionFields DEF RecoverySound
<1>2. \A v \in Epochs : /\ row[v].reserved <= session.epoch
                        /\ CallFits(call[v]) /\ JoinFits(join[v]) /\ Booted(process[v])
  BY DEF Unwedged
<1>3. CASE RegisterRead(w)
  <2>1. /\ UNCHANGED <<row, health, call, process>> /\ process[w].phase = "boot"
        /\ join' = [join EXCEPT ![w] =
                      [step |-> IF box[w] = "held" THEN "session" ELSE "write",
                       token |-> process[w].token, reserved |-> 0]]
    BY <1>3 DEF RegisterRead, store, machines
  <2>2. JoinFits(join'[w]) /\ \A v \in Epochs \ {w} : join'[v] = join[v]
    BY <1>1, <1>2, <2>1 DEF JoinFits, Booted, TypeOK
  <2> QED BY <1>2, <2>1, <2>2 DEF Shifts, RowMoves, HealthMoves, InFlight
<1>4. CASE RegisterSession(w)
  <2>1. /\ UNCHANGED <<row, health, call, process>> /\ join[w].step = "session"
        /\ join[w] \in Joins
    BY <1>1, <1>4 DEF RegisterSession, store, machines, TypeOK
  <2>2. \E r \in {0, session.epoch} :
           join' = [join EXCEPT ![w] = [join[w] EXCEPT !.step = "write", !.reserved = r]]
    BY <1>1, <1>4 DEF RegisterSession, TypeOK
  <2>3. JoinFits(join'[w]) /\ \A v \in Epochs \ {w} : join'[v] = join[v]
    BY <1>1, <1>2, <2>1, <2>2 DEF JoinFits, TypeOK, Joins
  <2> QED BY <1>2, <2>1, <2>3 DEF Shifts, RowMoves, HealthMoves, InFlight
<1>5. CASE RegisterWrite(w)
  <2>1. /\ UNCHANGED <<health, call>> /\ join[w].step = "write"
        /\ join' = [join EXCEPT ![w] = NoJoin]
        /\ row' = [row EXCEPT ![w] = [token |-> join[w].token, reserved |-> join[w].reserved]]
    BY <1>5 DEF RegisterWrite
  <2>2. /\ row'[w].token # 0 /\ row'[w].reserved <= session.epoch
        /\ \A v \in Epochs \ {w} : row'[v] = row[v]
    BY <1>1, <1>2, <2>1 DEF JoinFits, TypeOK
  <2>3. \A v \in Epochs : Booted(process'[v])
    BY <1>1, <1>2, <1>5 DEF RegisterWrite, Booted, TypeOK
  <2>4. \A v \in Epochs : JoinFits(join'[v])
    BY <1>1, <1>2, <2>1 DEF JoinFits, NoJoin, TypeOK
  <2>5. \A v \in Epochs : RowMoves(v)
    BY <1>5, <2>2 DEF RowMoves
  <2> QED BY <1>2, <2>1, <2>3, <2>4, <2>5 DEF Shifts, HealthMoves, InFlight
<1> QED BY <1>3, <1>4, <1>5

LEMMA AuthenticateShifts ==
    ASSUME RecoverySound, Unwedged, NEW w \in Epochs, NEW kind, Authenticate(w, kind)
    PROVE  Shifts
<1>1. TypeOK
  BY DEF RecoverySound
<1>2. \A v \in Epochs : /\ row[v].reserved <= session.epoch
                        /\ CallFits(call[v]) /\ JoinFits(join[v]) /\ Booted(process[v])
  BY DEF Unwedged
<1>3. /\ UNCHANGED <<row, health, join, process>> /\ row[w].token # 0
      /\ call' = [call EXCEPT ![w] = [kind |-> kind, token |-> row[w].token,
                                      reserved |-> row[w].reserved]]
  BY DEF Authenticate, Authenticated, store, machines
<1>4. \A v \in Epochs : CallFits(call'[v])
  BY <1>1, <1>2, <1>3 DEF CallFits, TypeOK
<1> QED BY <1>2, <1>3, <1>4 DEF Shifts, RowMoves, HealthMoves, InFlight

LEMMA WriteShifts ==
    ASSUME RecoverySound, Unwedged, NEW w \in Epochs,
           \/ HeartbeatWrite(w) \/ CompleteWrite(w) \/ AcknowledgeWrite(w)
           \/ RestoreFailedReap(w) \/ RestoreFailedWrite(w)
    PROVE  Shifts
<1>1. TypeOK /\ session.epoch \in Nat
  BY SessionFields DEF RecoverySound
<1>2. \A v \in Epochs : /\ row[v].reserved <= session.epoch
                        /\ CallFits(call[v]) /\ JoinFits(join[v]) /\ Booted(process[v])
  BY DEF Unwedged
<1>3. ASSUME Answer(w)
      PROVE  /\ \A v \in Epochs : call'[v] \in {call[v], NoCall} /\ CallFits(call'[v])
             /\ UNCHANGED <<join, health>>
  BY <1>1, <1>2, <1>3 DEF Answer, CallFits, NoCall, TypeOK
<1>4. CASE HeartbeatWrite(w)
  <2>1. /\ Answer(w) /\ UNCHANGED process /\ call[w].kind = "heartbeat"
        /\ row' = [row EXCEPT ![w] = [token |-> call[w].token, reserved |-> call[w].reserved]]
    BY <1>4 DEF HeartbeatWrite
  <2>2. /\ row'[w].token # 0 /\ row'[w].reserved <= session.epoch
        /\ \A v \in Epochs \ {w} : row'[v] = row[v]
    BY <1>1, <1>2, <2>1 DEF CallFits, TypeOK
  <2>3. \A v \in Epochs : RowMoves(v)
    BY <1>4, <2>2 DEF RowMoves
  <2> QED BY <1>2, <1>3, <2>1, <2>3 DEF Shifts, HealthMoves, InFlight
<1>5. CASE CompleteWrite(w)
  BY <1>1, <1>3, <1>5, AsideShifts DEF CompleteWrite
<1>6. CASE AcknowledgeWrite(w)
  <2>1. Answer(w) /\ UNCHANGED row
    BY <1>6 DEF AcknowledgeWrite, AcknowledgeRecovery, store
  <2>2. \A v \in Epochs : Booted(process'[v])
    <3>1. /\ process \in [Epochs -> Processes] /\ process[w] \in Processes
          /\ \/ process' = [process EXCEPT ![w] = [process[w] EXCEPT !.phase = "serve"]]
             \/ process' = [process EXCEPT ![w] = Halted]
             \/ process' = [process EXCEPT ![w] = process[w]]
      BY <1>1, <1>6, Zenon DEF AcknowledgeWrite, TypeOK
    <3>2. [process[w] EXCEPT !.phase = "serve"].phase = "serve" /\ Halted.phase = "halted"
      BY <3>1 DEF Processes, Halted
    <3> QED BY <1>2, <3>1, <3>2 DEF Booted
  <2> QED BY <1>1, <1>3, <2>1, <2>2, AsideShifts
<1>7. CASE RestoreFailedReap(w)
  <2>1. /\ UNCHANGED <<row, join, health>> /\ call[w].kind = "fail"
        /\ call' = [call EXCEPT ![w].kind = "failed"]
        /\ \A v \in Epochs : process'[v] \in {process[v], Halted}
    BY <1>1, <1>7, TerminateFacts DEF RestoreFailedReap
  <2>2. \A v \in Epochs : CallFits(call'[v])
    BY <1>1, <1>2, <2>1 DEF CallFits, TypeOK, Calls
  <2>3. \A v \in Epochs : Booted(process'[v])
    BY <1>1, <1>2, <2>1 DEF Booted, Halted, TypeOK
  <2> QED BY <1>2, <2>1, <2>2, <2>3 DEF Shifts, RowMoves, HealthMoves, InFlight
<1>8. CASE RestoreFailedWrite(w)
  <2>1. Answer(w) /\ UNCHANGED process
    BY <1>8 DEF RestoreFailedWrite
  <2>2. \A v \in Epochs : row'[v] = row[v] \/ row'[v].reserved = 0
    BY <1>1, <1>8 DEF RestoreFailedWrite, FailRecovery, TypeOK, Rows
  <2> QED BY <1>2, <1>3, <2>1, <2>2 DEF Shifts, RowMoves, HealthMoves, InFlight
<1> QED BY <1>4, <1>5, <1>6, <1>7, <1>8

(* Claims, leases, rebuild steps, processes, and the steps of the client   *)
(* and of the expiry controller.                                           *)
LEMMA ClaimShifts ==
    ASSUME RecoverySound, Unwedged, NEW w \in Epochs,
           \/ ClaimBind(w) \/ ClaimActive(w) \/ ExpireLease(w) \/ ProcessDies(w)
           \/ \E e \in Epochs : ClaimRebuild(w, e)
           \/ \E e \in Epochs, r \in {"succeeded", "failed"} : EndRebuild(e, r)
    PROVE  Shifts
<1>1. TypeOK /\ session.epoch \in Nat
  BY SessionFields DEF RecoverySound
<1>2. CASE ClaimBind(w)
  <2>1. /\ UNCHANGED <<process, call, join, health>>
        /\ row' = [row EXCEPT ![w].reserved = session.epoch]
        /\ session'.state = "active"
    BY <1>1, <1>2 DEF ClaimBind, Claim, machines, flight, TypeOK, Sessions
  <2>2. row'[w].reserved <= session.epoch /\ \A v \in Epochs \ {w} : row'[v] = row[v]
    BY <1>1, <2>1 DEF TypeOK, Rows
  <2>3. \A v \in Epochs : RowMoves(v)
    BY <2>1, <2>2 DEF RowMoves
  <2> QED BY <2>1, <2>3 DEF Shifts, HealthMoves, InFlight, Unwedged
<1>3. CASE ProcessDies(w)
  <2>1. /\ UNCHANGED <<row, call, join, health>>
        /\ \A v \in Epochs : process'[v] \in {process[v], Halted}
    BY <1>1, <1>3 DEF ProcessDies, store, flight, TypeOK
  <2> QED BY <1>1, <2>1, AsideShifts
<1>4. CASE \/ ClaimActive(w) \/ ExpireLease(w)
           \/ \E e \in Epochs : ClaimRebuild(w, e)
           \/ \E e \in Epochs, r \in {"succeeded", "failed"} : EndRebuild(e, r)
  <2>1. UNCHANGED <<row, process, call, join, health>>
    BY <1>4 DEF ClaimActive, ExpireLease, ClaimRebuild, EndRebuild, Claim, machines, flight
  <2> QED BY <1>1, <2>1, AsideShifts
<1> QED BY <1>2, <1>3, <1>4

LEMMA StopShifts ==
    ASSUME Unwedged, Stop, UNCHANGED row, session.epoch \in Nat,
           \A v \in Epochs : process'[v] \in {process[v], Halted}
    PROVE  Shifts
BY AsideShifts DEF Stop

LEMMA FinishMovesRows ==
    ASSUME TypeOK, Unwedged, NEW state, FinishIfOpen(state)
    PROVE  \A v \in Epochs : row'[v] = row[v] \/ row'[v].reserved = 0
<1>1. CASE Finish(state)
  BY <1>1 DEF Finish, TypeOK, Rows
<1>2. CASE UNCHANGED store
  BY <1>2 DEF store
<1> QED BY <1>1, <1>2 DEF FinishIfOpen

LEMMA ClientShifts ==
    ASSUME RecoverySound, Unwedged,
           \/ CloseSession \/ RecoverSession \/ ExpireSessionsRead \/ ExpireSessionsClose
           \/ Crash
    PROVE  Shifts
<1>1. TypeOK /\ session.epoch \in Nat
  BY SessionFields DEF RecoverySound
<1>2. CASE CloseSession \/ ExpireSessionsClose
  <2>1. FinishIfOpen("closed") /\ UNCHANGED <<process, call, join, health>>
    BY <1>2 DEF CloseSession, ExpireSessionsClose, FinishIfOpen, machines, flight
  <2>2. \A v \in Epochs : row'[v] = row[v] \/ row'[v].reserved = 0
    BY <1>1, <2>1, FinishMovesRows
  <2> QED BY <2>1, <2>2 DEF Shifts, RowMoves, HealthMoves, InFlight, Unwedged
<1>3. CASE RecoverSession \/ ExpireSessionsRead
  <2>1. UNCHANGED <<row, process, call, join, health>>
    BY <1>3 DEF RecoverSession, RequestRecovery, ExpireSessionsRead, store, machines, flight
  <2> QED BY <1>1, <2>1, AsideShifts
<1>4. CASE Crash
  BY <1>1, <1>4, StopShifts DEF Crash, store, machines
<1> QED BY <1>2, <1>3, <1>4

LEMMA HealthShifts ==
    ASSUME RecoverySound, Unwedged, HealthStep
    PROVE  Shifts
<1>1. TypeOK /\ session.epoch \in Nat
  BY SessionFields DEF RecoverySound
<1>2. ASSUME NEW w \in Epochs, HealthRead(w)
      PROVE  Shifts
  <2>1. UNCHANGED <<row, process, call, join>>
    BY <1>2 DEF HealthRead, store, machines
  <2> QED BY <1>2, <2>1 DEF Shifts, RowMoves, HealthMoves, InFlight, Unwedged
<1>3. CASE HealthRevoke
  <2>1. /\ UNCHANGED <<process, call, join>>
        /\ \A v \in Epochs : v = health.worker \/ row'[v] = row[v]
    BY <1>1, <1>3 DEF HealthRevoke, machines, TypeOK
  <2> QED BY <1>3, <2>1 DEF Shifts, RowMoves, HealthMoves, InFlight, Unwedged
<1>4. CASE HealthRecover
  <2>1. UNCHANGED process /\ HealthMoves
    BY <1>4 DEF HealthRecover, machines, HealthMoves
  <2>2. \A v \in Epochs : row'[v] = row[v] \/ row'[v].reserved = 0
    BY <1>1, <1>4, FinishMovesRows DEF HealthRecover, RequestRecovery, store
  <2>3. CASE UNCHANGED <<call, join>>
    BY <2>1, <2>2, <2>3 DEF Shifts, RowMoves, InFlight, Unwedged
  <2>4. CASE Stop /\ UNCHANGED store
    BY <1>1, <2>1, <2>4, StopShifts DEF store
  <2> QED BY <1>4, <2>3, <2>4 DEF HealthRecover
<1>5. CASE HealthExpire
  BY <1>1, <1>5, AsideShifts DEF HealthExpire, machines
<1> QED BY <1>2, <1>3, <1>4, <1>5 DEF HealthStep

LEMMA RoundShifts ==
    ASSUME RecoverySound, Unwedged, RecoveryStep
    PROVE  Shifts
<1>1. TypeOK /\ session.epoch \in Nat
  BY SessionFields DEF RecoverySound
<1>2. CASE \/ ReadSession \/ ReadBoxes \/ Await \/ StartAnew
           \/ (\E e \in Epochs : Adopt(e) \/ GiveUp(e))
           \/ EnqueueRebuild \/ ValidateRebuild \/ ClaimRecovery \/ Record
  <2>1. UNCHANGED <<row, process, call, join, health>>
    BY <1>2 DEF ReadSession, ReadBoxes, Await, StartAnew, Adopt, GiveUp, EnqueueRebuild,
       ValidateRebuild, ClaimRecovery, Record, Go, Done, store, machines
  <2> QED BY <1>1, <2>1, AsideShifts
<1>3. CASE AcknowledgeRebuild
  <2>1. UNCHANGED <<row, process>>
    BY <1>3 DEF AcknowledgeRebuild, AcknowledgeRecovery, store, machines
  <2> QED BY <1>1, <1>3, <2>1, AsideShifts, StopShifts DEF AcknowledgeRebuild, Go
<1>4. CASE Complete
  <2>1. /\ UNCHANGED <<process, call, join, health>>
        /\ CompleteRecovery(recovery.epoch, recovery.worker) \/ UNCHANGED row
    BY <1>4 DEF Complete, Done, store, machines
  <2>2. CASE CompleteRecovery(recovery.epoch, recovery.worker)
    <3>1. /\ session'.state = "active" /\ recovery.epoch = session.epoch
          /\ row' = [row EXCEPT ![recovery.worker].reserved = recovery.epoch]
      BY <1>1, <2>2 DEF CompleteRecovery, RecoveringAt, TypeOK, Sessions
    <3>2. \A v \in Epochs : row'[v] = row[v] \/ row'[v].reserved = session.epoch
      BY <1>1, <3>1 DEF TypeOK, Rows
    <3>3. \A v \in Epochs : RowMoves(v)
      BY <1>1, <3>1, <3>2 DEF RowMoves
    <3> QED BY <2>1, <3>3 DEF Shifts, HealthMoves, InFlight, Unwedged
  <2>3. CASE UNCHANGED row
    BY <1>1, <2>1, <2>3, AsideShifts
  <2> QED BY <2>1, <2>2, <2>3
<1>5. CASE Terminal \/ Fail
  <2>1. UNCHANGED process
    BY <1>5 DEF Terminal, Fail, machines
  <2>2. CASE Done
    <3>1. \A v \in Epochs : row'[v] = row[v] \/ row'[v].reserved = 0
      BY <1>1, <1>5 DEF Terminal, Fail, TerminalRecovery, FailRecovery, store, TypeOK, Rows
    <3> QED BY <2>1, <2>2, <3>1 DEF Done, Shifts, RowMoves, HealthMoves, InFlight, Unwedged
  <2>3. CASE Stop /\ UNCHANGED row
    BY <1>1, <2>1, <2>3, StopShifts
  <2> QED BY <1>5, <2>2, <2>3 DEF Terminal, Fail, store
<1>6. CASE Reap \/ Exhaust
  <2>1. UNCHANGED row /\ \A v \in Epochs : process'[v] \in {process[v], Halted}
    BY <1>1, <1>6, TerminateFacts DEF Reap, Exhaust
  <2>2. Stop \/ UNCHANGED <<call, join, health>>
    BY <1>6 DEF Reap, Exhaust, Go
  <2> QED BY <1>1, <2>1, <2>2, AsideShifts, StopShifts
<1>7. CASE Create
  <2>1. UNCHANGED <<row, call, join, health>>
    BY <1>7 DEF Create, Go, store
  <2>2. launched + 1 # 0
    BY <1>1 DEF TypeOK
  <2>3. \A v \in Epochs : process'[v] \in {process[v], Halted} \/ Booted(process'[v])
    BY <1>1, <1>7, <2>2 DEF Create, machines, Booted, TypeOK
  <2> QED BY <1>1, <2>1, <2>3, AsideShifts
<1> QED BY <1>2, <1>3, <1>4, <1>5, <1>6, <1>7 DEF RecoveryStep

LEMMA NextShifts ==
    ASSUME RecoverySound, Unwedged, Next
    PROVE  Shifts
<1>1. ASSUME NEW w \in Epochs, WorkerStep(w) \/ ExpireLease(w) \/ ProcessDies(w)
      PROVE  Shifts
  <2>1. CASE HeartbeatRead(w) \/ CompleteRead(w) \/ AcknowledgeRead(w) \/ RestoreFailedRead(w)
    BY <2>1, AuthenticateShifts DEF HeartbeatRead, CompleteRead, AcknowledgeRead,
       RestoreFailedRead
  <2> QED BY <1>1, <2>1, RegistrationShifts, WriteShifts, ClaimShifts DEF WorkerStep
<1>2. ASSUME \E e \in Epochs, r \in {"succeeded", "failed"} : EndRebuild(e, r)
      PROVE  Shifts
  BY <1>2, ClaimShifts
<1>3. CASE HealthStep
  BY <1>3, HealthShifts
<1>4. CASE RecoveryStep
  BY <1>4, RoundShifts
<1>5. CASE \/ CloseSession \/ RecoverSession \/ ExpireSessionsRead \/ ExpireSessionsClose
           \/ Crash
  BY <1>5, ClientShifts
<1> QED BY <1>1, <1>2, <1>3, <1>4, <1>5 DEF Next

(* A session that is recovering in the same epoch was so before the step.  *)
LEMMA EpochFacts ==
    ASSUME TypeOK, Moves
    PROVE  /\ session.epoch \in Nat \ {0} /\ session'.epoch \in {session.epoch, session.epoch + 1}
           /\ session'.state = "recovering" /\ session'.epoch = session.epoch
                 => session.state = "recovering"
<1>1. session.epoch \in Nat \ {0}
  BY SessionFields, RecoveryAssumption DEF Epochs
<1>2. CASE Lifecycle!Next
  BY <1>1, <1>2 DEF Lifecycle!Next, Lifecycle!Bind, Lifecycle!Recover, Lifecycle!Resume,
     Lifecycle!End, Lifecycle!Ended
<1>3. CASE UNCHANGED <<session.state, session.epoch>>
  BY <1>1, <1>3
<1> QED BY <1>2, <1>3 DEF Moves

(* In the epoch under recovery SetWorkerHealth's request opens the next    *)
(* epoch, or ends the session.                                             *)
LEMMA RequestEnds ==
    ASSUME TypeOK, HealthRecover, session.state = "recovering", session'.state = "recovering"
    PROVE  session'.epoch = session.epoch + 1
<1>1. session.state \notin Ended /\ session \in Sessions
  BY DEF Ended, TypeOK
<1>2. CASE session.policy = "none"
  <2>1. session' = [session EXCEPT !.state = "lost"]
    BY <1>1, <1>2 DEF HealthRecover, FinishIfOpen, Finish
  <2>2. session'.state = "lost"
    BY <1>1, <2>1 DEF Sessions
  <2> QED BY <2>2
<1>3. CASE session.policy # "none"
  <2>1. session' = [session EXCEPT !.state = "recovering", !.recovery = "pending",
                      !.epoch = @ + 1, !.owner = 0, !.acked = FALSE]
    BY <1>3 DEF HealthRecover, RequestRecovery, Recoverable
  <2> QED BY <1>1, <2>1 DEF Sessions
<1> QED BY <1>2, <1>3

LEMMA RevokeFacts ==
    ASSUME TypeOK, HealthRevoke
    PROVE  /\ health.step = "revoke" /\ health'.worker = health.worker
           /\ health'.step = IF health.reserved # 0 THEN "recover" ELSE "expire"
           /\ \A v \in Epochs : row'[v].reserved = row[v].reserved
<1>1. /\ health'.worker = health.worker
      /\ health'.step = IF health.reserved # 0 THEN "recover" ELSE "expire"
  BY DEF HealthRevoke, TypeOK, Healths
<1>2. \A v \in Epochs : row'[v].reserved = row[v].reserved
  BY DEF HealthRevoke, TypeOK, Rows
<1> QED BY <1>1, <1>2 DEF HealthRevoke

LEMMA NextUnwedged ==
    ASSUME RecoverySound, Unwedged, Next, HealthUndisturbed
    PROVE  Unwedged'
<1>1. TypeOK /\ TypeOK' /\ Moves
  BY NextSound DEF Sound, RecoverySound
<1>2. Shifts
  BY NextShifts
<1>3. /\ session.epoch \in Nat \ {0} /\ session'.epoch \in {session.epoch, session.epoch + 1}
      /\ session'.state = "recovering" /\ session'.epoch = session.epoch
            => session.state = "recovering"
  BY <1>1, EpochFacts
<1>4. \A v \in Epochs : row'[v].reserved <= session.epoch
  <2> SUFFICES ASSUME NEW v \in Epochs
               PROVE  row'[v].reserved <= session.epoch
    OBVIOUS
  <2>1. RowMoves(v) /\ row[v].reserved <= session.epoch
    BY <1>2 DEF Shifts, Unwedged
  <2>2. HealthRevoke => row'[v].reserved = row[v].reserved
    BY <1>1, RevokeFacts
  <2> QED BY <1>3, <2>1, <2>2 DEF RowMoves
<1>5. ASSUME NEW v \in Epochs
      PROVE  /\ row'[v].reserved <= session'.epoch
             /\ CallFits(call[v])' /\ JoinFits(join[v])' /\ Booted(process[v])'
  <2>1. /\ row'[v].reserved \in Nat /\ call'[v].reserved \in Nat /\ join'[v].reserved \in Nat
    BY <1>1 DEF TypeOK, Rows, Calls, Joins
  <2>2. CallFits(call'[v]) /\ JoinFits(join'[v]) /\ Booted(process'[v])
    BY <1>2 DEF Shifts, InFlight
  <2> QED BY <1>3, <1>4, <2>1, <2>2 DEF CallFits, JoinFits, Booted
<1>6. ASSUME NEW v \in Epochs, session'.state = "recovering", row'[v].reserved = session'.epoch
      PROVE  session'.epoch = session.epoch /\ session.state = "recovering"
  BY <1>3, <1>4, <1>6
<1>7. Guarded'
  <2> SUFFICES ASSUME NEW v \in Epochs, session'.state = "recovering",
                      row'[v].reserved = session'.epoch, row'[v].token = 0
               PROVE  health'.step = "recover" /\ health'.worker = v
    BY DEF Guarded
  <2>1. session'.epoch = session.epoch /\ session.state = "recovering"
    BY <1>6
  <2>2. CASE row'[v] = row[v]
    <3>1. health.step = "recover" /\ health.worker = v
      BY <2>1, <2>2 DEF Unwedged, Guarded
    <3>2. ~HealthRecover
      BY <1>1, <1>3, <2>1, RequestEnds
    <3>3. health'.step # "rest"
      BY <3>1, <3>2 DEF HealthUndisturbed
    <3>4. health' = health
      BY <1>2, <3>1, <3>2, <3>3, Constants DEF Shifts, HealthMoves, HealthRevoke, HealthRead
    <3> QED BY <3>1, <3>4
  <2>3. CASE HealthRevoke /\ v = health.worker
    <3>1. health.reserved # 0
      BY <1>1, <2>1, <2>3, RevokeFacts DEF Unwedged, ReadUnreserved
    <3> QED BY <1>1, <2>3, <3>1, RevokeFacts
  <2> QED BY <1>2, <1>3, <2>1, <2>2, <2>3 DEF Shifts, RowMoves
<1>8. ReadUnreserved'
  <2> SUFFICES ASSUME NEW v \in Epochs, session'.state = "recovering",
                      health'.step = "revoke", health'.reserved = 0, health'.worker = v,
                      row'[v].reserved = session'.epoch
               PROVE  FALSE
    BY DEF ReadUnreserved
  <2>1. session'.epoch = session.epoch /\ session.state = "recovering"
    BY <1>6
  <2>2. ~HealthRevoke
    BY <1>1, RevokeFacts
  <2>3. ~HealthRecover
    BY <1>1, <1>3, <2>1, RequestEnds
  <2>4. ASSUME NEW w \in Epochs, HealthRead(w)
        PROVE  FALSE
    <3>1. v = w /\ row[w].reserved = 0 /\ row' = row
      BY <2>4 DEF HealthRead, store
    <3> QED BY <1>3, <2>1, <3>1
  <2>5. health' = health
    BY <1>2, <2>2, <2>3, <2>4, Constants DEF Shifts, HealthMoves
  <2>6. row[v].reserved # session.epoch
    BY <2>1, <2>5 DEF Unwedged, ReadUnreserved
  <2>7. ~RegisterWrite(v) /\ ~HeartbeatWrite(v)
    BY <2>5 DEF HealthUndisturbed
  <2> QED BY <1>2, <1>3, <2>1, <2>2, <2>6, <2>7 DEF Shifts, RowMoves
<1> QED BY <1>5, <1>7, <1>8 DEF Unwedged

LEMMA StutterUnwedged ==
    ASSUME Unwedged, UNCHANGED vars
    PROVE  Unwedged'
BY DEF vars, store, machines, flight, Unwedged, CallFits, JoinFits, Booted, Guarded,
   ReadUnreserved

(* A recovery gets stuck on a worker without a token in no other way than  *)
(* by what comes between the statements of SetWorkerHealth: a registration *)
(* or a late heartbeat of a worker it has read as unreserved, or the end   *)
(* of the process before it requests the recovery.                         *)
THEOREM OnlyHealthWedges == Spec /\ [][HealthUndisturbed]_vars => []NeverWedged
<1>1. Unwedged => NeverWedged
  BY DEF Unwedged, Guarded, NeverWedged, Wedged
<1>2. RecoverySound /\ Unwedged /\ [Next]_vars /\ [HealthUndisturbed]_vars => Unwedged'
  BY NextUnwedged, StutterUnwedged
<1> QED BY <1>1, <1>2, InitUnwedged, RecoveryIsSound, PTL DEF Spec
====
