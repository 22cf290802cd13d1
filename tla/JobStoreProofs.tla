--------------------------- MODULE JobStoreProofs ---------------------------
(* Proofs about JobStore for every set of jobs, workers and sessions. *)
EXTENDS JobStore, SequenceTheorems, FiniteSetTheorems, TLAPS

-----------------------------------------------------------------------------
(* The shared effects. *)

(* A sequence is a function on an initial segment of the naturals. *)
LEMMA SeqIsFunction ==
    ASSUME NEW S, NEW s, NEW m \in Nat, s \in [1..m -> S]
    PROVE  s \in Seq(S) /\ Len(s) = m
<1>1. s \in Seq(S)
    BY SeqDef
<1>2. DOMAIN s = 1..Len(s) /\ Len(s) \in Nat
    BY <1>1, LenProperties
<1> QED
    BY <1>1, <1>2

(* Ending the active attempts of a job keeps their number and order. *)
LEMMA EndActiveProperties ==
    ASSUME NEW as \in Seq(Attempts), NEW st \in AttemptStates
    PROVE  /\ EndActive(as, st) \in Seq(Attempts)
           /\ Len(EndActive(as, st)) = Len(as)
           /\ DOMAIN EndActive(as, st) = DOMAIN as
           /\ DOMAIN as = 1..Len(as) /\ Len(as) \in Nat
           /\ \A n \in DOMAIN as :
                 /\ as[n] \in Attempts
                 /\ Active(as[n]) => /\ EndActive(as, st)[n].state = st
                                     /\ EndActive(as, st)[n].expires = NoLease
                                     /\ EndActive(as, st)[n].worker = as[n].worker
                 /\ ~Active(as[n]) => EndActive(as, st)[n] = as[n]
<1>1. DOMAIN as = 1..Len(as) /\ Len(as) \in Nat /\ as \in [1..Len(as) -> Attempts]
    BY LenProperties, Zenon
<1>2. EndActive(as, st) \in [1..Len(as) -> Attempts]
    BY <1>1, Zenon DEF EndActive, EndedAs, Attempts, NoLease
<1>3. EndActive(as, st) \in Seq(Attempts) /\ Len(EndActive(as, st)) = Len(as)
    BY <1>1, <1>2, SeqIsFunction, Zenon
<1>4. ASSUME NEW n \in DOMAIN as
      PROVE  /\ as[n] \in Attempts
             /\ Active(as[n]) => /\ EndActive(as, st)[n].state = st
                                 /\ EndActive(as, st)[n].expires = NoLease
                                 /\ EndActive(as, st)[n].worker = as[n].worker
             /\ ~Active(as[n]) => EndActive(as, st)[n] = as[n]
    BY <1>1, Zenon DEF EndActive, EndedAs
<1> QED
    BY <1>1, <1>2, <1>3, <1>4, Zenon

(* In particular, a job keeps its number of attempts.                      *)
LEMMA EndActiveLength ==
    ASSUME NEW as \in Seq(Attempts), NEW st \in AttemptStates
    PROVE  Len(EndActive(as, st)) = Len(as)
BY EndActiveProperties, Zenon

(* A further attempt leaves the earlier ones as they are.                  *)
LEMMA AppendedAttempt ==
    ASSUME NEW as \in Seq(Attempts), NEW a \in Attempts
    PROVE  /\ Len(Append(as, a)) = Len(as) + 1
           /\ DOMAIN Append(as, a) = 1..(Len(as) + 1)
           /\ \A n \in 1..Len(as) : Append(as, a)[n] = as[n]
           /\ Append(as, a)[Len(as) + 1] = a
<1>1. Append(as, a) \in Seq(Attempts) /\ Len(Append(as, a)) = Len(as) + 1
    BY AppendProperties, Zenon
<1>2. DOMAIN Append(as, a) = 1..Len(Append(as, a))
    BY <1>1, LenProperties
<1>3. \A n \in 1..Len(as) : Append(as, a)[n] = as[n]
    OBVIOUS
<1>4. Append(as, a)[Len(as) + 1] = a
    BY AppendProperties, Zenon
<1> QED
    BY <1>1, <1>2, <1>3, <1>4

(* Propagation reaches exactly the unfinished jobs it has a reason to      *)
(* reach: each depends on a root or on another job reached, and no         *)
(* unfinished job that does is left out.                                   *)
LEMMA DownstreamProperties ==
    ASSUME NEW roots
    PROVE  /\ Downstream(roots) \subseteq Jobs
           /\ \A j \in Downstream(roots) :
                 /\ Pending(j)
                 /\ DependsOn[j] \cap (roots \cup Downstream(roots)) # {}
           /\ \A j \in Jobs :
                 Pending(j) /\ DependsOn[j] \cap (roots \cup Downstream(roots)) # {}
                     => j \in Downstream(roots)
<1> DEFINE D == Downstream(roots)
<1>1. D \subseteq Jobs
    BY DEF Downstream
<1>2. ASSUME NEW j \in Jobs, Pending(j), DependsOn[j] \cap (roots \cup D) # {}
      PROVE  j \in D
    <2> SUFFICES ASSUME NEW S \in SUBSET Jobs, ClosedDownstream(roots, S)
                 PROVE  j \in S
        BY DEF Downstream
    <2>1. D \subseteq S
        BY DEF Downstream
    <2> QED
        BY <1>2, <2>1 DEF ClosedDownstream
<1>3. ASSUME NEW j \in D
      PROVE  Pending(j)
    <2> DEFINE P == {k \in Jobs : Pending(k)}
    <2>1. ClosedDownstream(roots, P)
        BY DEF ClosedDownstream
    <2>2. j \in P
        BY <1>3, <2>1 DEF Downstream
    <2> QED
        BY <2>2
<1>4. ASSUME NEW j \in D
      PROVE  DependsOn[j] \cap (roots \cup D) # {}
    <2> SUFFICES ASSUME DependsOn[j] \cap (roots \cup D) = {}
                 PROVE  FALSE
        OBVIOUS
    <2>1. ClosedDownstream(roots, D \ {j})
        BY <1>2 DEF ClosedDownstream
    <2>2. D \ {j} \in SUBSET Jobs
        BY <1>1
    <2>3. j \in D \ {j}
        BY <1>4, <2>1, <2>2 DEF Downstream
    <2> QED
        BY <2>3
<1> QED
    BY <1>1, <1>2, <1>3, <1>4

(* Without an active attempt there is nothing to end.                      *)
LEMMA EndActiveOfInactive ==
    ASSUME NEW as \in Seq(Attempts), NEW st,
           \A n \in DOMAIN as : ~Active(as[n])
    PROVE  EndActive(as, st) = as
<1>1. as = [n \in DOMAIN as |-> as[n]]
    BY LenProperties, Zenon
<1>2. EndActive(as, st) = [n \in DOMAIN as |-> as[n]]
    BY Zenon DEF EndActive
<1> QED
    BY <1>1, <1>2, Zenon

(* When only the attempt n is active, ending n ends all that is active.    *)
LEMMA EndActiveOfOne ==
    ASSUME NEW as \in Seq(Attempts), NEW st, NEW n \in DOMAIN as, Active(as[n]),
           \A m \in DOMAIN as : Active(as[m]) => m = n
    PROVE  EndActive(as, st) = [as EXCEPT ![n] = EndedAs(@, st)]
<1>1. as \in [1..Len(as) -> Attempts] /\ DOMAIN as = 1..Len(as)
    BY LenProperties, Zenon
<1> DEFINE bs == [as EXCEPT ![n] = EndedAs(@, st)]
<1>2. bs = [m \in DOMAIN as |-> IF m = n THEN EndedAs(as[n], st) ELSE as[m]]
    BY <1>1, Zenon
<1>3. EndActive(as, st) = [m \in DOMAIN as |-> IF m = n THEN EndedAs(as[n], st) ELSE as[m]]
    BY Zenon DEF EndActive
<1> QED
    BY <1>2, <1>3

(* A slot counter that gets slots back stays within max_concurrency.       *)
LEMMA ReturnSlotsType ==
    ASSUME TypeOK, NEW ended
    PROVE  /\ ReturnSlots(ended) \in [Workers -> Nat]
           /\ \A w \in Workers : ReturnSlots(ended)[w] <= MaxConcurrency[w]
<1> SUFFICES ASSUME NEW w \in Workers
             PROVE  ReturnSlots(ended)[w] \in Nat /\ ReturnSlots(ended)[w] <= MaxConcurrency[w]
    BY DEF ReturnSlots
<1>1. IsFiniteSet(HeldBy(w) \cap ended)
    BY JobsAssumption, FS_Subset DEF HeldBy
<1>2. Cardinality(HeldBy(w) \cap ended) \in Nat
    BY <1>1, FS_CardinalityType
<1> QED
    BY <1>2, TimingAssumption DEF ReturnSlots, TypeOK

(* Settle gives the ended jobs their outcome; any other job keeps its      *)
(* state, unless it was pending and something it depends on has failed.    *)
LEMMA SettleProperties ==
    ASSUME TypeOK, NEW ended \in SUBSET Jobs, NEW outcome,
           \A j \in ended : outcome[j] \in TerminalJobStates \cup {"queued"},
           \A j \in ended : Pending(j) => outcome[j] \notin {"succeeded", "queued"}
    PROVE  /\ Settle(ended, outcome) \in [Jobs -> JobStates \cup {"none"}]
           /\ \A j \in ended : Settle(ended, outcome)[j] = outcome[j]
           /\ \A j \in Jobs \ ended :
                 \/ Settle(ended, outcome)[j] = jobState[j]
                 \/ /\ Pending(j)
                    /\ Settle(ended, outcome)[j] = "dependency_failed"
                    /\ \E d \in DependsOn[j] :
                          Settle(ended, outcome)[d] \in TerminalJobStates \ {"succeeded"}
<1> DEFINE roots == {j \in ended : outcome[j] \notin {"succeeded", "queued"}}
           new == Settle(ended, outcome)
<1>1. new = [j \in Jobs |-> IF j \in ended THEN outcome[j]
                            ELSE IF j \in Downstream(roots) THEN "dependency_failed"
                            ELSE jobState[j]]
    BY DEF Settle
<1> HIDE DEF new
<1>2. new \in [Jobs -> JobStates \cup {"none"}]
    BY <1>1 DEF TypeOK, JobStates, TerminalJobStates
<1>3. \A d \in roots \cup Downstream(roots) : new[d] \in TerminalJobStates \ {"succeeded"}
    <2> SUFFICES ASSUME NEW d \in roots \cup Downstream(roots)
                 PROVE  new[d] \in TerminalJobStates \ {"succeeded"}
        OBVIOUS
    <2>1. d \in Jobs
        BY DownstreamProperties
    <2>2. CASE d \in ended
        <3>1. outcome[d] \notin {"succeeded", "queued"}
            BY <2>2, DownstreamProperties
        <3> QED
            BY <1>1, <2>1, <2>2, <3>1
    <2>3. CASE d \notin ended
        BY <1>1, <2>1, <2>3 DEF TerminalJobStates
    <2> QED
        BY <2>2, <2>3
<1>4. ASSUME NEW j \in Jobs \ ended, new[j] # jobState[j]
      PROVE  /\ Pending(j)
             /\ new[j] = "dependency_failed"
             /\ \E d \in DependsOn[j] : new[d] \in TerminalJobStates \ {"succeeded"}
    <2>1. j \in Downstream(roots) /\ new[j] = "dependency_failed"
        BY <1>1, <1>4
    <2>2. Pending(j) /\ DependsOn[j] \cap (roots \cup Downstream(roots)) # {}
        BY <2>1, DownstreamProperties, Zenon
    <2>3. PICK d \in DependsOn[j] : d \in roots \cup Downstream(roots)
        BY <2>2
    <2> QED
        BY <1>3, <2>1, <2>2, <2>3
<1>5. \A j \in ended : new[j] = outcome[j]
    BY <1>1
<1> QED
    BY <1>2, <1>4, <1>5 DEF new

(* Events appended with every move into a terminal state keep              *)
(* AnnouncedWhenTerminal, as long as no terminal state is left.            *)
LEMMA AnnounceProperties ==
    ASSUME TypeOK, AnnouncedWhenTerminal,
           NEW newState \in [Jobs -> JobStates \cup {"none"}],
           \A j \in Jobs : Terminal(j) => newState[j] = jobState[j]
    PROVE  /\ Announce(newState) \in [Jobs -> SUBSET TerminalJobStates]
           /\ \A j \in Jobs :
                 IF newState[j] \in TerminalJobStates
                 THEN newState[j] \in Announce(newState)[j]
                 ELSE Announce(newState)[j] = {}
<1> SUFFICES ASSUME NEW j \in Jobs
             PROVE  /\ Announce(newState)[j] \in SUBSET TerminalJobStates
                    /\ IF newState[j] \in TerminalJobStates
                       THEN newState[j] \in Announce(newState)[j]
                       ELSE Announce(newState)[j] = {}
    BY DEF Announce
<1>1. announced[j] \in SUBSET TerminalJobStates
    BY DEF TypeOK
<1> QED
    BY <1>1 DEF Announce, AnnouncedWhenTerminal, Terminal

-----------------------------------------------------------------------------
(* How a step of the store can move one job.  Each action moves every job  *)
(* in one of these ways; what a job's row and its attempts have to do with *)
(* each other is then kept by each of the ways, whatever the action.       *)

Unsuccessful == {"failed", "canceled", "lease_expired", "lost"}

Stays(j) == jobState'[j] = jobState[j] /\ attempts'[j] = attempts[j]

Renews(j) ==
    /\ jobState'[j] = jobState[j]
    /\ \E n \in DOMAIN attempts[j], until \in Nat \ {0} :
          /\ Active(attempts[j][n])
          /\ attempts'[j] = [attempts[j] EXCEPT ![n].expires = until]

Ends(j) ==
    /\ jobState[j] \in {"waiting", "queued", "leased"}
    /\ jobState'[j] \in TerminalJobStates \ {"succeeded"}
    /\ jobState'[j] = "failed" => jobState[j] = "leased"
    /\ jobState'[j] = "dependency_failed" =>
          /\ Pending(j)
          /\ \E d \in DependsOn[j] : jobState'[d] \in TerminalJobStates \ {"succeeded"}
    /\ jobState'[j] = "session_lost" => SessionOf[j] # NoSession
    /\ \E st \in Unsuccessful : attempts'[j] = EndActive(attempts[j], st)

Requeues(j) ==
    /\ jobState[j] = "leased" /\ jobState'[j] = "queued"
    /\ Len(attempts[j]) < MaxAttempts[j]
    /\ \E st \in Unsuccessful : attempts'[j] = EndActive(attempts[j], st)

Succeeds(j) ==
    /\ jobState[j] = "leased" /\ jobState'[j] = "succeeded"
    /\ result[j] = Len(attempts[j])
    /\ attempts'[j] = EndActive(attempts[j], "succeeded")

Promotes(j) ==
    /\ jobState[j] = "waiting" /\ jobState'[j] = "queued"
    /\ \A d \in DependsOn[j] : jobState'[d] = "succeeded"
    /\ attempts'[j] = attempts[j]

Claims(j) ==
    /\ jobState[j] = "queued" /\ jobState'[j] = "leased"
    /\ SessionOpen(j)
    /\ \E w \in Workers, until \in Nat \ {0} :
          attempts'[j] = Append(attempts[j], [worker |-> w, state |-> "leased",
                                              expires |-> until])

Inserts(j) ==
    /\ jobState[j] = "none" /\ jobState'[j] = submission[j]
    /\ submission[j] # "none" /\ submission'[j] = "none"
    /\ attempts'[j] = attempts[j]

JobStep(j) == \/ Stays(j) \/ Renews(j) \/ Ends(j) \/ Requeues(j)
              \/ Succeeds(j) \/ Promotes(j) \/ Claims(j) \/ Inserts(j)

(* What the rows of one job owe each other. *)
WellFormed(j, st, as) ==
    /\ as \in Seq(Attempts)
    /\ st # "running"
    /\ st = "leased" <=> \E n \in DOMAIN as : Active(as[n])
    /\ st = "succeeded" <=> \E n \in DOMAIN as : as[n].state = "succeeded"
    /\ \A n \in DOMAIN as :
          /\ Active(as[n]) => n = Len(as)
          /\ Active(as[n]) <=> as[n].expires # NoLease
          /\ as[n].state = "succeeded" => n = Len(as)
    /\ st \in {"none", "waiting"} => as = <<>>
    /\ Len(as) <= MaxAttempts[j]
    /\ st = "queued" => Len(as) < MaxAttempts[j]

(* The invariant makes the rows of every job well formed.                  *)
LEMMA ConsistentWellFormed ==
    ASSUME Consistent, NEW j \in Jobs
    PROVE  WellFormed(j, jobState[j], attempts[j])
BY DEF Consistent, TypeOK, LeaseDiscipline, AttemptBudget, SuccessIsUnique,
       Bookkeeping, WellFormed

(* Ending what is active leaves a job's rows well formed, once the job is  *)
(* neither leased any more nor succeeded.                                  *)
LEMMA EndedWellFormed ==
    ASSUME NEW j \in Jobs, NEW st, NEW as, NEW new, NEW how \in Unsuccessful,
           WellFormed(j, st, as), st # "succeeded",
           new \in (TerminalJobStates \ {"succeeded"}) \cup {"queued"},
           new = "queued" => Len(as) < MaxAttempts[j]
    PROVE  WellFormed(j, new, EndActive(as, how))
<1> DEFINE bs == EndActive(as, how)
<1>1. as \in Seq(Attempts) /\ how \in AttemptStates /\ how \notin ActiveAttemptStates
    BY Zenon DEF WellFormed, Unsuccessful, AttemptStates, ActiveAttemptStates
<1>2. /\ bs \in Seq(Attempts) /\ Len(bs) = Len(as) /\ DOMAIN bs = DOMAIN as
      /\ \A n \in DOMAIN as :
            /\ Active(as[n]) => bs[n].state = how /\ bs[n].expires = NoLease
            /\ ~Active(as[n]) => bs[n] = as[n]
    BY <1>1, EndActiveProperties, Zenon
<1> HIDE DEF bs
<1>3. \A n \in DOMAIN bs : /\ ~Active(bs[n])
                           /\ bs[n].expires = NoLease
                           /\ bs[n].state # "succeeded"
    BY <1>1, <1>2, Zenon DEF WellFormed, Active, Unsuccessful
<1>4. new \notin {"running", "leased", "succeeded", "none", "waiting"}
    BY DEF TerminalJobStates
<1> QED
    BY <1>2, <1>3, <1>4, Zenon DEF WellFormed, bs

(* Every way a job can move keeps its rows well formed.                    *)
LEMMA JobStepWellFormed ==
    ASSUME NEW j \in Jobs, JobStep(j),
           TypeOK, WellFormed(j, jobState[j], attempts[j])
    PROVE  WellFormed(j, jobState'[j], attempts'[j])
<1> DEFINE as == attempts[j]
<1>0. /\ as \in Seq(Attempts) /\ Len(as) \in Nat /\ DOMAIN as = 1..Len(as)
      /\ \A n \in DOMAIN as : as[n] \in Attempts
      /\ MaxAttempts[j] \in Nat
    BY LenProperties, ElementOfSeq, JobsAssumption DEF WellFormed
<1>1. CASE Stays(j)
    BY <1>1 DEF Stays
<1>2. CASE Renews(j)
    <2>1. PICK n \in DOMAIN as, until \in Nat \ {0} :
              Active(as[n]) /\ attempts'[j] = [as EXCEPT ![n].expires = until]
        BY <1>2 DEF Renews
    <2> DEFINE bs == attempts'[j]
    <2>2. bs \in [1..Len(as) -> Attempts]
        BY <1>0, <2>1, Zenon DEF Attempts
    <2>3. bs \in Seq(Attempts) /\ Len(bs) = Len(as)
        BY <1>0, <2>2, SeqIsFunction
    <2>4. DOMAIN bs = DOMAIN as
        BY <1>0, <2>2
    <2>5. \A m \in DOMAIN as : /\ bs[m].state = as[m].state
                               /\ m # n => bs[m] = as[m]
                               /\ m = n => bs[m].expires # NoLease
        BY <1>0, <2>1 DEF Attempts, NoLease
    <2>6. jobState'[j] = jobState[j]
        BY <1>2 DEF Renews
    <2>7. as # <<>> /\ jobState[j] = "leased"
        BY <1>0, <2>1 DEF WellFormed
    <2> HIDE DEF bs
    <2>8. \A m \in DOMAIN bs : Active(bs[m]) <=> Active(as[m])
        BY <2>4, <2>5 DEF Active
    <2>9. \A m \in DOMAIN bs : /\ Active(bs[m]) => m = Len(bs)
                               /\ Active(bs[m]) <=> bs[m].expires # NoLease
                               /\ bs[m].state # "succeeded"
        BY <2>1, <2>3, <2>4, <2>5, <2>7, <2>8 DEF WellFormed
    <2>10. \E m \in DOMAIN bs : Active(bs[m])
        BY <2>1, <2>4, <2>8
    <2>11. Len(bs) <= MaxAttempts[j]
        BY <2>3 DEF WellFormed
    <2> QED
        BY <2>3, <2>6, <2>7, <2>9, <2>10, <2>11 DEF WellFormed, bs
<1>3. CASE Ends(j)
    BY <1>3, EndedWellFormed DEF Ends, TerminalJobStates
<1>4. CASE Requeues(j)
    BY <1>4, EndedWellFormed DEF Requeues
<1>5. CASE Succeeds(j)
    <2> DEFINE bs == attempts'[j]
    <2>1. /\ bs \in Seq(Attempts) /\ Len(bs) = Len(as) /\ DOMAIN bs = DOMAIN as
          /\ \A n \in DOMAIN as :
                /\ Active(as[n]) => bs[n].state = "succeeded" /\ bs[n].expires = NoLease
                /\ ~Active(as[n]) => bs[n] = as[n]
        BY <1>0, <1>5, EndActiveProperties DEF Succeeds, AttemptStates
    <2> HIDE DEF bs
    <2>2. PICK n \in DOMAIN as : Active(as[n])
        BY <1>5 DEF Succeeds, WellFormed
    <2>3. bs[n].state = "succeeded"
        BY <2>1, <2>2
    <2>4. \A m \in DOMAIN bs : ~Active(bs[m]) /\ bs[m].expires = NoLease
        BY <2>1 DEF Active, ActiveAttemptStates, WellFormed
    <2>5. \A m \in DOMAIN bs : bs[m].state = "succeeded" => m = Len(bs)
        BY <2>1, <1>5 DEF WellFormed, Succeeds
    <2> QED
        BY <1>0, <1>5, <2>1, <2>2, <2>3, <2>4, <2>5 DEF WellFormed, Succeeds, bs
<1>6. CASE Promotes(j)
    <2>1. as = <<>> /\ Len(as) = 0 /\ DOMAIN as = {}
        BY <1>0, <1>6 DEF WellFormed, Promotes
    <2> QED
        BY <1>6, <2>1, JobsAssumption DEF WellFormed, Promotes
<1>7. CASE Claims(j)
    <2>1. PICK w \in Workers, until \in Nat \ {0} :
              attempts'[j] = Append(as, [worker |-> w, state |-> "leased", expires |-> until])
        BY <1>7 DEF Claims
    <2> DEFINE a == [worker |-> w, state |-> "leased", expires |-> until]
               bs == Append(as, a)
    <2>2. a \in Attempts /\ Active(a) /\ a.expires # NoLease /\ a.state # "succeeded"
        BY DEF Attempts, Active, AttemptStates, ActiveAttemptStates, NoLease
    <2> HIDE DEF a
    <2>3. /\ bs \in Seq(Attempts) /\ Len(bs) = Len(as) + 1
          /\ \A m \in 1..Len(as) : bs[m] = as[m]
          /\ bs[Len(as) + 1] = a /\ DOMAIN bs = 1..(Len(as) + 1)
        BY <1>0, <2>2
    <2> HIDE DEF bs
    <2>4. \A m \in DOMAIN as : ~Active(as[m]) /\ as[m].state # "succeeded"
        BY <1>7 DEF WellFormed, Claims
    <2>5. \A m \in DOMAIN bs : m \in DOMAIN as \/ m = Len(bs)
        BY <1>0, <2>3
    <2>6. jobState[j] = "queued" /\ jobState'[j] = "leased" /\ attempts'[j] = bs
        BY <1>7, <2>1 DEF Claims, bs, a
    <2>7. \A m \in DOMAIN bs : /\ Active(bs[m]) => m = Len(bs)
                               /\ Active(bs[m]) <=> bs[m].expires # NoLease
                               /\ bs[m].state # "succeeded"
        BY <1>0, <2>2, <2>3, <2>4, <2>5 DEF WellFormed
    <2>8. \E m \in DOMAIN bs : Active(bs[m])
        BY <1>0, <2>2, <2>3
    <2>9. Len(bs) <= MaxAttempts[j]
        BY <1>0, <2>3, <2>6 DEF WellFormed
    <2> QED
        BY <2>3, <2>6, <2>7, <2>8, <2>9 DEF WellFormed
<1>8. CASE Inserts(j)
    <2>1. as = <<>> /\ Len(as) = 0 /\ DOMAIN as = {}
        BY <1>0, <1>8 DEF WellFormed, Inserts
    <2>2. jobState'[j] \in {"queued", "waiting"}
        BY <1>8 DEF Inserts, TypeOK
    <2> QED
        BY <1>8, <2>1, <2>2, JobsAssumption DEF WellFormed, Inserts
<1> QED
    BY <1>1, <1>2, <1>3, <1>4, <1>5, <1>6, <1>7, <1>8 DEF JobStep

(* The other columns of a job: only an active attempt writes its result,   *)
(* a submission has found its dependencies in its session, and one that is *)
(* decided to be queued has seen them succeed.                             *)
ResultStep(j) ==
    \/ result'[j] = result[j]
    \/ jobState[j] = "leased" /\ jobState'[j] = "leased"

SubmissionStep(j) ==
    \/ submission'[j] \in {submission[j], "none"}
    \/ /\ jobState'[j] = "none" /\ submission'[j] # "none"
       /\ \A d \in DependsOn[j] : SessionOf[d] = SessionOf[j]
       /\ submission'[j] = "queued" =>
             \A d \in DependsOn[j] : jobState[d] = "succeeded"

StoreStep == \A j \in Jobs : JobStep(j) /\ ResultStep(j) /\ SubmissionStep(j)

(* A terminal job stays as it is.                                          *)
LEMMA TerminalStays ==
    ASSUME TypeOK, NEW j \in Jobs, JobStep(j), Terminal(j)
    PROVE  jobState'[j] = jobState[j]
BY DEF JobStep, Stays, Renews, Ends, Requeues, Succeeds, Promotes, Claims,
       Inserts, Terminal, TerminalJobStates

(* Each way of moving keeps the part of the invariant that concerns the    *)
(* rows of jobs, attempts, leases and results.                             *)
LEMMA StoreStepKeeps ==
    ASSUME Consistent, StoreStep
    PROVE  /\ LeaseDiscipline' /\ AttemptBudget' /\ SuccessIsUnique'
           /\ ResultOfWinner' /\ DependenciesInSession' /\ Bookkeeping'
<1>1. TypeOK /\ \A j \in Jobs : WellFormed(j, jobState[j], attempts[j])
    BY ConsistentWellFormed DEF Consistent
<1>2. \A j \in Jobs : WellFormed(j, jobState'[j], attempts'[j])
    BY <1>1, JobStepWellFormed DEF StoreStep
<1>3. LeaseDiscipline'
    BY <1>2 DEF LeaseDiscipline, WellFormed
<1>4. AttemptBudget'
    BY <1>2 DEF AttemptBudget, WellFormed
<1>5. SuccessIsUnique'
    BY <1>2 DEF SuccessIsUnique, WellFormed
<1>6. ResultOfWinner'
    <2> SUFFICES ASSUME NEW j \in Jobs, NEW n \in DOMAIN attempts'[j],
                        attempts'[j][n].state = "succeeded"
                 PROVE  result'[j] = n
        BY DEF ResultOfWinner
    <2>1. jobState'[j] = "succeeded" /\ n = Len(attempts'[j])
        BY <1>2 DEF WellFormed
    <2>2. result'[j] = result[j]
        BY <2>1 DEF StoreStep, ResultStep
    <2>3. Stays(j) \/ Succeeds(j) \/ Renews(j)
        BY <2>1, <1>1 DEF StoreStep, JobStep, Ends, Requeues, Promotes, Claims, Inserts,
                          TypeOK, TerminalJobStates
    <2>4. CASE Stays(j)
        BY <2>2, <2>4 DEF Stays, Consistent, ResultOfWinner
    <2>5. CASE Succeeds(j)
        <3>1. Len(attempts'[j]) = Len(attempts[j])
            BY <1>1, <2>5, EndActiveProperties DEF Succeeds, AttemptStates, WellFormed
        <3> QED
            BY <2>1, <2>2, <2>5, <3>1 DEF Succeeds
    <2>6. CASE Renews(j)
        <3>1. jobState[j] = "succeeded" /\ jobState[j] = "leased"
            BY <1>1, <2>1, <2>6 DEF Renews, WellFormed
        <3> QED
            BY <3>1
    <2> QED
        BY <2>3, <2>4, <2>5, <2>6
<1>7. Bookkeeping'
    <2> SUFFICES ASSUME NEW j \in Jobs
                 PROVE  /\ submission'[j] # "none" => jobState'[j] = "none"
                        /\ \/ attempts'[j] # <<>>
                           \/ jobState'[j] = "queued"
                           \/ submission'[j] = "queued"
                           => \A d \in DependsOn[j] : jobState'[d] = "succeeded"
        BY <1>2 DEF Bookkeeping, WellFormed
    <2> DEFINE Ready == \A d \in DependsOn[j] : jobState[d] = "succeeded"
    <2>1. \A d \in DependsOn[j] : d \in Jobs
        BY JobsAssumption
    <2>2. Ready => \A d \in DependsOn[j] : jobState'[d] = "succeeded"
        BY <1>1, <2>1, TerminalStays DEF StoreStep, Terminal, TerminalJobStates
    <2>3. /\ JobStep(j) /\ SubmissionStep(j)
          /\ submission[j] # "none" => jobState[j] = "none"
          /\ attempts[j] # <<>> \/ jobState[j] = "queued" \/ submission[j] = "queued"
                => Ready
        BY DEF StoreStep, Consistent, Bookkeeping
    <2>4. submission'[j] # "none" => jobState'[j] = "none"
        <3>1. CASE submission'[j] = submission[j] /\ submission[j] # "none"
            BY <1>1, <2>3, <3>1 DEF JobStep, Stays, Renews, Ends, Requeues, Succeeds,
                                    Promotes, Claims, Inserts
        <3> QED
            BY <2>3, <3>1 DEF SubmissionStep
    <2>5. ASSUME attempts'[j] # <<>> \/ jobState'[j] = "queued"
          PROVE  \A d \in DependsOn[j] : jobState'[d] = "succeeded"
        <3>1. jobState[j] = "leased" => attempts[j] # <<>>
            BY <1>1 DEF WellFormed
        <3>2. ASSUME NEW st \in AttemptStates, attempts[j] = <<>>
              PROVE  EndActive(attempts[j], st) = <<>>
            BY <1>1, <3>2, EndActiveProperties DEF WellFormed
        <3>3. CASE Stays(j)
            BY <2>2, <2>3, <2>5, <3>3 DEF Stays
        <3>4. CASE Renews(j)
            <4>1. attempts[j] # <<>>
                BY <3>4 DEF Renews
            <4> QED
                BY <2>2, <2>3, <4>1
        <3>5. CASE Ends(j)
            <4>1. attempts[j] # <<>>
                BY <2>5, <3>2, <3>5 DEF Ends, Unsuccessful, AttemptStates, TerminalJobStates
            <4> QED
                BY <2>2, <2>3, <4>1
        <3>6. CASE Requeues(j) \/ Succeeds(j)
            BY <2>2, <2>3, <3>1, <3>6 DEF Requeues, Succeeds
        <3>7. CASE Promotes(j)
            BY <3>7 DEF Promotes
        <3>8. CASE Claims(j)
            BY <2>2, <2>3, <3>8 DEF Claims
        <3>9. CASE Inserts(j)
            BY <1>1, <2>2, <2>3, <2>5, <3>9 DEF Inserts, WellFormed
        <3> QED
            BY <2>3, <3>3, <3>4, <3>5, <3>6, <3>7, <3>8, <3>9 DEF JobStep
    <2>6. submission'[j] = "queued" => Ready
        BY <2>3 DEF SubmissionStep
    <2> QED
        BY <2>2, <2>4, <2>5, <2>6
<1>8. DependenciesInSession'
    <2> SUFFICES ASSUME NEW j \in Jobs, jobState'[j] # "none" \/ submission'[j] # "none"
                 PROVE  \A d \in DependsOn[j] : SessionOf[d] = SessionOf[j]
        BY DEF DependenciesInSession, Exists
    <2>1. JobStep(j) /\ SubmissionStep(j)
        BY DEF StoreStep
    <2>2. jobState'[j] # "none" => jobState[j] # "none" \/ submission[j] # "none"
        BY <2>1 DEF JobStep, Stays, Renews, Ends, Requeues, Succeeds, Promotes, Claims,
                    Inserts
    <2>3. CASE jobState[j] # "none" \/ submission[j] # "none"
        BY <2>3 DEF Consistent, DependenciesInSession, Exists
    <2>4. CASE ~(jobState[j] # "none" \/ submission[j] # "none")
        BY <2>1, <2>2, <2>4 DEF SubmissionStep
    <2> QED
        BY <2>3, <2>4
<1> QED
    BY <1>3, <1>4, <1>5, <1>6, <1>7, <1>8

-----------------------------------------------------------------------------
(* Each action moves every job in one of these ways. *)

(* A job that goes on waiting does not wait for what the step ended: none  *)
(* of its dependencies has just failed, and the last of them has not just  *)
(* succeeded.                                                              *)
Propagates ==
    \A j \in Jobs : jobState[j] = "waiting" /\ jobState'[j] = "waiting" =>
        /\ \A d \in DependsOn[j] : jobState'[d] \in TerminalJobStates \ {"succeeded"} =>
                                      jobState[d] = jobState'[d]
        /\ (\A d \in DependsOn[j] : jobState'[d] = "succeeded") =>
              \A d \in DependsOn[j] : jobState[d] = "succeeded"

(* A step that reports the end of a job reports it once, or as a failed    *)
(* dependency and then as a timeout.                                       *)
Notices ==
    \A j \in Jobs : \/ announced'[j] = announced[j]
                    \/ \E st \in TerminalJobStates : announced'[j] = {st}
                    \/ announced'[j] = {"dependency_failed", "timed_out"}

(* What an action's own lemma shows; the rest of the invariant follows     *)
(* from it, except where an action is named below.                         *)
Keeps == StoreStep /\ Propagates /\ Notices /\ TypeOK' /\ AnnouncedWhenTerminal'

(* A step that ends no job leaves nothing to propagate.                    *)
LEMMA NothingToPropagate ==
    ASSUME \A j \in Jobs : jobState'[j] \in TerminalJobStates => jobState'[j] = jobState[j]
    PROVE  Propagates
<1>1. \A j \in Jobs : \A d \in DependsOn[j] : d \in Jobs
    BY JobsAssumption
<1>2. "succeeded" \in TerminalJobStates
    BY DEF TerminalJobStates
<1> QED
    BY <1>1, <1>2 DEF Propagates

(* Settling jobs propagates their failures to whatever waits for them.     *)
LEMMA SettlePropagates ==
    ASSUME NEW ended \in SUBSET Jobs, NEW outcome,
           \A j \in ended : outcome[j] \notin {"succeeded", "waiting"},
           jobState' = Settle(ended, outcome)
    PROVE  Propagates
<1> DEFINE roots == {j \in ended : outcome[j] \notin {"succeeded", "queued"}}
           failed == Downstream(roots)
<1>1. \A j \in Jobs : jobState'[j] = IF j \in ended THEN outcome[j]
                                      ELSE IF j \in failed THEN "dependency_failed"
                                      ELSE jobState[j]
    BY DEF Settle
<1>2. \A j \in ended : j \in roots \/ outcome[j] = "queued"
    OBVIOUS
<1>3. \A j \in Jobs : Pending(j) /\ DependsOn[j] \cap (roots \cup failed) # {} => j \in failed
    BY DownstreamProperties, Zenon
<1> HIDE DEF roots, failed
<1> SUFFICES ASSUME NEW j \in Jobs, jobState[j] = "waiting", jobState'[j] = "waiting",
                    NEW d \in DependsOn[j]
             PROVE  jobState'[d] \in TerminalJobStates => jobState[d] = jobState'[d]
    BY DEF Propagates, TerminalJobStates
<1>4. j \notin failed /\ Pending(j) /\ d \in Jobs
    BY <1>1, JobsAssumption DEF Pending
<1>5. d \notin roots /\ d \notin failed
    BY <1>3, <1>4
<1> QED
    BY <1>1, <1>2, <1>4, <1>5 DEF TerminalJobStates

(* A step that leaves jobs, attempts, results and submissions alone moves  *)
(* no job and appends no event.                                            *)
LEMMA IdleKeeps ==
    ASSUME Consistent, jobState' = jobState, attempts' = attempts,
           result' = result, submission' = submission, announced' = announced
    PROVE  StoreStep /\ Propagates /\ Notices
<1>1. StoreStep
    BY DEF StoreStep, JobStep, Stays, ResultStep, SubmissionStep
<1>2. Propagates
    BY NothingToPropagate
<1> QED
    BY <1>1, <1>2 DEF Notices

(* Time passing.                                                           *)
LEMMA TickKeeps ==
    ASSUME Consistent, Tick
    PROVE  Keeps
<1>1. StoreStep /\ Propagates /\ Notices
    BY IdleKeeps DEF Tick
<1>2. TypeOK'
    BY DEF Tick, Consistent, TypeOK
<1>3. AnnouncedWhenTerminal'
    BY DEF Tick, Consistent, AnnouncedWhenTerminal, Terminal
<1> QED
    BY <1>1, <1>2, <1>3 DEF Keeps

(* A step of nothing modelled here.                                        *)
LEMMA StutterKeeps ==
    ASSUME Consistent, UNCHANGED vars
    PROVE  Keeps
<1>1. StoreStep /\ Propagates /\ Notices
    BY IdleKeeps DEF vars
<1>2. TypeOK'
    BY DEF vars, Consistent, TypeOK
<1>3. AnnouncedWhenTerminal'
    BY DEF vars, Consistent, AnnouncedWhenTerminal, Terminal
<1> QED
    BY <1>1, <1>2, <1>3 DEF Keeps

(* A heartbeat: only the slot counter moves, within its range.             *)
LEMMA HeartbeatKeeps ==
    ASSUME Consistent, NEW w \in Workers, NEW free \in 0..MaxConcurrency[w],
           Heartbeat(w, free)
    PROVE  Keeps
<1>1. StoreStep /\ Propagates /\ Notices
    BY IdleKeeps DEF Heartbeat
<1>2. TypeOK'
    <2>1. free \in Nat /\ free <= MaxConcurrency[w]
        BY TimingAssumption
    <2> QED
        BY <2>1 DEF Heartbeat, Consistent, TypeOK
<1>3. AnnouncedWhenTerminal'
    BY DEF Heartbeat, Consistent, AnnouncedWhenTerminal, Terminal
<1> QED
    BY <1>1, <1>2, <1>3 DEF Keeps

(* The reads of CreateJob: a submission decided to be queued has seen its  *)
(* dependencies succeed.                                                   *)
LEMMA CreateJobReadKeeps ==
    ASSUME Consistent, NEW j \in Jobs, CreateJobRead(j)
    PROVE  Keeps
<1>1. StoreStep
    <2> SUFFICES ASSUME NEW k \in Jobs
                 PROVE  JobStep(k) /\ ResultStep(k) /\ SubmissionStep(k)
        BY DEF StoreStep
    <2>1. JobStep(k) /\ ResultStep(k)
        BY DEF CreateJobRead, JobStep, Stays, ResultStep
    <2>2. CASE k = j
        <3> DEFINE Ready == \A d \in DependsOn[j] : jobState[d] = "succeeded"
        <3>1. submission' = [submission EXCEPT ![j] = IF Ready THEN "queued" ELSE "waiting"]
            BY DEF CreateJobRead
        <3> HIDE DEF Ready
        <3>2. submission'[j] = IF Ready THEN "queued" ELSE "waiting"
            BY <3>1 DEF Consistent, TypeOK
        <3>3. jobState'[j] = "none" /\ \A d \in DependsOn[j] : SessionOf[d] = SessionOf[j]
            BY DEF CreateJobRead, Exists
        <3> QED
            BY <2>1, <2>2, <3>2, <3>3 DEF SubmissionStep, Ready
    <2>3. CASE k # j
        <3>1. submission'[k] = submission[k]
            BY <2>3 DEF CreateJobRead, Consistent, TypeOK
        <3> QED
            BY <2>1, <3>1 DEF SubmissionStep
    <2> QED
        BY <2>1, <2>2, <2>3
<1>2. TypeOK'
    BY DEF CreateJobRead, Consistent, TypeOK
<1>3. AnnouncedWhenTerminal'
    BY DEF CreateJobRead, Consistent, AnnouncedWhenTerminal, Terminal
<1>4. Propagates
    BY NothingToPropagate DEF CreateJobRead
<1>5. Notices
    BY DEF CreateJobRead, Notices
<1> QED
    BY <1>1, <1>2, <1>3, <1>4, <1>5 DEF Keeps

(* The INSERT of CreateJob: the new row has no attempt, and its            *)
(* dependencies are as they were read.                                     *)
LEMMA CreateJobInsertKeeps ==
    ASSUME Consistent, NEW j \in Jobs, CreateJobInsert(j)
    PROVE  Keeps
<1>1. TypeOK /\ Bookkeeping
    BY DEF Consistent
<1>2. jobState[j] = "none" /\ submission[j] \in {"queued", "waiting"}
    BY <1>1 DEF CreateJobInsert, TypeOK, Bookkeeping
<1>3. StoreStep
    <2> SUFFICES ASSUME NEW k \in Jobs
                 PROVE  JobStep(k) /\ ResultStep(k) /\ SubmissionStep(k)
        BY DEF StoreStep
    <2>1. ResultStep(k) /\ SubmissionStep(k)
        BY <1>1 DEF CreateJobInsert, ResultStep, SubmissionStep, TypeOK
    <2>2. Stays(k) \/ Inserts(k)
        BY <1>1, <1>2 DEF CreateJobInsert, Stays, Inserts, TypeOK
    <2> QED
        BY <2>1, <2>2 DEF JobStep
<1>4. TypeOK'
    BY <1>1, <1>2 DEF CreateJobInsert, TypeOK, JobStates
<1>5. AnnouncedWhenTerminal'
    <2> SUFFICES ASSUME NEW k \in Jobs
                 PROVE  IF jobState'[k] \in TerminalJobStates
                        THEN jobState'[k] \in announced'[k] ELSE announced'[k] = {}
        BY DEF AnnouncedWhenTerminal, Terminal
    <2>1. jobState'[k] = jobState[k] \/ (k = j /\ jobState'[k] \in {"queued", "waiting"})
        BY <1>1, <1>2 DEF CreateJobInsert, TypeOK
    <2> QED
        BY <1>2, <2>1 DEF CreateJobInsert, Consistent, AnnouncedWhenTerminal, Terminal,
                          TerminalJobStates
<1>6. Propagates
    <2>1. \A k \in Jobs : jobState'[k] \in {jobState[k], "queued", "waiting"}
        BY <1>1, <1>2 DEF CreateJobInsert, TypeOK
    <2> QED
        BY <2>1, NothingToPropagate DEF TerminalJobStates
<1>7. Notices
    BY DEF CreateJobInsert, Notices
<1> QED
    BY <1>3, <1>4, <1>5, <1>6, <1>7 DEF Keeps

(* ClaimNextJob: a queued job has no active attempt, so the new one is     *)
(* alone.                                                                  *)
LEMMA ClaimNextJobKeeps ==
    ASSUME Consistent, NEW w \in Workers, NEW j \in Jobs, NEW at \in Now,
           ClaimNextJob(w, j, at)
    PROVE  Keeps
<1>1. TypeOK /\ jobState[j] = "queued" /\ SessionOpen(j) /\ slots[w] > 0
    BY DEF Consistent, ClaimNextJob, Claimable
<1>2. at \in Nat /\ at + LeaseDuration \in Nat \ {0}
    BY <1>1, TimingAssumption DEF Now, TypeOK
<1>3. NewAttempt(w, at) \in Attempts
    BY <1>2 DEF NewAttempt, Attempts, AttemptStates, ActiveAttemptStates
<1>4. StoreStep
    <2> SUFFICES ASSUME NEW k \in Jobs
                 PROVE  JobStep(k) /\ ResultStep(k) /\ SubmissionStep(k)
        BY DEF StoreStep
    <2>1. ResultStep(k) /\ SubmissionStep(k)
        BY DEF ClaimNextJob, ResultStep, SubmissionStep
    <2>2. CASE k = j
        <3>1. /\ jobState'[j] = "leased"
              /\ attempts'[j] = Append(attempts[j], NewAttempt(w, at))
            BY <1>1 DEF ClaimNextJob, TypeOK
        <3>2. Claims(j)
            BY <1>1, <1>2, <3>1 DEF Claims, NewAttempt
        <3> QED
            BY <2>1, <2>2, <3>2 DEF JobStep
    <2>3. CASE k # j
        <3>1. Stays(k)
            BY <1>1, <2>3 DEF ClaimNextJob, Stays, TypeOK
        <3> QED
            BY <2>1, <3>1 DEF JobStep
    <2> QED
        BY <2>2, <2>3
<1>5. TypeOK'
    <2>1. jobState' \in [Jobs -> JobStates \cup {"none"}]
        BY <1>1 DEF ClaimNextJob, TypeOK, JobStates
    <2>2. attempts' \in [Jobs -> Seq(Attempts)]
        BY <1>1, <1>3 DEF ClaimNextJob, TypeOK
    <2>3. slots' \in [Workers -> Nat] /\ \A v \in Workers : slots'[v] <= MaxConcurrency[v]
        BY <1>1, TimingAssumption DEF ClaimNextJob, TypeOK
    <2> QED
        BY <1>1, <2>1, <2>2, <2>3 DEF ClaimNextJob, TypeOK
<1>6. AnnouncedWhenTerminal'
    BY <1>1 DEF ClaimNextJob, Consistent, AnnouncedWhenTerminal, Terminal, TypeOK,
                TerminalJobStates
<1>7. Propagates
    <2>1. \A k \in Jobs : jobState'[k] \in {jobState[k], "leased"}
        BY <1>1 DEF ClaimNextJob, TypeOK
    <2> QED
        BY <2>1, NothingToPropagate DEF TerminalJobStates
<1>8. Notices
    BY DEF ClaimNextJob, Notices
<1> QED
    BY <1>4, <1>5, <1>6, <1>7, <1>8 DEF Keeps

(* RenewLease: the lease of an active attempt is replaced by a later or    *)
(* earlier one, never by none.                                             *)
LEMMA RenewLeaseKeeps ==
    ASSUME Consistent, NEW w \in Workers, NEW j \in Jobs, NEW n \in DOMAIN attempts[j],
           NEW until \in Nat \ {0}, RenewLease(w, j, n, until)
    PROVE  Keeps
<1>1. TypeOK /\ Active(attempts[j][n])
    BY DEF Consistent, RenewLease
<1>2. attempts' = [attempts EXCEPT ![j] = [attempts[j] EXCEPT ![n].expires = until]]
    BY DEF RenewLease
<1>3. StoreStep
    <2> SUFFICES ASSUME NEW k \in Jobs
                 PROVE  JobStep(k) /\ ResultStep(k) /\ SubmissionStep(k)
        BY DEF StoreStep
    <2>1. CASE k = j
        <3>1. attempts'[j] = [attempts[j] EXCEPT ![n].expires = until]
            BY <1>1, <1>2 DEF TypeOK
        <3>2. Renews(j)
            BY <1>1, <3>1 DEF Renews, RenewLease
        <3> QED
            BY <2>1, <3>2 DEF RenewLease, JobStep, ResultStep, SubmissionStep
    <2>2. CASE k # j
        <3>1. Stays(k)
            BY <1>1, <1>2, <2>2 DEF RenewLease, Stays, TypeOK
        <3> QED
            BY <3>1 DEF RenewLease, JobStep, ResultStep, SubmissionStep
    <2> QED
        BY <2>1, <2>2
<1>4. TypeOK'
    <2>1. attempts[j] \in Seq(Attempts) /\ attempts[j][n] \in Attempts
        BY <1>1, ElementOfSeq, LenProperties DEF TypeOK
    <2>2. [attempts[j][n] EXCEPT !.expires = until] \in Attempts
        BY <2>1 DEF Attempts
    <2>3. [attempts[j] EXCEPT ![n].expires = until] \in Seq(Attempts)
        BY <2>1, <2>2, ExceptSeq, LenProperties
    <2>4. attempts' \in [Jobs -> Seq(Attempts)]
        BY <1>1, <1>2, <2>3 DEF TypeOK
    <2> QED
        BY <1>1, <2>4 DEF RenewLease, TypeOK
<1>5. AnnouncedWhenTerminal'
    BY DEF RenewLease, Consistent, AnnouncedWhenTerminal, Terminal
<1>6. Propagates
    BY NothingToPropagate DEF RenewLease
<1>7. Notices
    BY DEF RenewLease, Notices
<1> QED
    BY <1>3, <1>4, <1>5, <1>6, <1>7 DEF Keeps

(* SaveResult: only a leased job gets a result.                            *)
LEMMA SaveResultKeeps ==
    ASSUME Consistent, NEW w \in Workers, NEW j \in Jobs, NEW n \in DOMAIN attempts[j],
           SaveResult(w, j, n)
    PROVE  Keeps
<1>1. TypeOK /\ jobState[j] = "leased" /\ n \in Nat
    BY LenProperties DEF Consistent, SaveResult, LeaseDiscipline, TypeOK
<1>2. StoreStep
    BY <1>1 DEF SaveResult, StoreStep, JobStep, Stays, ResultStep, SubmissionStep, TypeOK
<1>3. TypeOK'
    BY <1>1 DEF SaveResult, TypeOK
<1>4. AnnouncedWhenTerminal'
    BY DEF SaveResult, Consistent, AnnouncedWhenTerminal, Terminal
<1>5. Propagates
    BY NothingToPropagate DEF SaveResult
<1>6. Notices
    BY DEF SaveResult, Notices
<1> QED
    BY <1>2, <1>3, <1>4, <1>5, <1>6 DEF Keeps

(* When an action settles the jobs in ended and leaves the attempts of the *)
(* others alone, the others stay or fail with a dependency.                *)
LEMMA OthersStayOrEnd ==
    ASSUME Consistent, NEW ended \in SUBSET Jobs, NEW outcome,
           \A j \in ended : outcome[j] \in TerminalJobStates \cup {"queued"},
           \A j \in ended : Pending(j) => outcome[j] \notin {"succeeded", "queued"},
           NEW k \in Jobs \ ended, attempts'[k] = attempts[k],
           jobState' = Settle(ended, outcome)
    PROVE  Stays(k) \/ Ends(k)
<1>1. TypeOK /\ WellFormed(k, jobState[k], attempts[k])
    BY ConsistentWellFormed DEF Consistent
<1>2. \/ jobState'[k] = jobState[k]
      \/ /\ Pending(k)
         /\ jobState'[k] = "dependency_failed"
         /\ \E d \in DependsOn[k] : jobState'[d] \in TerminalJobStates \ {"succeeded"}
    <2>1. \/ Settle(ended, outcome)[k] = jobState[k]
          \/ /\ Pending(k)
             /\ Settle(ended, outcome)[k] = "dependency_failed"
             /\ \E d \in DependsOn[k] :
                   Settle(ended, outcome)[d] \in TerminalJobStates \ {"succeeded"}
        BY <1>1, SettleProperties, Zenon
    <2> QED
        BY <2>1
<1>3. CASE jobState'[k] = jobState[k]
    BY <1>3 DEF Stays
<1>4. CASE jobState'[k] # jobState[k]
    <2>1. \A n \in DOMAIN attempts[k] : ~Active(attempts[k][n])
        BY <1>1, <1>2, <1>4 DEF WellFormed, Pending
    <2>2. attempts'[k] = EndActive(attempts[k], "canceled")
        BY <1>1, <2>1, EndActiveOfInactive DEF WellFormed
    <2> QED
        BY <1>2, <1>4, <2>2 DEF Ends, Pending, TerminalJobStates, Unsuccessful
<1> QED
    BY <1>3, <1>4

(* What an action that settles jobs and announces it does to the columns   *)
(* that Settle and Announce compute.                                       *)
LEMMA SettledAndAnnounced ==
    ASSUME Consistent, StoreStep, jobState' \in [Jobs -> JobStates \cup {"none"}],
           announced' = Announce(jobState')
    PROVE  /\ announced' \in [Jobs -> SUBSET TerminalJobStates]
           /\ AnnouncedWhenTerminal'
           /\ Notices
<1>1. TypeOK /\ AnnouncedWhenTerminal
    BY DEF Consistent
<1>2. \A j \in Jobs : Terminal(j) => jobState'[j] = jobState[j]
    BY <1>1, TerminalStays DEF StoreStep
<1>3. announced' \in [Jobs -> SUBSET TerminalJobStates] /\ AnnouncedWhenTerminal'
    BY <1>1, <1>2, AnnounceProperties DEF AnnouncedWhenTerminal, Terminal
<1>4. Notices
    BY <1>1, <1>2 DEF Announce, AnnouncedWhenTerminal, Terminal, Notices
<1> QED
    BY <1>3, <1>4

(* CancelJob: the job and its active attempt end, and what depends on it   *)
(* with them.                                                              *)
LEMMA CancelJobKeeps ==
    ASSUME Consistent, NEW j \in Jobs, CancelJob(j)
    PROVE  Keeps
<1> DEFINE outcome == [k \in {j} |-> "canceled"]
<1>1. TypeOK /\ WellFormed(j, jobState[j], attempts[j])
    BY ConsistentWellFormed DEF Consistent
<1>2. jobState' = Settle({j}, outcome) /\ {j} \in SUBSET Jobs
    BY DEF CancelJob
<1>3. \A k \in {j} : outcome[k] = "canceled"
    OBVIOUS
<1> HIDE DEF outcome
<1>4. /\ jobState' \in [Jobs -> JobStates \cup {"none"}]
      /\ jobState'[j] = "canceled"
    <2>1. /\ \A k \in {j} : outcome[k] \in TerminalJobStates \cup {"queued"}
          /\ \A k \in {j} : Pending(k) => outcome[k] \notin {"succeeded", "queued"}
        BY <1>3 DEF TerminalJobStates
    <2>2. /\ Settle({j}, outcome) \in [Jobs -> JobStates \cup {"none"}]
          /\ \A k \in {j} : Settle({j}, outcome)[k] = outcome[k]
        BY <1>1, <1>2, <2>1, SettleProperties, ZenonT(30)
    <2> QED
        BY <1>2, <1>3, <2>2
<1>5. /\ attempts'[j] = EndActive(attempts[j], "canceled")
      /\ \A k \in Jobs \ {j} : attempts'[k] = attempts[k]
    BY <1>1 DEF CancelJob, TypeOK
<1>6. StoreStep
    <2> SUFFICES ASSUME NEW k \in Jobs
                 PROVE  JobStep(k) /\ ResultStep(k) /\ SubmissionStep(k)
        BY DEF StoreStep
    <2>1. ResultStep(k) /\ SubmissionStep(k)
        BY DEF CancelJob, ResultStep, SubmissionStep
    <2>2. CASE k = j
        <3>1. jobState[j] \in {"waiting", "queued", "leased"}
            BY <1>1 DEF CancelJob, Exists, Terminal, WellFormed, TypeOK, JobStates
        <3>2. Ends(j)
            BY <1>4, <1>5, <3>1 DEF Ends, TerminalJobStates, Unsuccessful
        <3> QED
            BY <2>1, <2>2, <3>2 DEF JobStep
    <2>3. CASE k # j
        <3>1. Stays(k) \/ Ends(k)
            BY <1>2, <1>3, <1>5, <2>3, OthersStayOrEnd DEF TerminalJobStates
        <3> QED
            BY <2>1, <3>1 DEF JobStep
    <2> QED
        BY <2>2, <2>3
<1>7. announced' \in [Jobs -> SUBSET TerminalJobStates] /\ AnnouncedWhenTerminal' /\ Notices
    BY <1>4, <1>6, SettledAndAnnounced, Zenon DEF CancelJob
<1>8. TypeOK'
    <2>1. EndActive(attempts[j], "canceled") \in Seq(Attempts)
        BY <1>1, EndActiveProperties DEF WellFormed, AttemptStates
    <2>2. attempts' \in [Jobs -> Seq(Attempts)]
        BY <1>1, <2>1 DEF CancelJob, TypeOK
    <2>3. nextAttempt' \in [Jobs -> Nat]
        BY <1>1 DEF CancelJob, TypeOK
    <2> QED
        BY <1>1, <1>4, <1>7, <2>2, <2>3, Zenon DEF CancelJob, TypeOK
<1>9. Propagates
    BY <1>2, <1>3, SettlePropagates
<1> QED
    BY <1>6, <1>7, <1>8, <1>9 DEF Keeps

(* The part that a success report and a failure report have in common.     *)
LEMMA CompleteAttemptEffect ==
    ASSUME Consistent, NEW w \in Workers, NEW j \in Jobs, NEW n \in DOMAIN attempts[j],
           NEW aState \in AttemptStates, NEW outcome, NEW at,
           CompleteAttempt(w, j, n, aState, outcome, at)
    PROVE  /\ TypeOK /\ WellFormed(j, jobState[j], attempts[j])
           /\ jobState[j] = "leased" /\ n = Len(attempts[j])
           /\ attempts'[j] = EndActive(attempts[j], aState)
           /\ \A k \in Jobs \ {j} : attempts'[k] = attempts[k]
           /\ attempts' \in [Jobs -> Seq(Attempts)]
           /\ slots' \in [Workers -> Nat]
           /\ \A v \in Workers : slots'[v] <= MaxConcurrency[v]
<1>1. TypeOK /\ WellFormed(j, jobState[j], attempts[j]) /\ Active(attempts[j][n])
    BY ConsistentWellFormed DEF Consistent, CompleteAttempt
<1>2. jobState[j] = "leased" /\ n = Len(attempts[j])
    BY <1>1 DEF WellFormed
<1>3. attempts' = [attempts EXCEPT ![j] = [attempts[j] EXCEPT ![n] = EndedAs(@, aState)]]
    BY DEF CompleteAttempt
<1>4. EndActive(attempts[j], aState) = [attempts[j] EXCEPT ![n] = EndedAs(@, aState)]
    <2>1. \A m \in DOMAIN attempts[j] : Active(attempts[j][m]) => m = n
        BY <1>1, <1>2 DEF WellFormed
    <2> QED
        BY <1>1, <2>1, EndActiveOfOne DEF WellFormed
<1>5. EndActive(attempts[j], aState) \in Seq(Attempts)
    BY <1>1, EndActiveProperties DEF WellFormed
<1>6. attempts' = [attempts EXCEPT ![j] = EndActive(attempts[j], aState)]
    BY <1>3, <1>4
<1>7. slots' = ReturnSlots({j})
    BY DEF CompleteAttempt
<1> QED
    BY <1>1, <1>2, <1>5, <1>6, <1>7, ReturnSlotsType DEF TypeOK

(* CompleteAttempt of a failure: the job is queued again with attempts     *)
(* left, or fails.                                                         *)
LEMMA FailKeeps ==
    ASSUME Consistent, NEW w \in Workers, NEW j \in Jobs, NEW n \in DOMAIN attempts[j],
           NEW retryable \in BOOLEAN, NEW at \in Now, Fail(w, j, n, retryable, at)
    PROVE  Keeps
<1> DEFINE verdict == AfterFailure(j, n, retryable, at)
           outcome == [k \in {j} |-> verdict]
<1>1. CompleteAttempt(w, j, n, "failed", verdict, at)
    BY DEF Fail
<1>2. /\ verdict \in {"queued", "failed"}
      /\ verdict = "queued" => n < MaxAttempts[j]
    BY DEF AfterFailure
<1> HIDE DEF verdict
<1>3. /\ TypeOK /\ jobState[j] = "leased" /\ n = Len(attempts[j])
      /\ attempts'[j] = EndActive(attempts[j], "failed")
      /\ \A k \in Jobs \ {j} : attempts'[k] = attempts[k]
      /\ attempts' \in [Jobs -> Seq(Attempts)]
      /\ slots' \in [Workers -> Nat]
      /\ \A v \in Workers : slots'[v] <= MaxConcurrency[v]
    BY <1>1, CompleteAttemptEffect, Zenon DEF AttemptStates
<1>4. \A k \in {j} : outcome[k] = verdict
    OBVIOUS
<1>5. jobState' = Settle({j}, outcome) /\ {j} \in SUBSET Jobs
    BY <1>1, <1>2 DEF CompleteAttempt
<1> HIDE DEF outcome
<1>6. /\ \A k \in {j} : outcome[k] \in TerminalJobStates \cup {"queued"}
      /\ \A k \in {j} : Pending(k) => outcome[k] \notin {"succeeded", "queued"}
    BY <1>2, <1>3, <1>4 DEF TerminalJobStates, Pending
<1>7. jobState' \in [Jobs -> JobStates \cup {"none"}] /\ jobState'[j] = verdict
    <2>1. /\ Settle({j}, outcome) \in [Jobs -> JobStates \cup {"none"}]
          /\ \A k \in {j} : Settle({j}, outcome)[k] = outcome[k]
        BY <1>3, <1>5, <1>6, SettleProperties, ZenonT(30)
    <2> QED
        BY <1>4, <1>5, <2>1
<1>8. StoreStep
    <2> SUFFICES ASSUME NEW k \in Jobs
                 PROVE  JobStep(k) /\ ResultStep(k) /\ SubmissionStep(k)
        BY DEF StoreStep
    <2>1. ResultStep(k) /\ SubmissionStep(k)
        BY <1>1 DEF CompleteAttempt, ResultStep, SubmissionStep
    <2>2. CASE k = j /\ verdict = "queued"
        <3>1. Requeues(j)
            BY <1>2, <1>3, <1>7, <2>2 DEF Requeues, Unsuccessful
        <3> QED
            BY <2>1, <2>2, <3>1 DEF JobStep
    <2>3. CASE k = j /\ verdict = "failed"
        <3>1. Ends(j)
            BY <1>3, <1>7, <2>3 DEF Ends, Unsuccessful, TerminalJobStates
        <3> QED
            BY <2>1, <2>3, <3>1 DEF JobStep
    <2>4. CASE k # j
        <3>1. Stays(k) \/ Ends(k)
            BY <1>3, <1>5, <1>6, <2>4, OthersStayOrEnd, Zenon
        <3> QED
            BY <2>1, <3>1 DEF JobStep
    <2> QED
        BY <1>2, <2>2, <2>3, <2>4
<1>9. announced' = Announce(jobState')
    BY <1>1 DEF CompleteAttempt
<1>10. announced' \in [Jobs -> SUBSET TerminalJobStates] /\ AnnouncedWhenTerminal' /\ Notices
    BY <1>7, <1>8, <1>9, SettledAndAnnounced
<1>11. TypeOK'
    BY <1>1, <1>3, <1>7, <1>10, Zenon DEF CompleteAttempt, TypeOK
<1>12. Propagates
    <2>1. \A k \in {j} : outcome[k] \notin {"succeeded", "waiting"}
        BY <1>2, <1>4
    <2> QED
        BY <1>5, <2>1, SettlePropagates
<1> QED
    BY <1>8, <1>10, <1>11, <1>12 DEF Keeps

(* A success fails nobody.                                                 *)
LEMMA DownstreamOfNone == Downstream({}) = {}
<1>1. ClosedDownstream({}, {})
    BY DEF ClosedDownstream
<1> QED
    BY <1>1 DEF Downstream

(* What a success does to the job rows: nothing fails with it.             *)
LEMMA CompleteMoves ==
    ASSUME NEW w, NEW j \in Jobs, NEW n, NEW at, Complete(w, j, n, at)
    PROVE  jobState' = [k \in Jobs |-> IF k \in Released(j) THEN "queued"
                                       ELSE IF k = j THEN "succeeded" ELSE jobState[k]]
<1> DEFINE outcome == [k \in {j} |-> "succeeded"]
<1>1. Settle({j}, outcome) =
          [k \in Jobs |-> IF k \in {j} THEN outcome[k] ELSE jobState[k]]
    <2>1. {k \in {j} : outcome[k] \notin {"succeeded", "queued"}} = {}
        OBVIOUS
    <2> QED
        BY <2>1, DownstreamOfNone DEF Settle
<1>2. jobState' = [k \in Jobs |-> IF k \in Released(j) THEN "queued"
                                  ELSE Settle({j}, outcome)[k]]
    BY DEF Complete, CompleteAttempt
<1> QED
    BY <1>1, <1>2

(* CompleteAttempt of a success: the job succeeds and releases exactly the *)
(* jobs whose dependencies have now all succeeded.                         *)
LEMMA CompleteKeeps ==
    ASSUME Consistent, NEW w \in Workers, NEW j \in Jobs, NEW n \in DOMAIN attempts[j],
           NEW at \in Now, Complete(w, j, n, at)
    PROVE  Keeps
<1>1. CompleteAttempt(w, j, n, "succeeded", "succeeded", at) /\ result[j] = n
    BY DEF Complete
<1>2. /\ TypeOK /\ jobState[j] = "leased" /\ n = Len(attempts[j])
      /\ attempts'[j] = EndActive(attempts[j], "succeeded")
      /\ \A k \in Jobs \ {j} : attempts'[k] = attempts[k]
      /\ attempts' \in [Jobs -> Seq(Attempts)]
      /\ slots' \in [Workers -> Nat]
      /\ \A v \in Workers : slots'[v] <= MaxConcurrency[v]
    BY <1>1, CompleteAttemptEffect, Zenon DEF AttemptStates
<1>5. jobState' = [k \in Jobs |-> IF k \in Released(j) THEN "queued"
                                  ELSE IF k = j THEN "succeeded" ELSE jobState[k]]
    BY CompleteMoves, Zenon
<1>6. \A k \in Released(j) : /\ jobState[k] = "waiting" /\ k # j
                             /\ \A d \in DependsOn[k] : d = j \/ jobState[d] = "succeeded"
    BY <1>2 DEF Released
<1>7. jobState' \in [Jobs -> JobStates \cup {"none"}] /\ jobState'[j] = "succeeded"
    BY <1>2, <1>5, <1>6 DEF TypeOK, JobStates, TerminalJobStates
<1>8. StoreStep
    <2> SUFFICES ASSUME NEW k \in Jobs
                 PROVE  JobStep(k) /\ ResultStep(k) /\ SubmissionStep(k)
        BY DEF StoreStep
    <2>1. ResultStep(k) /\ SubmissionStep(k)
        BY <1>1 DEF CompleteAttempt, ResultStep, SubmissionStep
    <2>2. CASE k = j
        <3>1. Succeeds(j)
            BY <1>1, <1>2, <1>7 DEF Succeeds
        <3> QED
            BY <2>1, <2>2, <3>1 DEF JobStep
    <2>3. CASE k \in Released(j)
        <3>1. \A d \in DependsOn[k] : d \in Jobs /\ jobState'[d] = "succeeded"
            BY <1>5, <1>6, <1>7, <2>3, JobsAssumption
        <3>2. Promotes(k)
            BY <1>2, <1>5, <1>6, <2>3, <3>1 DEF Promotes
        <3> QED
            BY <2>1, <3>2 DEF JobStep
    <2>4. CASE k # j /\ k \notin Released(j)
        <3>1. Stays(k)
            BY <1>2, <1>5, <2>4 DEF Stays
        <3> QED
            BY <2>1, <3>1 DEF JobStep
    <2> QED
        BY <2>2, <2>3, <2>4
<1>9. announced' = Announce(jobState')
    BY <1>1 DEF CompleteAttempt
<1>10. announced' \in [Jobs -> SUBSET TerminalJobStates] /\ AnnouncedWhenTerminal' /\ Notices
    BY <1>7, <1>8, <1>9, SettledAndAnnounced
<1>11. TypeOK'
    BY <1>1, <1>2, <1>7, <1>10, Zenon DEF CompleteAttempt, TypeOK
<1>12. Propagates
    <2> SUFFICES ASSUME NEW k \in Jobs, jobState[k] = "waiting", jobState'[k] = "waiting"
                 PROVE  /\ \A d \in DependsOn[k] :
                              jobState'[d] \in TerminalJobStates \ {"succeeded"} =>
                                  jobState[d] = jobState'[d]
                        /\ (\A d \in DependsOn[k] : jobState'[d] = "succeeded") =>
                              \A d \in DependsOn[k] : jobState[d] = "succeeded"
        BY DEF Propagates
    <2>1. k \notin Released(j) /\ \A d \in DependsOn[k] : d \in Jobs
        BY <1>5, JobsAssumption
    <2>2. \A d \in Jobs : /\ jobState'[d] = "succeeded" => d = j \/ jobState[d] = "succeeded"
                          /\ jobState'[d] \in TerminalJobStates \ {"succeeded"} =>
                                jobState[d] = jobState'[d]
        BY <1>5 DEF TerminalJobStates
    <2>3. ASSUME \A d \in DependsOn[k] : jobState'[d] = "succeeded"
          PROVE  \A d \in DependsOn[k] : jobState[d] = "succeeded"
        <3>1. \A d \in DependsOn[k] : d = j \/ jobState[d] = "succeeded"
            BY <2>1, <2>2, <2>3
        <3>2. j \notin DependsOn[k]
            BY <2>1, <3>1 DEF Released
        <3> QED
            BY <3>1, <3>2
    <2> QED
        BY <2>1, <2>2, <2>3
<1> QED
    BY <1>8, <1>10, <1>11, <1>12 DEF Keeps

(* The lease reaper and the loss of a worker differ only in the leases     *)
(* they choose.                                                            *)
LEMMA expireLeasesKeeps ==
    ASSUME Consistent, NEW expired \in SUBSET Jobs, NEW now \in Now,
           \A j \in expired : \E n \in DOMAIN attempts[j] : Active(attempts[j][n]),
           expireLeases(expired, now)
    PROVE  Keeps
<1> DEFINE outcome == [j \in expired |-> AfterExpiry(j, now)]
<1>1. TypeOK /\ \A j \in Jobs : WellFormed(j, jobState[j], attempts[j])
    BY ConsistentWellFormed DEF Consistent
<1>2. \A j \in expired : jobState[j] = "leased"
    BY <1>1 DEF WellFormed
<1>3. {j \in expired : jobState[j] \in {"leased", "running"}} = expired
    BY <1>2
<1>4. /\ jobState' = Settle(expired, outcome)
      /\ \E delay \in [expired -> RetryDelays] :
            nextAttempt' = [j \in Jobs |->
                IF j \notin expired THEN nextAttempt[j]
                ELSE IF AfterExpiry(j, now) = "queued" THEN now + delay[j] ELSE 0]
    BY <1>3 DEF expireLeases
<1>5. \A j \in expired : /\ outcome[j] \in {"timed_out", "failed", "queued"}
                         /\ outcome[j] = "queued" => Len(attempts[j]) < MaxAttempts[j]
    <2> SUFFICES ASSUME NEW j \in expired
                 PROVE  /\ AfterExpiry(j, now) \in {"timed_out", "failed", "queued"}
                        /\ AfterExpiry(j, now) = "queued" => Len(attempts[j]) < MaxAttempts[j]
        OBVIOUS
    <2>1. \A n \in DOMAIN attempts[j] : Active(attempts[j][n]) => n = Len(attempts[j])
        BY <1>1 DEF WellFormed
    <2> QED
        BY <2>1 DEF AfterExpiry
<1> HIDE DEF outcome
<1>6. /\ \A j \in expired : outcome[j] \in TerminalJobStates \cup {"queued"}
      /\ \A j \in expired : Pending(j) => outcome[j] \notin {"succeeded", "queued"}
    BY <1>2, <1>5 DEF Pending, TerminalJobStates
<1>7. /\ jobState' \in [Jobs -> JobStates \cup {"none"}]
      /\ \A j \in expired : jobState'[j] = outcome[j]
    <2>1. TypeOK
        BY <1>1
    <2>2. Settle(expired, outcome) \in [Jobs -> JobStates \cup {"none"}]
        BY <2>1, <1>6, SettleProperties
    <2>3. \A j \in expired : Settle(expired, outcome)[j] = outcome[j]
        BY DEF Settle
    <2> QED
        BY <1>4, <2>2, <2>3
<1>8. \A j \in Jobs : attempts'[j] = IF j \in expired
                                      THEN EndActive(attempts[j], "lease_expired")
                                      ELSE attempts[j]
    BY DEF expireLeases
<1>9. StoreStep
    <2> SUFFICES ASSUME NEW k \in Jobs
                 PROVE  JobStep(k) /\ ResultStep(k) /\ SubmissionStep(k)
        BY DEF StoreStep
    <2>1. ResultStep(k) /\ SubmissionStep(k)
        BY DEF expireLeases, ResultStep, SubmissionStep
    <2>2. CASE k \in expired /\ outcome[k] = "queued"
        <3>1. Requeues(k)
            BY <1>2, <1>5, <1>7, <1>8, <2>2 DEF Requeues, Unsuccessful
        <3> QED
            BY <2>1, <3>1 DEF JobStep
    <2>3. CASE k \in expired /\ outcome[k] # "queued"
        <3>1. jobState'[k] \in {"timed_out", "failed"} /\ jobState[k] = "leased"
            BY <1>2, <1>5, <1>7, <2>3
        <3>2. Ends(k)
            BY <1>8, <2>3, <3>1 DEF Ends, Unsuccessful, TerminalJobStates
        <3> QED
            BY <2>1, <3>2 DEF JobStep
    <2>4. CASE k \notin expired
        <3>1. attempts'[k] = attempts[k]
            BY <1>8, <2>4
        <3>2. Stays(k) \/ Ends(k)
            BY <1>4, <1>6, <2>4, <3>1, OthersStayOrEnd
        <3> QED
            BY <2>1, <3>2 DEF JobStep
    <2> QED
        BY <2>2, <2>3, <2>4
<1>10. announced' \in [Jobs -> SUBSET TerminalJobStates] /\ AnnouncedWhenTerminal' /\ Notices
    BY <1>7, <1>9, SettledAndAnnounced DEF expireLeases
<1>11. TypeOK'
    <2>1. attempts' \in [Jobs -> Seq(Attempts)]
        <3>1. \A j \in Jobs : EndActive(attempts[j], "lease_expired") \in Seq(Attempts)
            BY <1>1, EndActiveProperties DEF TypeOK, AttemptStates
        <3> QED
            BY <1>1, <3>1 DEF expireLeases, TypeOK
    <2>2. slots' \in [Workers -> Nat] /\ \A v \in Workers : slots'[v] <= MaxConcurrency[v]
        BY <1>1, ReturnSlotsType DEF expireLeases
    <2>3. nextAttempt' \in [Jobs -> Nat]
        <3>1. PICK delay \in [expired -> RetryDelays] :
                  nextAttempt' = [j \in Jobs |->
                      IF j \notin expired THEN nextAttempt[j]
                      ELSE IF AfterExpiry(j, now) = "queued" THEN now + delay[j] ELSE 0]
            BY <1>4
        <3>2. \A j \in expired : delay[j] \in Nat
            BY TimingAssumption, Zenon
        <3>3. now \in Nat
            BY <1>1 DEF Now, TypeOK
        <3> QED
            BY <1>1, <3>1, <3>2, <3>3 DEF TypeOK
    <2> QED
        BY <1>1, <1>7, <1>10, <2>1, <2>2, <2>3, Zenon DEF expireLeases, TypeOK
<1>12. Propagates
    <2>1. \A j \in expired : outcome[j] \notin {"succeeded", "waiting"}
        BY <1>5
    <2> QED
        BY <1>4, <2>1, SettlePropagates
<1> QED
    BY <1>9, <1>10, <1>11, <1>12 DEF Keeps

(* TimeoutJobs: the overdue jobs end, and what depends on them.            *)
LEMMA TimeoutJobsKeeps ==
    ASSUME Consistent, NEW now \in Now, TimeoutJobs(now)
    PROVE  Keeps
<1> DEFINE overdue == Overdue(now)
           outcome == [j \in overdue |-> "timed_out"]
<1>1. TypeOK
    BY DEF Consistent
<1>2. /\ overdue \in SUBSET Jobs
      /\ \A j \in overdue : jobState[j] \in {"waiting", "queued", "leased"}
    BY <1>1 DEF Overdue, Exists, Terminal, TypeOK, JobStates, Consistent, Bookkeeping
<1>3. \A j \in overdue : outcome[j] = "timed_out"
    OBVIOUS
<1>4. jobState' = Settle(overdue, outcome)
    BY DEF TimeoutJobs
<1>5. /\ \A j \in Jobs : attempts'[j] = IF j \in overdue
                                         THEN EndActive(attempts[j], "canceled")
                                         ELSE attempts[j]
      /\ attempts' = [j \in Jobs |-> attempts'[j]]
    BY DEF TimeoutJobs
<1>6. PICK late \in SUBSET overdue :
          announced' = [j \in Jobs |-> Announce(jobState')[j] \cup
                           (IF j \in late THEN {"dependency_failed"} ELSE {})]
    BY DEF TimeoutJobs
<1>7. /\ slots' = ReturnSlots(overdue)
      /\ nextAttempt' = [j \in Jobs |-> IF j \in overdue THEN 0 ELSE nextAttempt[j]]
      /\ UNCHANGED <<clock, session, submission, result>>
    BY DEF TimeoutJobs
<1> HIDE DEF overdue, outcome
<1>8. /\ \A j \in overdue : outcome[j] \in TerminalJobStates \cup {"queued"}
      /\ \A j \in overdue : Pending(j) => outcome[j] \notin {"succeeded", "queued"}
    BY <1>3 DEF TerminalJobStates
<1>9. jobState' \in [Jobs -> JobStates \cup {"none"}]
    BY <1>1, <1>2, <1>4, <1>8, SettleProperties
<1>10. \A j \in overdue : jobState'[j] = "timed_out"
    BY <1>2, <1>3, <1>4 DEF Settle
<1>11. StoreStep
    <2> SUFFICES ASSUME NEW k \in Jobs
                 PROVE  JobStep(k) /\ ResultStep(k) /\ SubmissionStep(k)
        BY DEF StoreStep
    <2>1. ResultStep(k) /\ SubmissionStep(k)
        BY <1>7, Zenon DEF ResultStep, SubmissionStep
    <2>2. CASE k \in overdue
        <3>1. Ends(k)
            BY <1>2, <1>5, <1>10, <2>2 DEF Ends, Unsuccessful, TerminalJobStates
        <3> QED
            BY <2>1, <3>1 DEF JobStep
    <2>3. CASE k \notin overdue
        <3>1. attempts'[k] = attempts[k]
            BY <1>5, <2>3
        <3>2. Stays(k) \/ Ends(k)
            BY <1>2, <1>4, <1>8, <2>3, <3>1, OthersStayOrEnd, Zenon
        <3> QED
            BY <2>1, <3>2 DEF JobStep
    <2> QED
        BY <2>2, <2>3
<1>12. /\ Announce(jobState') \in [Jobs -> SUBSET TerminalJobStates]
       /\ \A j \in Jobs : IF jobState'[j] \in TerminalJobStates
                           THEN jobState'[j] \in Announce(jobState')[j]
                           ELSE Announce(jobState')[j] = {}
    <2>1. \A j \in Jobs : Terminal(j) => jobState'[j] = jobState[j]
        BY <1>1, <1>11, TerminalStays, Zenon DEF StoreStep
    <2> QED
        BY <1>1, <1>9, <2>1, AnnounceProperties DEF Consistent
<1>13. AnnouncedWhenTerminal'
    <2> SUFFICES ASSUME NEW k \in Jobs
                 PROVE  IF jobState'[k] \in TerminalJobStates
                        THEN jobState'[k] \in announced'[k] ELSE announced'[k] = {}
        BY DEF AnnouncedWhenTerminal, Terminal
    <2>1. k \in late => jobState'[k] \in TerminalJobStates
        BY <1>6, <1>10 DEF TerminalJobStates
    <2> QED
        BY <1>6, <1>12, <2>1
<1>14. TypeOK'
    <2>1. attempts' \in [Jobs -> Seq(Attempts)]
        <3>1. \A j \in Jobs : EndActive(attempts[j], "canceled") \in Seq(Attempts)
            BY <1>1, EndActiveProperties DEF TypeOK, AttemptStates
        <3> QED
            BY <1>1, <1>5, <3>1, Zenon DEF TypeOK
    <2>2. slots' \in [Workers -> Nat] /\ \A v \in Workers : slots'[v] <= MaxConcurrency[v]
        BY <1>1, <1>7, ReturnSlotsType
    <2>3. nextAttempt' \in [Jobs -> Nat]
        BY <1>1, <1>7 DEF TypeOK
    <2>4. announced' \in [Jobs -> SUBSET TerminalJobStates]
        BY <1>6, <1>12 DEF TerminalJobStates
    <2> QED
        BY <1>1, <1>7, <1>9, <2>1, <2>2, <2>3, <2>4 DEF TypeOK
<1>15. Propagates
    BY <1>2, <1>3, <1>4, SettlePropagates
<1>16. Notices
    <2> SUFFICES ASSUME NEW k \in Jobs
                 PROVE  \/ announced'[k] = announced[k]
                        \/ \E st \in TerminalJobStates : announced'[k] = {st}
                        \/ announced'[k] = {"dependency_failed", "timed_out"}
        BY DEF Notices
    <2>1. Announce(jobState')[k] =
              IF jobState'[k] # jobState[k] /\ jobState'[k] \in TerminalJobStates
              THEN announced[k] \cup {jobState'[k]} ELSE announced[k]
        BY DEF Announce
    <2>2. announced'[k] = Announce(jobState')[k] \cup
                             (IF k \in late THEN {"dependency_failed"} ELSE {})
        BY <1>6
    <2>3. Terminal(k) => jobState'[k] = jobState[k]
        BY <1>1, <1>11, TerminalStays, Zenon DEF StoreStep
    <2>4. ~Terminal(k) => announced[k] = {}
        BY DEF Consistent, AnnouncedWhenTerminal
    <2>5. CASE k \in late
        <3>1. jobState'[k] = "timed_out" /\ ~Terminal(k)
            BY <1>2, <1>6, <1>10, <2>5 DEF Terminal, TerminalJobStates
        <3>2. Announce(jobState')[k] = {"timed_out"}
            BY <2>1, <2>4, <3>1 DEF Terminal, TerminalJobStates
        <3> QED
            BY <2>2, <2>5, <3>2
    <2>6. CASE k \notin late
        <3>1. announced'[k] = Announce(jobState')[k]
            BY <2>2, <2>6
        <3> QED
            BY <2>1, <2>3, <2>4, <3>1 DEF Terminal
    <2> QED
        BY <2>5, <2>6
<1> QED
    BY <1>11, <1>13, <1>14, <1>15, <1>16 DEF Keeps

(* finishSessionTx: the unfinished jobs of the session end.                *)
LEMMA FinishSessionKeeps ==
    ASSUME Consistent, NEW s \in Sessions, NEW how \in {"closed", "lost"},
           FinishSession(s, how)
    PROVE  Keeps
<1> DEFINE its == {j \in Jobs : SessionOf[j] = s}
           unfinished == {j \in its : Exists(j) /\ ~Terminal(j)}
           verdict == IF how = "lost" THEN "session_lost" ELSE "canceled"
           attemptVerdict == IF how = "lost" THEN "lost" ELSE "canceled"
<1>1. TypeOK /\ \A j \in Jobs : WellFormed(j, jobState[j], attempts[j])
    BY ConsistentWellFormed DEF Consistent
<1>2. /\ session' = [session EXCEPT ![s] = how]
      /\ jobState' = [j \in Jobs |-> IF j \in unfinished THEN verdict ELSE jobState[j]]
      /\ announced' = Announce(jobState')
      /\ attempts' = [j \in Jobs |-> IF j \in its THEN EndActive(attempts[j], attemptVerdict)
                                                   ELSE attempts[j]]
      /\ UNCHANGED <<clock, submission, nextAttempt, slots, result>>
    BY DEF FinishSession
<1>3. /\ verdict \in {"session_lost", "canceled"}
      /\ attemptVerdict \in Unsuccessful /\ attemptVerdict \in AttemptStates
    BY DEF Unsuccessful, AttemptStates
<1>4. \A j \in its : j \in Jobs /\ SessionOf[j] # NoSession
    BY JobsAssumption
<1>5. /\ unfinished \subseteq its
      /\ \A j \in unfinished : jobState[j] \in {"waiting", "queued", "leased"}
      /\ \A j \in its \ unfinished : jobState[j] # "leased"
    BY <1>1 DEF Exists, Terminal, TypeOK, JobStates, TerminalJobStates, WellFormed
<1> HIDE DEF its, unfinished, verdict, attemptVerdict
<1>6. jobState' \in [Jobs -> JobStates \cup {"none"}]
    BY <1>1, <1>2, <1>3 DEF TypeOK, JobStates, TerminalJobStates
<1>7. StoreStep
    <2> SUFFICES ASSUME NEW k \in Jobs
                 PROVE  JobStep(k) /\ ResultStep(k) /\ SubmissionStep(k)
        BY DEF StoreStep
    <2>1. ResultStep(k) /\ SubmissionStep(k)
        BY <1>2 DEF ResultStep, SubmissionStep
    <2>2. CASE k \in unfinished
        <3>1. jobState'[k] = verdict /\ attempts'[k] = EndActive(attempts[k], attemptVerdict)
            BY <1>2, <1>5, <2>2
        <3>2. Ends(k)
            BY <1>3, <1>4, <1>5, <2>2, <3>1 DEF Ends, TerminalJobStates
        <3> QED
            BY <2>1, <3>2 DEF JobStep
    <2>3. CASE k \in its \ unfinished
        <3>1. \A n \in DOMAIN attempts[k] : ~Active(attempts[k][n])
            BY <1>1, <1>5, <2>3 DEF WellFormed
        <3>2. EndActive(attempts[k], attemptVerdict) = attempts[k]
            BY <1>1, <3>1, EndActiveOfInactive DEF WellFormed
        <3>3. Stays(k)
            BY <1>2, <2>3, <3>2 DEF Stays
        <3> QED
            BY <2>1, <3>3 DEF JobStep
    <2>4. CASE k \notin its
        <3>1. Stays(k)
            BY <1>2, <1>5, <2>4 DEF Stays
        <3> QED
            BY <2>1, <3>1 DEF JobStep
    <2> QED
        BY <2>2, <2>3, <2>4
<1>8. announced' \in [Jobs -> SUBSET TerminalJobStates] /\ AnnouncedWhenTerminal' /\ Notices
    BY <1>2, <1>6, <1>7, SettledAndAnnounced
<1>9. TypeOK'
    <2>1. \A j \in Jobs : EndActive(attempts[j], attemptVerdict) \in Seq(Attempts)
        BY <1>1, <1>3, EndActiveProperties DEF TypeOK
    <2>2. attempts' \in [Jobs -> Seq(Attempts)]
        BY <1>1, <1>2, <2>1 DEF TypeOK
    <2>3. session' \in [Sessions -> {"open", "closed", "lost"}]
        BY <1>1, <1>2 DEF TypeOK
    <2> QED
        BY <1>1, <1>2, <1>6, <1>8, <2>2, <2>3 DEF TypeOK
<1>10. Propagates
    <2> SUFFICES ASSUME NEW k \in Jobs, jobState[k] = "waiting", jobState'[k] = "waiting",
                        NEW d \in DependsOn[k]
                 PROVE  jobState'[d] = jobState[d]
        BY DEF Propagates
    <2>1. d \in Jobs /\ SessionOf[d] = SessionOf[k]
        BY JobsAssumption DEF Consistent, DependenciesInSession, Exists
    <2>2. k \notin unfinished
        BY <1>2, <1>3
    <2>3. SessionOf[k] # s
        BY <2>2 DEF unfinished, its, Exists, Terminal, TerminalJobStates
    <2>4. d \notin unfinished
        BY <2>1, <2>3 DEF unfinished, its
    <2> QED
        BY <1>2, <2>1, <2>4
<1> QED
    BY <1>7, <1>8, <1>9, <1>10 DEF Keeps

-----------------------------------------------------------------------------
(* The invariant. *)

(* Most actions lease nothing, insert nothing and end no session.          *)
Ordinary ==
    /\ \A k \in Jobs : jobState'[k] = "leased" => jobState[k] = "leased"
    /\ \A k \in Jobs : submission[k] # "none" => submission'[k] # "none"
    /\ session' = session

(* Settling jobs leases none.                                              *)
LEMMA SettleLeasesNothing ==
    ASSUME NEW ended, NEW outcome, \A j \in ended : outcome[j] # "leased",
           jobState' = Settle(ended, outcome)
    PROVE  \A k \in Jobs : jobState'[k] = "leased" => jobState[k] = "leased"
BY DEF Settle

(* expireLeases leases and inserts nothing and ends no session.            *)
LEMMA expireLeasesOrdinary ==
    ASSUME NEW expired, NEW now, expireLeases(expired, now)
    PROVE  Ordinary
<1> DEFINE held == {j \in expired : jobState[j] \in {"leased", "running"}}
           outcome == [j \in held |-> AfterExpiry(j, now)]
<1>1. jobState' = Settle(held, outcome)
    BY DEF expireLeases
<1>2. \A j \in held : outcome[j] # "leased"
    BY DEF AfterExpiry
<1> HIDE DEF held, outcome
<1> QED
    <2>1. \A k \in Jobs : jobState'[k] = "leased" => jobState[k] = "leased"
        BY <1>1, <1>2, SettleLeasesNothing
    <2> QED
        BY <2>1 DEF expireLeases, Ordinary

(* Neither does TimeoutJobs.                                               *)
LEMMA TimeoutJobsOrdinary ==
    ASSUME NEW now, TimeoutJobs(now)
    PROVE  Ordinary
<1> DEFINE outcome == [j \in Overdue(now) |-> "timed_out"]
<1>1. jobState' = Settle(Overdue(now), outcome) /\ \A j \in Overdue(now) : outcome[j] # "leased"
    BY DEF TimeoutJobs
<1> HIDE DEF outcome
<1> QED
    BY <1>1, SettleLeasesNothing, Zenon DEF TimeoutJobs, Ordinary

(* Neither does CancelJob.                                                 *)
LEMMA CancelJobOrdinary ==
    ASSUME NEW j \in Jobs, CancelJob(j)
    PROVE  Ordinary
<1> DEFINE outcome == [k \in {j} |-> "canceled"]
<1>1. jobState' = Settle({j}, outcome) /\ \A k \in {j} : outcome[k] # "leased"
    BY DEF CancelJob
<1> HIDE DEF outcome
<1> QED
    <2>1. \A k \in Jobs : jobState'[k] = "leased" => jobState[k] = "leased"
        BY <1>1, SettleLeasesNothing
    <2> QED
        BY <2>1 DEF CancelJob, Ordinary

(* Neither does CompleteAttempt, whatever it reports.                      *)
LEMMA CompleteAttemptOrdinary ==
    ASSUME NEW w, NEW j \in Jobs, NEW n, NEW aState, NEW verdict, NEW at,
           verdict # "leased", CompleteAttempt(w, j, n, aState, verdict, at)
    PROVE  Ordinary
<1> DEFINE outcome == [k \in {j} |-> verdict]
           settled == Settle({j}, outcome)
<1>1. \/ jobState' = settled
      \/ jobState' = [k \in Jobs |-> IF k \in Released(j) THEN "queued" ELSE settled[k]]
    BY DEF CompleteAttempt
<1>2. \A k \in Jobs : settled[k] = "leased" => jobState[k] = "leased"
    BY DEF Settle
<1> HIDE DEF settled
<1>3. \A k \in Jobs : jobState'[k] = "leased" => jobState[k] = "leased"
    BY <1>1, <1>2
<1> QED
    BY <1>3 DEF CompleteAttempt, Ordinary

(* Every step keeps the job rows in order, and is ordinary or one of the   *)
(* three that are not.                                                     *)
LEMMA NextKeeps ==
    ASSUME Consistent, [Next]_vars
    PROVE  /\ Keeps
           /\ \/ Ordinary
              \/ \E w \in Workers, j \in Jobs, at \in Now : ClaimNextJob(w, j, at)
              \/ \E j \in Jobs : CreateJobInsert(j)
              \/ \E s \in Sessions, how \in {"closed", "lost"} : FinishSession(s, how)
<1>1. TypeOK
    BY DEF Consistent
<1>2. CASE UNCHANGED vars
    BY <1>2, StutterKeeps DEF Ordinary, vars
<1>3. CASE Tick
    BY <1>3, TickKeeps DEF Ordinary, Tick
<1>4. ASSUME NEW j \in Jobs, CreateJobRead(j) \/ CreateJobInsert(j) \/ CancelJob(j)
      PROVE  Keeps /\ (Ordinary \/ CreateJobInsert(j))
    <2>1. CASE CreateJobRead(j)
        <3>1. \A k \in Jobs : submission[k] # "none" => submission'[k] # "none"
            BY <1>1, <2>1 DEF CreateJobRead, TypeOK
        <3> QED
            BY <2>1, <3>1, CreateJobReadKeeps DEF Ordinary, CreateJobRead
    <2>2. CASE CreateJobInsert(j)
        BY <2>2, CreateJobInsertKeeps
    <2>3. CASE CancelJob(j)
        BY <2>3, CancelJobKeeps, CancelJobOrdinary
    <2> QED
        BY <1>4, <2>1, <2>2, <2>3
<1>5. ASSUME NEW w \in Workers, NEW free \in 0..MaxConcurrency[w], Heartbeat(w, free)
      PROVE  Keeps /\ Ordinary
    BY <1>5, HeartbeatKeeps, Zenon DEF Ordinary, Heartbeat
<1>6. ASSUME NEW w \in Workers, NEW j \in Jobs, NEW at \in Now, NEW n \in 1..Len(attempts[j]),
             \/ \E d \in 1..LeaseDuration : RenewLease(w, j, n, at + d)
             \/ SaveResult(w, j, n)
             \/ Complete(w, j, n, at)
             \/ \E retryable \in BOOLEAN : Fail(w, j, n, retryable, at)
      PROVE  Keeps /\ Ordinary
    <2>1. n \in DOMAIN attempts[j] /\ at \in Nat
        BY <1>1, LenProperties DEF TypeOK, Now
    <2>2. ASSUME NEW d \in 1..LeaseDuration, RenewLease(w, j, n, at + d)
          PROVE  Keeps /\ Ordinary
        <3>1. at + d \in Nat \ {0}
            BY <2>1, TimingAssumption
        <3>2. Keeps
            BY <2>1, <2>2, <3>1, RenewLeaseKeeps
        <3> QED
            BY <2>2, <3>2 DEF Ordinary, RenewLease
    <2>3. CASE SaveResult(w, j, n)
        BY <2>1, <2>3, SaveResultKeeps, Zenon DEF Ordinary, SaveResult
    <2>4. CASE Complete(w, j, n, at)
        BY <2>1, <2>4, CompleteKeeps, CompleteAttemptOrdinary DEF Complete
    <2>5. ASSUME NEW retryable \in BOOLEAN, Fail(w, j, n, retryable, at)
          PROVE  Keeps /\ Ordinary
        <3>1. AfterFailure(j, n, retryable, at) # "leased"
            BY DEF AfterFailure
        <3> QED
            BY <2>1, <2>5, <3>1, FailKeeps, CompleteAttemptOrdinary DEF Fail
    <2> QED
        BY <1>6, <2>2, <2>3, <2>4, <2>5
<1>7. ASSUME NEW now \in Now, ExpireLeases(now)
      PROVE  Keeps /\ Ordinary
    <2> DEFINE expired == {j \in Jobs : \E n \in DOMAIN attempts[j] :
                              /\ Active(attempts[j][n])
                              /\ attempts[j][n].expires # NoLease
                              /\ attempts[j][n].expires <= now}
    <2>1. expireLeases(expired, now)
        BY <1>7 DEF ExpireLeases
    <2>2. /\ expired \in SUBSET Jobs
          /\ \A j \in expired : \E n \in DOMAIN attempts[j] : Active(attempts[j][n])
        OBVIOUS
    <2> HIDE DEF expired
    <2> QED
        BY <2>1, <2>2, expireLeasesKeeps, expireLeasesOrdinary
<1>8. ASSUME NEW now \in Now, NEW w \in Workers, ExpireWorkerLeases(w, now)
      PROVE  Keeps /\ Ordinary
    <2>1. expireLeases(HeldBy(w), now)
        BY <1>8 DEF ExpireWorkerLeases
    <2>2. /\ HeldBy(w) \in SUBSET Jobs
          /\ \A j \in HeldBy(w) : \E n \in DOMAIN attempts[j] : Active(attempts[j][n])
        BY DEF HeldBy
    <2> QED
        BY <2>1, <2>2, expireLeasesKeeps, expireLeasesOrdinary
<1>9. ASSUME NEW now \in Now, TimeoutJobs(now)
      PROVE  Keeps /\ Ordinary
    BY <1>9, TimeoutJobsKeeps, TimeoutJobsOrdinary
<1>10. ASSUME NEW s \in Sessions, NEW how \in {"closed", "lost"}, FinishSession(s, how)
       PROVE  Keeps
    BY <1>10, FinishSessionKeeps
<1>11. ASSUME NEW w \in Workers, NEW j \in Jobs, NEW at \in Now, ClaimNextJob(w, j, at)
       PROVE  Keeps
    BY <1>11, ClaimNextJobKeeps
<1>12. CASE ClientNext
    BY <1>4, <1>12 DEF ClientNext
<1>13. CASE WorkerNext
    BY <1>5, <1>6, <1>11, <1>13 DEF WorkerNext
<1>14. CASE ControllerNext
    BY <1>7, <1>8, <1>9, <1>10, <1>14 DEF ControllerNext
<1> QED
    BY <1>2, <1>3, <1>12, <1>13, <1>14 DEF Next

(* A worker's active attempts after a step that leases nothing were its    *)
(* active attempts before.                                                 *)
LEMMA HeldByShrinks ==
    ASSUME Consistent, StoreStep, NEW k \in Jobs, ~Claims(k),
           NEW n \in DOMAIN attempts'[k], Active(attempts'[k][n])
    PROVE  /\ n \in DOMAIN attempts[k] /\ Active(attempts[k][n])
           /\ attempts'[k][n].worker = attempts[k][n].worker
<1>1. TypeOK /\ WellFormed(k, jobState[k], attempts[k]) /\ JobStep(k)
    BY ConsistentWellFormed DEF Consistent, StoreStep
<1>2. WellFormed(k, jobState'[k], attempts'[k])
    BY <1>1, JobStepWellFormed
<1>3. jobState'[k] = "leased"
    BY <1>2 DEF WellFormed
<1>4. Stays(k) \/ Renews(k)
    BY <1>1, <1>3, Zenon DEF JobStep, Ends, Requeues, Succeeds, Promotes, Inserts, TypeOK,
                      TerminalJobStates
<1>5. CASE Stays(k)
    BY <1>5 DEF Stays
<1>6. CASE Renews(k)
    <2>1. PICK m \in DOMAIN attempts[k], until \in Nat \ {0} :
              /\ Active(attempts[k][m])
              /\ attempts'[k] = [attempts[k] EXCEPT ![m].expires = until]
        BY <1>6 DEF Renews
    <2>2. \A i \in DOMAIN attempts[k] : attempts[k][i] \in Attempts
        BY <1>1, LenProperties, ElementOfSeq DEF WellFormed
    <2>3. n \in DOMAIN attempts[k]
        BY <1>1, <2>1, LenProperties DEF WellFormed
    <2>4. /\ attempts'[k][n].state = attempts[k][n].state
          /\ attempts'[k][n].worker = attempts[k][n].worker
        BY <1>1, <2>1, <2>2, <2>3, LenProperties DEF WellFormed, Attempts
    <2> QED
        BY <2>3, <2>4 DEF Active
<1> QED
    BY <1>4, <1>5, <1>6

(* A worker's active attempts grow only by ClaimNextJob, which counts them *)
(* first.                                                                  *)
LEMMA NextConcurrency ==
    ASSUME Consistent, [Next]_vars
    PROVE  ConcurrencyBound'
<1> SUFFICES ASSUME NEW v \in Workers
             PROVE  Cardinality(HeldBy(v)') <= MaxConcurrency[v]
    BY DEF ConcurrencyBound
<1>1. TypeOK /\ StoreStep /\ Cardinality(HeldBy(v)) <= MaxConcurrency[v]
    BY NextKeeps DEF Keeps, Consistent, ConcurrencyBound
<1>2. /\ IsFiniteSet(HeldBy(v)) /\ Cardinality(HeldBy(v)) \in Nat
      /\ MaxConcurrency[v] \in Nat
    BY JobsAssumption, TimingAssumption, FS_Subset, FS_CardinalityType DEF HeldBy
<1>3. CASE \A k \in Jobs : ~Claims(k)
    <2>1. HeldBy(v)' \subseteq HeldBy(v)
        BY <1>1, <1>3, HeldByShrinks DEF HeldBy
    <2>2. Cardinality(HeldBy(v)') <= Cardinality(HeldBy(v)) /\ Cardinality(HeldBy(v)') \in Nat
        BY <1>2, <2>1, FS_Subset, FS_CardinalityType
    <2> QED
        BY <1>1, <1>2, <2>2
<1>4. ASSUME NEW w \in Workers, NEW j \in Jobs, NEW at \in Now, ClaimNextJob(w, j, at)
      PROVE  Cardinality(HeldBy(v)') <= MaxConcurrency[v]
    <2>1. \A k \in Jobs \ {j} : attempts'[k] = attempts[k] /\ jobState'[k] = jobState[k]
        BY <1>1, <1>4 DEF ClaimNextJob, TypeOK
    <2>2. \A k \in Jobs \ {j} : k \in HeldBy(v)' <=> k \in HeldBy(v)
        BY <2>1 DEF HeldBy
    <2>3. CASE v = w
        <3>1. Cardinality(HeldBy(v)) < MaxConcurrency[v]
            BY <1>4, <2>3, Zenon DEF ClaimNextJob, Claimable
        <3>2. HeldBy(v)' \subseteq HeldBy(v) \cup {j}
            BY <2>2 DEF HeldBy
        <3>3. /\ IsFiniteSet(HeldBy(v) \cup {j})
              /\ Cardinality(HeldBy(v) \cup {j}) <= Cardinality(HeldBy(v)) + 1
              /\ Cardinality(HeldBy(v) \cup {j}) \in Nat
            <4>1. /\ IsFiniteSet(HeldBy(v) \cup {j})
                  /\ \/ Cardinality(HeldBy(v) \cup {j}) = Cardinality(HeldBy(v))
                     \/ Cardinality(HeldBy(v) \cup {j}) = Cardinality(HeldBy(v)) + 1
                <5> HIDE DEF HeldBy
                <5>1. /\ IsFiniteSet(HeldBy(v) \cup {j})
                      /\ (Cardinality(HeldBy(v) \cup {j}) =
                            IF j \in HeldBy(v) THEN Cardinality(HeldBy(v))
                            ELSE Cardinality(HeldBy(v)) + 1)
                    BY <1>2, FS_AddElement
                <5> QED
                    BY <5>1
            <4> QED
                BY <1>2, <4>1
        <3>4. /\ Cardinality(HeldBy(v)') <= Cardinality(HeldBy(v) \cup {j})
              /\ Cardinality(HeldBy(v)') \in Nat
            BY <3>2, <3>3, FS_Subset, FS_CardinalityType
        <3> QED
            BY <1>2, <3>1, <3>3, <3>4
    <2>4. CASE v # w
        <3>1. j \notin HeldBy(v)'
            <4>1. attempts'[j] = Append(attempts[j], NewAttempt(w, at))
                BY <1>1, <1>4 DEF ClaimNextJob, TypeOK
            <4>2. /\ attempts[j] \in Seq(Attempts) /\ Len(attempts[j]) \in Nat
                  /\ DOMAIN attempts[j] = 1..Len(attempts[j])
                  /\ \A n \in DOMAIN attempts[j] : ~Active(attempts[j][n])
                <5>1. attempts[j] \in Seq(Attempts)
                    BY <1>1 DEF TypeOK
                <5>2. jobState[j] = "queued" /\ LeaseDiscipline
                    BY <1>4 DEF ClaimNextJob, Claimable, Consistent
                <5> QED
                    BY <5>1, <5>2, LenProperties DEF LeaseDiscipline
            <4>3. NewAttempt(w, at) \in Attempts /\ NewAttempt(w, at).worker = w
                BY <1>1, TimingAssumption
                   DEF NewAttempt, Attempts, AttemptStates, ActiveAttemptStates, Now, TypeOK
            <4>4. /\ DOMAIN attempts'[j] = 1..(Len(attempts[j]) + 1)
                  /\ \A n \in 1..Len(attempts[j]) : attempts'[j][n] = attempts[j][n]
                  /\ attempts'[j][Len(attempts[j]) + 1] = NewAttempt(w, at)
                <5> DEFINE new == NewAttempt(w, at)
                           old == attempts[j]
                <5>1. old \in Seq(Attempts) /\ new \in Attempts
                    BY <4>2, <4>3
                <5>2. attempts'[j] = Append(old, new)
                    BY <4>1
                <5> HIDE DEF new, old
                <5>3. /\ DOMAIN Append(old, new) = 1..(Len(old) + 1)
                      /\ \A n \in 1..Len(old) : Append(old, new)[n] = old[n]
                      /\ Append(old, new)[Len(old) + 1] = new
                    BY <5>1, AppendedAttempt, Zenon
                <5> QED
                    BY <5>2, <5>3, Zenon DEF new, old
            <4>5. \A n \in DOMAIN attempts'[j] :
                      ~(Active(attempts'[j][n]) /\ attempts'[j][n].worker = v)
                <5> SUFFICES ASSUME NEW n \in DOMAIN attempts'[j]
                             PROVE  ~(Active(attempts'[j][n]) /\ attempts'[j][n].worker = v)
                    OBVIOUS
                <5>1. n \in 1..Len(attempts[j]) \/ n = Len(attempts[j]) + 1
                    BY <4>2, <4>4
                <5>2. CASE n \in 1..Len(attempts[j])
                    <6>1. attempts'[j][n] = attempts[j][n] /\ ~Active(attempts[j][n])
                        BY <4>2, <4>4, <5>2, Zenon
                    <6> QED
                        BY <6>1
                <5>3. CASE n = Len(attempts[j]) + 1
                    <6>1. attempts'[j][n] = NewAttempt(w, at)
                        BY <4>4, <5>3, Zenon
                    <6> QED
                        BY <2>4, <4>3, <6>1, Zenon
                <5> QED
                    BY <5>1, <5>2, <5>3, Zenon
            <4> QED
                BY <4>5 DEF HeldBy
        <3>2. HeldBy(v)' \subseteq HeldBy(v)
            BY <2>2, <3>1 DEF HeldBy
        <3>3. Cardinality(HeldBy(v)') <= Cardinality(HeldBy(v)) /\ Cardinality(HeldBy(v)') \in Nat
            BY <1>2, <3>2, FS_Subset, FS_CardinalityType
        <3> QED
            BY <1>1, <1>2, <3>3
    <2> QED
        BY <2>3, <2>4
<1>5. CASE Ordinary
    BY <1>3, <1>5 DEF Ordinary, Claims
<1>6. CASE \E j \in Jobs : CreateJobInsert(j)
    BY <1>1, <1>3, <1>6 DEF CreateJobInsert, Claims, TypeOK
<1>7. CASE \E s \in Sessions, how \in {"closed", "lost"} : FinishSession(s, how)
    BY <1>3, <1>7, Zenon DEF FinishSession, Claims
<1> QED
    BY <1>4, <1>5, <1>6, <1>7, NextKeeps

(* Only the INSERT of CreateJob adds a job, and the UNIQUE index guards    *)
(* it.                                                                     *)
LEMMA NextOneJobPerKey ==
    ASSUME Consistent, [Next]_vars
    PROVE  OneJobPerKey'
<1>1. TypeOK /\ StoreStep /\ OneJobPerKey
    BY NextKeeps DEF Keeps, Consistent
<1>2. ASSUME \A k \in Jobs : ~Inserts(k)
      PROVE  OneJobPerKey'
    <2>1. \A k \in Jobs : jobState[k] = "none" => jobState'[k] = "none"
        BY <1>1, <1>2 DEF StoreStep, JobStep, Stays, Renews, Ends, Requeues, Succeeds,
                          Promotes, Claims
    <2> QED
        BY <1>1, <2>1, Zenon DEF OneJobPerKey, Exists
<1>3. CASE Ordinary
    BY <1>2, <1>3 DEF Ordinary, Inserts
<1>4. ASSUME NEW j \in Jobs, CreateJobInsert(j)
      PROVE  OneJobPerKey'
    <2>1. CASE KeyTaken(j)
        BY <1>1, <1>4, <2>1 DEF CreateJobInsert, OneJobPerKey, Exists
    <2>2. CASE ~KeyTaken(j)
        <3>1. \A k \in Jobs \ {j} : jobState'[k] = jobState[k]
            BY <1>1, <1>4 DEF CreateJobInsert, TypeOK
        <3>2. \A k \in Jobs : Exists(k) => IdempotencyKey[k] # IdempotencyKey[j]
            BY <2>2 DEF KeyTaken
        <3> QED
            BY <1>1, <3>1, <3>2 DEF OneJobPerKey, Exists
    <2> QED
        BY <2>1, <2>2
<1>5. CASE \/ \E w \in Workers, j \in Jobs, at \in Now : ClaimNextJob(w, j, at)
           \/ \E s \in Sessions, how \in {"closed", "lost"} : FinishSession(s, how)
    <2>1. submission' = submission
        BY <1>5, Zenon DEF ClaimNextJob, FinishSession
    <2> QED
        BY <1>2, <2>1 DEF Inserts
<1> QED
    BY <1>3, <1>4, <1>5, NextKeeps

(* A job is leased only in an open session, and a session that ends takes  *)
(* its leased jobs along.                                                  *)
LEMMA NextNoWorkInEndedSession ==
    ASSUME Consistent, [Next]_vars
    PROVE  NoWorkInEndedSession'
<1>1. TypeOK /\ NoWorkInEndedSession
    BY DEF Consistent
<1>2. CASE Ordinary
    BY <1>1, <1>2 DEF Ordinary, NoWorkInEndedSession, SessionOpen
<1>3. ASSUME NEW w \in Workers, NEW j \in Jobs, NEW at \in Now, ClaimNextJob(w, j, at)
      PROVE  NoWorkInEndedSession'
    <2>1. session' = session /\ SessionOpen(j) /\ \A k \in Jobs \ {j} : jobState'[k] = jobState[k]
        BY <1>1, <1>3 DEF ClaimNextJob, Claimable, TypeOK
    <2> QED
        BY <1>1, <2>1 DEF NoWorkInEndedSession, SessionOpen
<1>4. ASSUME NEW j \in Jobs, CreateJobInsert(j)
      PROVE  NoWorkInEndedSession'
    <2>1. session' = session /\ \A k \in Jobs : jobState'[k] = "leased" => jobState[k] = "leased"
        BY <1>1, <1>4, Zenon DEF CreateJobInsert, TypeOK
    <2> QED
        BY <1>1, <2>1 DEF NoWorkInEndedSession, SessionOpen
<1>5. ASSUME NEW s \in Sessions, NEW how \in {"closed", "lost"}, FinishSession(s, how)
      PROVE  NoWorkInEndedSession'
    <2> SUFFICES ASSUME NEW k \in Jobs, jobState'[k] = "leased"
                 PROVE  SessionOpen(k)'
        BY DEF NoWorkInEndedSession
    <2>1. jobState[k] = "leased" /\ SessionOf[k] # s
        BY <1>5 DEF FinishSession, Exists, Terminal, TerminalJobStates
    <2>2. SessionOpen(k)
        BY <1>1, <2>1 DEF NoWorkInEndedSession
    <2> QED
        BY <1>1, <1>5, <2>1, <2>2, JobsAssumption DEF SessionOpen, FinishSession, TypeOK
<1> QED
    BY <1>2, <1>3, <1>4, <1>5, NextKeeps

(* Every step keeps the invariant.                                         *)
LEMMA NextConsistent ==
    ASSUME Consistent, [Next]_vars
    PROVE  Consistent'
<1>1. TypeOK' /\ AnnouncedWhenTerminal' /\ StoreStep
    BY NextKeeps DEF Keeps
<1>2. /\ LeaseDiscipline' /\ AttemptBudget' /\ SuccessIsUnique' /\ ResultOfWinner'
      /\ DependenciesInSession' /\ Bookkeeping'
    BY <1>1, StoreStepKeeps
<1> QED
    BY <1>1, <1>2, NextConcurrency, NextOneJobPerKey, NextNoWorkInEndedSession DEF Consistent

(* The empty database satisfies the invariant.                             *)
LEMMA InitConsistent ==
    ASSUME Init
    PROVE  Consistent
<1>1. \A j \in Jobs : /\ attempts[j] = <<>> /\ jobState[j] = "none"
                      /\ submission[j] = "none" /\ announced[j] = {}
    BY DEF Init
<1>2. <<>> \in Seq(Attempts) /\ Len(<<>>) = 0 /\ DOMAIN <<>> = {}
    BY EmptySeq
<1>3. TypeOK
    BY <1>2, TimingAssumption DEF Init, TypeOK
<1>4. ConcurrencyBound
    <2> SUFFICES ASSUME NEW w \in Workers
                 PROVE  Cardinality(HeldBy(w)) <= MaxConcurrency[w]
        BY DEF ConcurrencyBound
    <2>1. HeldBy(w) = {}
        BY <1>1, <1>2 DEF HeldBy
    <2> QED
        BY <2>1, FS_EmptySet, TimingAssumption
<1>5. LeaseDiscipline /\ SuccessIsUnique /\ ResultOfWinner
    <2>1. \A j \in Jobs : DOMAIN attempts[j] = {} /\ jobState[j] = "none"
        BY <1>1, <1>2
    <2> QED
        BY <2>1 DEF LeaseDiscipline, SuccessIsUnique, ResultOfWinner
<1>6. AttemptBudget
    BY <1>1, <1>2, JobsAssumption DEF AttemptBudget
<1>7. AnnouncedWhenTerminal
    BY <1>1 DEF AnnouncedWhenTerminal, Terminal, TerminalJobStates
<1>8. OneJobPerKey /\ NoWorkInEndedSession /\ DependenciesInSession
    BY <1>1 DEF OneJobPerKey, Exists, NoWorkInEndedSession, DependenciesInSession
<1>9. Bookkeeping
    BY <1>1, <1>2 DEF Bookkeeping
<1> QED
    BY <1>3, <1>4, <1>5, <1>6, <1>7, <1>8, <1>9 DEF Consistent

(* The job tables are consistent in every reachable state, for any jobs,   *)
(* dependencies, workers, sessions and timing: whatever claims, renewals,  *)
(* completions, expiries, timeouts, cancellations and session ends do to   *)
(* the rows of jobs, attempts, leases, results and slots, in any order.    *)
THEOREM Consistency == Spec => []Consistent
<1>1. Init => Consistent
    BY InitConsistent
<1>2. Consistent /\ [Next]_vars => Consistent'
    BY NextConsistent
<1> QED
    BY <1>1, <1>2, PTL DEF Spec

(* Type correctness: every column holds a value of its type, and slot      *)
(* counters stay between zero and max_concurrency under claims, returns    *)
(* and heartbeats.                                                         *)
THEOREM TypeCorrect == Spec => []TypeOK
BY Consistency, PTL DEF Consistent

(* At most one execution of a job is in progress, it is the newest, and it *)
(* is the one that holds the lease.                                        *)
THEOREM LeasesAreDisciplined == Spec => []LeaseDiscipline
BY Consistency, PTL DEF Consistent

(* A job succeeds through exactly one attempt, and the stored result is    *)
(* that attempt's: late, lost and repeated completions cannot change it.   *)
THEOREM OneWinner == Spec => [](SuccessIsUnique /\ ResultOfWinner)
BY Consistency, PTL DEF Consistent

(* ClaimNextJob never overloads a worker and never exceeds a retry policy. *)
THEOREM BoundsRespected == Spec => [](ConcurrencyBound /\ AttemptBudget)
BY Consistency, PTL DEF Consistent

(* A job that has ended has said so in its log, and one that has not ended *)
(* has not: propagation, timeouts and session ends leave none out.         *)
THEOREM EndsAreAnnounced == Spec => []AnnouncedWhenTerminal
BY Consistency, PTL DEF Consistent

(* Submissions with one idempotency key, however they interleave, make one *)
(* job.                                                                    *)
THEOREM KeysAreUnique == Spec => []OneJobPerKey
BY Consistency, PTL DEF Consistent

(* Once a session has ended, no job of it is being executed, not even one  *)
(* whose submission raced with the end.                                    *)
THEOREM EndedSessionsAreIdle == Spec => []NoWorkInEndedSession
BY Consistency, PTL DEF Consistent

(* Nothing is attempted before the jobs it depends on have succeeded.      *)
THEOREM DependenciesComeFirst == Spec => []DependenciesFirst
<1>1. Consistent => DependenciesFirst
    BY DEF Consistent, Bookkeeping, DependenciesFirst
<1> QED
    BY <1>1, Consistency, PTL

(* What one step may do to the finished: from the way each job moves.      *)
LEMMA StepKeepsFinished ==
    ASSUME Consistent, [Next]_vars, NEW j \in Jobs
    PROVE  /\ Terminal(j) => jobState'[j] = jobState[j]
           /\ jobState[j] = "succeeded" => result'[j] = result[j]
           /\ \A n \in DOMAIN attempts[j] :
                 ~Active(attempts[j][n]) => attempts'[j][n] = attempts[j][n]
<1>1. TypeOK /\ JobStep(j) /\ ResultStep(j)
    BY NextKeeps DEF Keeps, Consistent, StoreStep
<1>2. /\ attempts[j] \in Seq(Attempts) /\ Len(attempts[j]) \in Nat
      /\ DOMAIN attempts[j] = 1..Len(attempts[j])
      /\ \A n \in DOMAIN attempts[j] : attempts[j][n] \in Attempts
    BY <1>1, LenProperties, ElementOfSeq DEF TypeOK
<1>3. ASSUME NEW n \in DOMAIN attempts[j], ~Active(attempts[j][n])
      PROVE  attempts'[j][n] = attempts[j][n]
    <2>1. CASE Stays(j) \/ Promotes(j) \/ Inserts(j)
        BY <2>1 DEF Stays, Promotes, Inserts
    <2>2. CASE Renews(j)
        <3>1. PICK m \in DOMAIN attempts[j], until \in Nat \ {0} :
                  /\ Active(attempts[j][m])
                  /\ attempts'[j] = [attempts[j] EXCEPT ![m].expires = until]
            BY <2>2, Zenon DEF Renews
        <3> QED
            BY <1>2, <1>3, <3>1
    <2>3. CASE Ends(j) \/ Requeues(j) \/ Succeeds(j)
        <3>1. PICK st \in AttemptStates : attempts'[j] = EndActive(attempts[j], st)
            BY <2>3 DEF Ends, Requeues, Succeeds, Unsuccessful, AttemptStates
        <3>2. ~Active(attempts[j][n]) => EndActive(attempts[j], st)[n] = attempts[j][n]
            BY <1>2, EndActiveProperties
        <3> QED
            BY <1>3, <3>1, <3>2
    <2>4. CASE Claims(j)
        <3>1. PICK a \in Attempts : attempts'[j] = Append(attempts[j], a)
            BY <2>4, Zenon DEF Claims, Attempts, AttemptStates, ActiveAttemptStates
        <3>2. \A m \in 1..Len(attempts[j]) : Append(attempts[j], a)[m] = attempts[j][m]
            BY <1>2, AppendedAttempt, Zenon
        <3> QED
            BY <1>2, <3>1, <3>2
    <2> QED
        BY <1>1, <2>1, <2>2, <2>3, <2>4, Zenon DEF JobStep
<1> QED
    BY <1>1, <1>3, TerminalStays DEF ResultStep

(* Finished is final: no step of any component revises a terminal job, a   *)
(* winning result or an attempt that has ended.                            *)
THEOREM FinishedStaysFinal == Spec => FinishedIsFinal
<1>1. Consistent /\ [Next]_vars =>
          [\A j \in Jobs :
              /\ Terminal(j) => jobState'[j] = jobState[j]
              /\ jobState[j] = "succeeded" => result'[j] = result[j]
              /\ \A n \in DOMAIN attempts[j] :
                    ~Active(attempts[j][n]) => attempts'[j][n] = attempts[j][n]]_vars
    BY StepKeepsFinished, Zenon
<1> QED
    BY <1>1, Consistency, PTL DEF Spec, FinishedIsFinal

(* A step that strands a job inserts it: what ends a dependency fails or   *)
(* promotes the job, what ends its session ends the job, and no execution  *)
(* is left that could return to the queue of an ended session.             *)
LEMMA StepStrandsNone ==
    ASSUME Consistent, [Next]_vars, NEW j \in Jobs, Stranded(j)', Exists(j)
    PROVE  Stranded(j)
<1>1. TypeOK /\ JobStep(j) /\ Propagates
    BY NextKeeps DEF Keeps, Consistent, StoreStep
<1>2. CASE jobState'[j] = "waiting" /\ jobState[j] = "waiting" /\
           \/ \A d \in DependsOn[j] : jobState'[d] = "succeeded"
           \/ \E d \in DependsOn[j] : jobState'[d] \in TerminalJobStates \ {"succeeded"}
    BY <1>1, <1>2 DEF Propagates, Stranded
<1>3. jobState'[j] = "waiting" => jobState[j] = "waiting"
    BY <1>1 DEF JobStep, Stays, Renews, Ends, Requeues, Succeeds, Promotes, Claims, Inserts,
                TerminalJobStates, Exists
<1>4. CASE jobState'[j] \in {"waiting", "queued"} /\ ~SessionOpen(j)'
    <2>1. jobState[j] \in {"waiting", "queued", "leased"}
        BY <1>1, <1>4 DEF JobStep, Stays, Renews, Ends, Requeues, Succeeds, Promotes, Claims,
                          Inserts, TerminalJobStates, Exists
    <2>2. ~SessionOpen(j)
        <3>1. CASE session' = session
            BY <1>4, <3>1 DEF SessionOpen
        <3>2. ASSUME NEW s \in Sessions, NEW how \in {"closed", "lost"}, FinishSession(s, how)
              PROVE  ~SessionOpen(j)
            <4>1. SessionOf[j] # s
                <5>1. Terminal(j) => jobState'[j] = jobState[j]
                    BY <1>1, TerminalStays
                <5> QED
                    BY <1>4, <2>1, <3>2 DEF FinishSession, Exists, Terminal, TerminalJobStates
            <4> QED
                BY <1>1, <1>4, <3>2, <4>1, JobsAssumption DEF FinishSession, SessionOpen, TypeOK
        <3>3. \/ session' = session
              \/ \E s \in Sessions, how \in {"closed", "lost"} : FinishSession(s, how)
            BY NextKeeps DEF Ordinary, ClaimNextJob, CreateJobInsert
        <3> QED
            BY <3>1, <3>2, <3>3
    <2> QED
        BY <2>1, <2>2 DEF Stranded, Pending, Consistent, NoWorkInEndedSession
<1> QED
    BY <1>2, <1>3, <1>4 DEF Stranded, Pending

(* No step leaves behind a job of the table: completions, failures,        *)
(* expiries, timeouts, cancellations and session ends settle everything    *)
(* that depended on what they ended.                                       *)
THEOREM NothingIsStranded == Spec => NoStepStrands
<1>1. Consistent /\ [Next]_vars =>
          [\A j \in Jobs : Stranded(j)' => Stranded(j) \/ ~Exists(j)]_vars
    BY StepStrandsNone, Zenon
<1> QED
    BY <1>1, Consistency, PTL DEF Spec, NoStepStrands

(* What CreateJob reads still holds when it inserts: no dependency of a    *)
(* submission under way finishes, and its session does not end.            *)
Undisturbed ==
    \A j \in Jobs : submission[j] # "none" =>
        /\ \A d \in DependsOn[j] : Terminal(d)' => Terminal(d)
        /\ SessionOpen(j) => SessionOpen(j)'

(* A submission that would not be stranded if it were inserted now.        *)
UpToDate(j) ==
    /\ SessionOpen(j)
    /\ \A d \in DependsOn[j] :
          d # j /\ jobState[d] \notin TerminalJobStates \ {"succeeded"}
    /\ submission[j] = "waiting" => \E d \in DependsOn[j] : jobState[d] # "succeeded"

LEMMA SubmissionMoves ==
    ASSUME TypeOK, [Next]_vars, NEW j \in Jobs
    PROVE  submission'[j] \in {submission[j], "none"} \/ CreateJobRead(j)
<1>1. ASSUME NEW k \in Jobs, CreateJobRead(k) \/ CreateJobInsert(k)
      PROVE  submission'[j] \in {submission[j], "none"} \/ CreateJobRead(j)
    BY <1>1 DEF CreateJobRead, CreateJobInsert, TypeOK
<1>2. CASE UNCHANGED submission
    BY <1>2
<1>3. CASE UNCHANGED vars \/ Tick \/ \E k \in Jobs : CancelJob(k)
    BY <1>2, <1>3 DEF vars, Tick, CancelJob
<1>4. CASE WorkerNext
    <2>1. ASSUME NEW w, NEW free, Heartbeat(w, free)
          PROVE  UNCHANGED submission
        BY <2>1 DEF Heartbeat
    <2>2. ASSUME NEW w, NEW k, NEW at, ClaimNextJob(w, k, at)
          PROVE  UNCHANGED submission
        BY <2>2 DEF ClaimNextJob
    <2>3. ASSUME NEW w, NEW k, NEW n, NEW at, NEW until, NEW retryable,
                 \/ RenewLease(w, k, n, until) \/ SaveResult(w, k, n)
                 \/ Complete(w, k, n, at) \/ Fail(w, k, n, retryable, at)
          PROVE  UNCHANGED submission
        BY <2>3, Zenon DEF RenewLease, SaveResult, Complete, Fail, CompleteAttempt
    <2> QED
        BY <1>2, <1>4, <2>1, <2>2, <2>3, Zenon DEF WorkerNext
<1>5. CASE ControllerNext
    BY <1>2, <1>5, Zenon DEF ControllerNext, ExpireLeases, ExpireWorkerLeases, expireLeases,
                             TimeoutJobs, FinishSession
<1> QED
    BY <1>1, <1>3, <1>4, <1>5 DEF Next, ClientNext

LEMMA SubmissionStaysUpToDate ==
    ASSUME Consistent, [Next]_vars, Undisturbed, NEW j \in Jobs,
           submission[j] # "none" => UpToDate(j), submission'[j] # "none"
    PROVE  UpToDate(j)'
<1>1. TypeOK
    BY DEF Consistent
<1>2. CASE CreateJobRead(j)
    <2>1. UNCHANGED <<jobState, session>> /\ SessionOpen(j)
        BY <1>2 DEF CreateJobRead
    <2>2. \A d \in DependsOn[j] :
             d # j /\ jobState[d] \notin TerminalJobStates \ {"succeeded"}
        BY <1>2 DEF CreateJobRead
    <2>3. submission'[j] = IF \A d \in DependsOn[j] : jobState[d] = "succeeded"
                           THEN "queued" ELSE "waiting"
        BY <1>1, <1>2 DEF CreateJobRead, TypeOK
    <2> QED
        BY <2>1, <2>2, <2>3 DEF UpToDate, SessionOpen
<1>3. CASE submission'[j] = submission[j]
    <2>1. /\ UpToDate(j) /\ SessionOpen(j)'
          /\ \A d \in DependsOn[j] : Terminal(d)' => Terminal(d)
        BY <1>3 DEF Undisturbed, UpToDate
    <2>2. \A d \in DependsOn[j] : Terminal(d) => jobState'[d] = jobState[d]
        BY StepKeepsFinished, JobsAssumption
    <2>3. ASSUME NEW d \in DependsOn[j]
          PROVE  /\ d # j /\ jobState'[d] \notin TerminalJobStates \ {"succeeded"}
                 /\ jobState[d] # "succeeded" => jobState'[d] # "succeeded"
        BY <2>1, <2>2 DEF UpToDate, Terminal, TerminalJobStates
    <2> QED
        BY <1>3, <2>1, <2>3 DEF UpToDate
<1> QED
    BY <1>1, <1>2, <1>3, SubmissionMoves

LEMMA UndisturbedStrandsNone ==
    ASSUME Consistent, [Next]_vars, NEW j \in Jobs, ~Stranded(j),
           submission[j] # "none" => UpToDate(j)
    PROVE  ~Stranded(j)'
<1>1. CASE Exists(j)
    BY <1>1, StepStrandsNone
<1>2. CASE ~Exists(j)
    <2> SUFFICES ASSUME Stranded(j)' PROVE FALSE
        OBVIOUS
    <2>1. TypeOK /\ JobStep(j) /\ jobState[j] = "none" /\ Exists(j)'
        BY <1>2, NextKeeps DEF Keeps, Consistent, StoreStep, Exists, Stranded, Pending
    <2>2. Inserts(j)
        BY <2>1 DEF JobStep, Stays, Renews, Ends, Requeues, Succeeds, Promotes, Claims, Exists
    <2>3. CreateJobInsert(j)
        <3>1. ASSUME NEW k \in Jobs, CreateJobInsert(k)
              PROVE  k = j
            BY <2>1, <2>2, <3>1 DEF CreateJobInsert, Inserts, TypeOK
        <3>2. ~Ordinary
            BY <2>2 DEF Ordinary, Inserts
        <3>3. ~(\/ \E w \in Workers, k \in Jobs, at \in Now : ClaimNextJob(w, k, at)
                \/ \E s \in Sessions, how \in {"closed", "lost"} : FinishSession(s, how))
            BY <2>2, Zenon DEF Inserts, ClaimNextJob, FinishSession
        <3> QED
            BY <3>1, <3>2, <3>3, NextKeeps
    <2>4. UNCHANGED session /\ \A d \in Jobs : d # j => jobState'[d] = jobState[d]
        BY <2>1, <2>3 DEF CreateJobInsert, TypeOK
    <2>5. UpToDate(j) /\ jobState'[j] = submission[j]
        BY <2>2 DEF Inserts
    <2>6. \A d \in DependsOn[j] : jobState'[d] = jobState[d]
        BY <2>4, <2>5, JobsAssumption DEF UpToDate
    <2> QED
        BY <2>4, <2>5, <2>6 DEF UpToDate, Stranded, SessionOpen
<1> QED
    BY <1>1, <1>2

(* The gap between the reads of CreateJob and its INSERT is the only way a *)
(* job comes to be stranded: if nothing finishes a dependency or ends the  *)
(* session of a submission under way, no job ever is, whatever else the    *)
(* clients, workers and controllers do.                                    *)
THEOREM OnlySubmissionStrands == Spec /\ [][Undisturbed]_vars => []NeverStranded
<1> DEFINE Fresh == \A j \in Jobs : submission[j] # "none" => UpToDate(j)
<1>1. Init => NeverStranded /\ Fresh
    BY DEF Init, NeverStranded, Stranded, Pending
<1>2. ASSUME Consistent, NeverStranded, Fresh, [Next]_vars, [Undisturbed]_vars
      PROVE  NeverStranded' /\ Fresh'
    <2>1. CASE UNCHANGED vars
        BY <1>2, <2>1 DEF vars, NeverStranded, Stranded, Pending, SessionOpen, UpToDate
    <2>2. CASE Undisturbed
        <3>1. NeverStranded'
            BY <1>2, UndisturbedStrandsNone DEF NeverStranded
        <3>2. Fresh'
            BY <1>2, <2>2, SubmissionStaysUpToDate
        <3> QED
            BY <3>1, <3>2
    <2> QED
        BY <1>2, <2>1, <2>2
<1> HIDE DEF Fresh
<1> QED
    BY <1>1, <1>2, Consistency, PTL DEF Spec

(* The event log reports the end of a job once, or as a failed dependency  *)
(* and then as a timeout by the same round of TimeoutJobs.                 *)
THEOREM EndsAreReportedOnce == Spec => []SecondNoticeIsTimeout
<1>1. Init => SecondNoticeIsTimeout
    BY FS_EmptySet DEF Init, SecondNoticeIsTimeout
<1>2. Consistent /\ SecondNoticeIsTimeout /\ [Next]_vars => SecondNoticeIsTimeout'
    <2> SUFFICES ASSUME Consistent, SecondNoticeIsTimeout, [Next]_vars, NEW j \in Jobs
                 PROVE  \/ Cardinality(announced'[j]) <= 1
                        \/ announced'[j] = {"dependency_failed", "timed_out"}
        BY DEF SecondNoticeIsTimeout
    <2>1. CASE announced'[j] = announced[j]
        BY <2>1 DEF SecondNoticeIsTimeout
    <2>2. ASSUME NEW st \in TerminalJobStates, announced'[j] = {st}
          PROVE  Cardinality(announced'[j]) <= 1
        <3>1. Cardinality({st}) = 1
            BY FS_Singleton, Zenon
        <3>2. Cardinality(announced'[j]) = 1
            BY <2>2, <3>1, Zenon
        <3> QED
            BY <3>2
    <2> QED
        BY <2>1, <2>2, NextKeeps DEF Keeps, Notices
<1> QED
    BY <1>1, <1>2, Consistency, PTL DEF Spec

(* Every way a job row may move is one the lifecycle allows.               *)
LEMMA JobStepFollowsLifecycle ==
    ASSUME Consistent, Consistent', [Next]_vars, NEW j \in Jobs
    PROVE  \/ Lifecycle!Submit(j) \/ Lifecycle!Dispatch(j)
           \/ Lifecycle!Move(j) \/ Lifecycle!Stay(j)
<1> DEFINE tries == [k \in Jobs |-> Len(attempts[k])]
<1>1. TypeOK /\ JobStep(j)
    BY NextKeeps DEF Keeps, Consistent, StoreStep
<1>2. tries[j] = Len(attempts[j]) /\ tries'[j] = Len(attempts'[j])
    OBVIOUS
<1>3. attempts[j] \in Seq(Attempts) /\ Len(attempts[j]) \in Nat
    BY <1>1, LenProperties DEF TypeOK
<1>4. CASE Stays(j)
    BY <1>2, <1>4 DEF Stays, Lifecycle!Stay
<1>5. CASE Renews(j)
    <2>1. PICK m \in DOMAIN attempts[j], until \in Nat \ {0} :
              attempts'[j] = [attempts[j] EXCEPT ![m].expires = until]
        BY <1>5, Zenon DEF Renews
    <2>2. attempts'[j] \in Seq(Attempts) /\ DOMAIN attempts'[j] = DOMAIN attempts[j]
        BY <2>1, Zenon DEF Consistent, TypeOK
    <2>3. Len(attempts'[j]) = Len(attempts[j])
        BY <1>3, <2>2, LenProperties
    <2> QED
        BY <1>2, <1>5, <2>3 DEF Renews, Lifecycle!Stay
<1>6. CASE Ends(j)
    <2>1. Len(attempts'[j]) = Len(attempts[j])
        <3>1. PICK st \in AttemptStates : attempts'[j] = EndActive(attempts[j], st)
            BY <1>6, Zenon DEF Ends, Unsuccessful, AttemptStates
        <3> QED
            BY <1>3, <3>1, EndActiveLength
    <2>2. Lifecycle!Reaches(jobState[j], jobState'[j])
        BY <1>6 DEF Ends, Pending, TerminalJobStates, Lifecycle!Reaches, Lifecycle!CanTransition
    <2> QED
        BY <1>2, <1>6, <2>1, <2>2, Zenon DEF Ends, TerminalJobStates, Lifecycle!Move, Lifecycle!Ended
<1>7. CASE Requeues(j)
    <2>1. Len(attempts'[j]) = Len(attempts[j])
        <3>1. PICK st \in AttemptStates : attempts'[j] = EndActive(attempts[j], st)
            BY <1>7 DEF Requeues, Unsuccessful, AttemptStates
        <3> QED
            BY <1>3, <3>1, EndActiveLength
    <2>2. Lifecycle!Reaches(jobState[j], jobState'[j])
        BY <1>7 DEF Requeues, Lifecycle!Reaches, Lifecycle!CanTransition
    <2>3. \A d \in DependsOn[j] : jobState'[d] = "succeeded"
        BY <1>7 DEF Requeues, Consistent, Bookkeeping
    <2> QED
        BY <1>2, <1>7, <2>1, <2>2, <2>3, Zenon DEF Requeues, Lifecycle!Move, Lifecycle!AllSucceeded
<1>8. CASE Succeeds(j)
    <2>1. Len(attempts'[j]) = Len(attempts[j])
        <3>1. attempts'[j] = EndActive(attempts[j], "succeeded") /\ "succeeded" \in AttemptStates
            BY <1>8 DEF Succeeds, AttemptStates
        <3> QED
            BY <1>3, <3>1, EndActiveLength
    <2>2. Lifecycle!Reaches(jobState[j], jobState'[j])
        BY <1>8 DEF Succeeds, Lifecycle!Reaches, Lifecycle!CanTransition
    <2> QED
        BY <1>2, <1>8, <2>1, <2>2, Zenon DEF Succeeds, Lifecycle!Move
<1>9. CASE Promotes(j)
    <2>1. Lifecycle!Reaches(jobState[j], jobState'[j])
        BY <1>9, Zenon DEF Promotes, Lifecycle!Reaches, Lifecycle!CanTransition
    <2>2. Len(attempts'[j]) < MaxAttempts[j]
        BY <1>9, Zenon DEF Promotes, Consistent, Bookkeeping
    <2> QED
        BY <1>2, <1>9, <2>1, <2>2, Zenon DEF Promotes, Lifecycle!Move, Lifecycle!AllSucceeded
<1>10. CASE Claims(j)
    <2>1. Len(attempts'[j]) = Len(attempts[j]) + 1
        <3>1. PICK a \in Attempts : attempts'[j] = Append(attempts[j], a)
            BY <1>10 DEF Claims, Attempts, AttemptStates, ActiveAttemptStates
        <3> QED
            BY <1>3, <3>1, AppendedAttempt
    <2>2. Len(attempts[j]) < MaxAttempts[j] /\ \A d \in DependsOn[j] : jobState[d] = "succeeded"
        BY <1>10, Zenon DEF Claims, Consistent, Bookkeeping
    <2> QED
        BY <1>2, <1>10, <2>1, <2>2 DEF Claims, Lifecycle!Dispatch, Lifecycle!AllSucceeded
<1>11. CASE Inserts(j)
    <2>1. Len(attempts[j]) = 0
        BY <1>11, EmptySeq, Zenon DEF Inserts, Consistent, Bookkeeping
    <2>2. submission[j] = "queued" => \A d \in DependsOn[j] : jobState[d] = "succeeded"
        BY DEF Consistent, Bookkeeping
    <2>3. submission[j] \in {"queued", "waiting"}
        BY <1>1, <1>11 DEF Inserts, TypeOK
    <2> QED
        BY <1>2, <1>11, <2>1, <2>2, <2>3, Zenon DEF Inserts, Lifecycle!Submit, Lifecycle!AllSucceeded
<1> QED
    BY <1>1, <1>4, <1>5, <1>6, <1>7, <1>8, <1>9, <1>10, <1>11 DEF JobStep

(* The store implements the lifecycle of the domain package: whatever the  *)
(* interleaving, each job is submitted, dispatched and moved as            *)
(* JobLifecycle promises.                                                  *)
THEOREM StoreImplementsLifecycle == Spec => ImplementsLifecycle
<1>1. Init => Lifecycle!Init
    <2> SUFFICES ASSUME Init
                 PROVE  Lifecycle!Init
        OBVIOUS
    <2>1. \A j \in Jobs : Len(attempts[j]) = 0
        BY EmptySeq DEF Init
    <2>2. [j \in Jobs |-> Len(attempts[j])] = [j \in Jobs |-> 0]
        BY <2>1
    <2> QED
        BY <2>2 DEF Init, Lifecycle!Init
<1>2. Consistent /\ Consistent' /\ [Next]_vars => Lifecycle!Next
    BY JobStepFollowsLifecycle DEF Lifecycle!Next
<1> QED
    BY <1>1, <1>2, Consistency, PTL DEF Spec, ImplementsLifecycle, Lifecycle!Spec
=============================================================================
