---------------------------- MODULE JobLifecycle ----------------------------
(***************************************************************************)
(* What the control plane promises about each job: it moves along the      *)
(* transition table of internal/domain/state.go, is dispatched a bounded   *)
(* number of times, starts only after its dependencies, and ends for a     *)
(* reason.  Leases, workers, slots and the clock do not appear.            *)
(*                                                                         *)
(* One step of the store may move several jobs (a failure and everything   *)
(* downstream of it), so one step here moves any set of jobs, each along   *)
(* the table.                                                              *)
(***************************************************************************)
EXTENDS Naturals

CONSTANTS Jobs, DependsOn, MaxAttempts, SessionOf, NoSession

VARIABLES
    state,  \* domain.Job.State, "none" before the job exists
    tries   \* len(domain.Job.Attempts)

Ended == {"succeeded", "failed", "canceled", "timed_out",
          "dependency_failed", "session_lost"}

CanTransition(from, to) ==
    \/ /\ from = "waiting"
       /\ to \in {"queued", "canceled", "dependency_failed", "session_lost", "timed_out"}
    \/ /\ from = "queued"
       /\ to \in {"leased", "canceled", "timed_out", "dependency_failed", "session_lost"}
    \/ /\ from = "leased"
       /\ to \in {"running", "queued", "canceled", "timed_out", "session_lost"}
    \/ /\ from = "running"
       /\ to \in {"succeeded", "failed", "queued", "canceled", "timed_out", "session_lost"}

(* The store never records "running" (no statement writes it), so one of   *)
(* its steps may stand for the two transitions through that state.         *)
Reaches(from, to) ==
    \/ CanTransition(from, to)
    \/ CanTransition(from, "running") /\ CanTransition("running", to)

AllSucceeded(j, s) == \A d \in DependsOn[j] : s[d] = "succeeded"

(* AddAttempt and the retry policy: a dispatch adds the next attempt, and  *)
(* only a job with attempts left goes back to the queue.                   *)
Dispatch(j) ==
    /\ state[j] = "queued" /\ state'[j] = "leased"
    /\ AllSucceeded(j, state)
    /\ tries[j] < MaxAttempts[j] /\ tries'[j] = tries[j] + 1

Submit(j) ==
    /\ state[j] = "none" /\ tries[j] = 0
    /\ \/ state'[j] = "queued" /\ AllSucceeded(j, state)
       \/ state'[j] = "waiting"
    /\ tries'[j] = tries[j]

Move(j) ==
    /\ Reaches(state[j], state'[j]) /\ state'[j] # "leased"
    /\ state'[j] = "queued" => /\ AllSucceeded(j, state')
                               /\ tries[j] < MaxAttempts[j]
    /\ state'[j] = "dependency_failed" =>
          \E d \in DependsOn[j] : state'[d] \in Ended \ {"succeeded"}
    /\ state'[j] = "session_lost" => SessionOf[j] # NoSession
    /\ tries'[j] = tries[j]

Stay(j) == state'[j] = state[j] /\ tries'[j] = tries[j]

Init == /\ state = [j \in Jobs |-> "none"]
        /\ tries = [j \in Jobs |-> 0]

Next == \A j \in Jobs : Submit(j) \/ Dispatch(j) \/ Move(j) \/ Stay(j)

Spec == Init /\ [][Next]_<<state, tries>>
=============================================================================
