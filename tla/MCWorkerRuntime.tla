-------------------------- MODULE MCWorkerRuntime --------------------------
(* Small instances of WorkerRuntime. *)
EXTENDS WorkerRuntime

CONSTANTS a, b, w1

AllLoose == [j \in Jobs |-> NoSession]
NoDeps == [j \in Jobs |-> {}]
OwnKeys == [j \in Jobs |-> j]
ThreeEach == [j \in Jobs |-> 3]
Deadlines == [j \in Jobs |-> 6]
NoLimit == [j \in Jobs |-> 0]
TwoSlots == [w \in Workers |-> 2]

(* The default durations, in units of five seconds, and long jobs. *)
OneEach == [j \in Jobs |-> 1]
NoDeadlines == [j \in Jobs |-> 0]
ThreeSlots == [w \in Workers |-> 3]
=============================================================================
