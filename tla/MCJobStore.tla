----------------------------- MODULE MCJobStore -----------------------------
(* Small instances of JobStore. *)
EXTENDS JobStore, TLC

CONSTANTS a, b, c, w1, w2

AllLoose == [j \in Jobs |-> NoSession]
Chain == [j \in Jobs |-> CASE j = b -> {a} [] j = c -> {b} [] OTHER -> {}]
OwnKeys == [j \in Jobs |-> j]
TwoEach == [j \in Jobs |-> 2]
OneEach == [w \in Workers |-> 1]
Deadlines == [j \in Jobs |-> IF j = a THEN 0 ELSE 3]
NoLimit == [j \in Jobs |-> 0]

(* A race of two workers for two jobs, with two submissions under one key. *)
NoDeps == [j \in Jobs |-> {}]
SharedKey == [j \in Jobs |-> IF j = c THEN b ELSE j]
WorkersAlike == Permutations(Workers)
RetryWindow == [j \in Jobs |-> IF j = a THEN 0 ELSE 1]

(* All jobs in one session, which may end at any time. *)
CONSTANT s1
InSession == [j \in Jobs |-> s1]
AfterA == [j \in Jobs |-> IF j = b THEN {a} ELSE {}]
=============================================================================
