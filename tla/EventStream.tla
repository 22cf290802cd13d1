----------------------------- MODULE EventStream -----------------------------
(***************************************************************************)
(* What a client that reads the events of a job may rely on, without any   *)
(* worker, buffer, retry or sequence number: one growing list in which the *)
(* attempts of the job come one after the other, the events of an attempt  *)
(* come in the order it emitted them, each at most once, and nothing of an *)
(* attempt follows the transition that ended it.                           *)
(***************************************************************************)
EXTENDS Naturals, Sequences

CONSTANTS Attempts, Numbers, Transition

VARIABLE stream    \* the events of the job as [attempt, number] records

Follows(a, n) ==
    \A i \in DOMAIN stream :
        \/ stream[i].attempt < a
        \/ /\ stream[i].attempt = a
           /\ stream[i].number # Transition
           /\ n = Transition \/ stream[i].number < n

Init == stream = <<>>

Next == \E a \in Attempts, n \in Numbers :
            /\ Follows(a, n)
            /\ stream' = Append(stream, [attempt |-> a, number |-> n])

Spec == Init /\ [][Next]_stream
=============================================================================
