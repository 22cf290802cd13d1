------------------------- MODULE SessionLifecycle -------------------------
(***************************************************************************)
(* What a client may rely on of a session (domain.SessionState): it is     *)
(* bound once, every recovery opens the next epoch, and an ended session   *)
(* stays as it is.                                                         *)
(***************************************************************************)
EXTENDS Naturals

VARIABLES
    state,  \* sessions.state
    epoch   \* sessions.epoch

vars == <<state, epoch>>

Ended == {"closed", "lost"}

Init == state = "pending" /\ epoch = 1

Bind == state = "pending" /\ state' = "active" /\ epoch' = epoch

Recover ==
    /\ state \in {"active", "recovering"}
    /\ state' = "recovering"
    /\ epoch' = epoch + 1

Resume == state = "recovering" /\ state' = "active" /\ epoch' = epoch

End == state \notin Ended /\ state' \in Ended /\ epoch' = epoch

Next == Bind \/ Recover \/ Resume \/ End

Spec == Init /\ [][Next]_vars
===========================================================================
