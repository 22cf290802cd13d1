--------------------------- MODULE MCEventDelivery ---------------------------
(* A small instance of EventDelivery: the first attempt emits enough for an *)
(* event to be refused between two that arrive.                            *)
EXTENDS EventDelivery

ThreeThenOne == <<3, 1>>
=============================================================================
