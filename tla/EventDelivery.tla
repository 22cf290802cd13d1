---------------------------- MODULE EventDelivery ----------------------------
(***************************************************************************)
(* The events of one job on their way from the worker to the client: the   *)
(* attemptSink of internal/worker/runtime.go with its retry buffer, the    *)
(* network, AppendAttemptEvent and ListEvents of the store, and a client   *)
(* that pages through GET /v1/jobs/{id}/events.                            *)
(*                                                                         *)
(* Emit holds the sink's mutex while it calls the control plane, so the    *)
(* events of an attempt are emitted one after the other; what others do    *)
(* comes between two calls.  A call that returns an error may never have   *)
(* arrived, may have been refused, may have been carried out, or may still *)
(* be under way when the client gives up on it: it then arrives at any     *)
(* later time, or more than once.                                          *)
(*                                                                         *)
(* An event is its worker_sequence; its idempotency key is the attempt     *)
(* and that number.  The payload is left out.                              *)
(***************************************************************************)
EXTENDS Naturals, Sequences, FiniteSets

CONSTANTS
    MaxAttempts,   \* how often the job is attempted
    MaxEvents,     \* bound on the events each attempt emits
    MaxPending,    \* event_retry_buffer, at least 1 (runtime.go:48)
    Page           \* the limit of one ListEvents

ASSUME EventAssumption ==
    /\ MaxAttempts \in Nat \ {0}
    /\ MaxEvents \in [1 .. MaxAttempts -> Nat]
    /\ MaxPending \in Nat \ {0}
    /\ Page \in Nat \ {0}

VARIABLES
    attempt,    \* job_attempts.state: none, active, succeeded or ended
    sink,       \* the attemptSink of each attempt and where its execution is
    refused,    \* the events that Emit returned an error for
    late,       \* event requests the worker gave up on
    events,     \* the rows of job_events
    reader      \* the client: the after of its next page and what it has read

vars == <<attempt, sink, refused, late, events, reader>>

Attempts == 1 .. MaxAttempts

(* worker_sequence of a row that the store appends for a transition. *)
Transition == 0

Steps == {"none", "run", "flush", "send", "drain", "complete", "fail", "gone"}

Sinks == [step : Steps, sequence : Nat, pending : Seq(Nat)]

Init ==
    /\ attempt = [a \in Attempts |-> "none"]
    /\ sink = [a \in Attempts |-> [step |-> "none", sequence |-> 0, pending |-> <<>>]]
    /\ refused = [a \in Attempts |-> {}]
    /\ late = {}
    /\ events = {}
    /\ reader = [after |-> 0, seen |-> <<>>]

-----------------------------------------------------------------------------
(* The store. *)

Logged(a, n) == \E r \in events : r.attempt = a /\ r.number = n

(* COALESCE(MAX(sequence),0)+1 over the events of the job. *)
NextSequence ==
    1 + CHOOSE s \in {0} \cup {r.sequence : r \in events} :
            \A r \in events : r.sequence <= s

Row(a, n) == [sequence |-> NextSequence, attempt |-> a, number |-> n]

(* Mutant: a request that is repeated is stored again. *)
AppendAttemptEventAgain(a, n) ==
    /\ attempt[a] = "active"
    /\ events' = events \cup {Row(a, n)}

(* AppendAttemptEvent: only for an active attempt, and once per key. *)
AppendAttemptEvent(a, n) ==
    /\ attempt[a] = "active"
    /\ events' = IF Logged(a, n) THEN events ELSE events \cup {Row(a, n)}

(* CompleteAttempt ends an active attempt and appends its event. *)
EndAttempt(a, state) ==
    /\ attempt[a] = "active"
    /\ attempt' = [attempt EXCEPT ![a] = state]
    /\ events' = events \cup {Row(a, Transition)}

-----------------------------------------------------------------------------
(* The worker.  A call succeeds when it was carried out and answered. *)

Delivered(a, n) == AppendAttemptEvent(a, n) /\ UNCHANGED late

GivenUp(a, n) == late' = late \cup {<<a, n>>} /\ UNCHANGED events

At(a, step) == sink[a].step = step /\ UNCHANGED reader

GoTo(a, step) == sink' = [sink EXCEPT ![a].step = step]

(* The control plane hands out the next attempt once none is active; the   *)
(* runtime starts its execution with a fresh sink.                         *)
Claim(a) ==
    /\ At(a, "none") /\ attempt[a] = "none"
    /\ \A b \in Attempts : b < a => attempt[b] = "ended"
    /\ attempt' = [attempt EXCEPT ![a] = "active"]
    /\ GoTo(a, "run")
    /\ UNCHANGED <<refused, late, events>>

(* Emit numbers the event and goes on to flushLocked. *)
Emit(a) ==
    /\ At(a, "run") /\ sink[a].sequence < MaxEvents[a]
    /\ sink' = [sink EXCEPT ![a].sequence = @ + 1,
                            ![a].step = IF sink[a].pending = <<>> THEN "send" ELSE "flush"]
    /\ UNCHANGED <<attempt, refused, late, events>>

(* Mutant: the buffer takes one event more than its size. *)
BufferOneMore(a) ==
    IF Len(sink[a].pending) <= MaxPending
    THEN /\ sink' = [sink EXCEPT ![a].step = "run",
                                 ![a].pending = Append(@, sink[a].sequence)]
         /\ UNCHANGED refused
    ELSE /\ refused' = [refused EXCEPT ![a] = @ \cup {sink[a].sequence}]
         /\ GoTo(a, "run")

(* The event that Emit is about could not be sent: it is buffered, or Emit *)
(* returns an error, which the command executor drops (command.go:209).    *)
Buffer(a) ==
    IF Len(sink[a].pending) < MaxPending
    THEN /\ sink' = [sink EXCEPT ![a].step = "run",
                                 ![a].pending = Append(@, sink[a].sequence)]
         /\ UNCHANGED refused
    ELSE /\ refused' = [refused EXCEPT ![a] = @ \cup {sink[a].sequence}]
         /\ GoTo(a, "run")

(* Mutant: the head of the buffer is dropped whatever the call returned. *)
FlushPendingAnyway(a, step, next) ==
    /\ At(a, step)
    /\ \/ Delivered(a, Head(sink[a].pending)) \/ GivenUp(a, Head(sink[a].pending))
    /\ sink' = [sink EXCEPT ![a].pending = Tail(@),
                            ![a].step = IF Len(sink[a].pending) = 1 THEN next ELSE step]
    /\ UNCHANGED <<attempt, refused>>

(* One call of flushLocked that succeeds; next comes when nothing is left. *)
FlushPending(a, step, next) ==
    /\ At(a, step)
    /\ Delivered(a, Head(sink[a].pending))
    /\ sink' = [sink EXCEPT ![a].pending = Tail(@),
                            ![a].step = IF Len(sink[a].pending) = 1 THEN next ELSE step]
    /\ UNCHANGED <<attempt, refused>>

(* Mutant: an event that is in the buffer does not hold up a new one. *)
FlushFailsAndSends(a) ==
    /\ At(a, "flush")
    /\ GivenUp(a, Head(sink[a].pending))
    /\ GoTo(a, "send")
    /\ UNCHANGED <<attempt, refused>>

FlushFails(a) ==
    /\ At(a, "flush")
    /\ GivenUp(a, Head(sink[a].pending))
    /\ Buffer(a)
    /\ UNCHANGED attempt

Send(a) ==
    /\ At(a, "send")
    /\ Delivered(a, sink[a].sequence)
    /\ GoTo(a, "run")
    /\ UNCHANGED <<attempt, refused>>

SendFails(a) ==
    /\ At(a, "send")
    /\ GivenUp(a, sink[a].sequence)
    /\ Buffer(a)
    /\ UNCHANGED attempt

(* Mutant: what is still in the buffer is forgotten. *)
ExecutedUnflushed(a) ==
    /\ At(a, "run")
    /\ GoTo(a, "complete")
    /\ UNCHANGED <<attempt, refused, late, events>>

(* Execute returned a result: the buffer is flushed before Complete. *)
Executed(a) ==
    /\ At(a, "run")
    /\ GoTo(a, IF sink[a].pending = <<>> THEN "complete" ELSE "drain")
    /\ UNCHANGED <<attempt, refused, late, events>>

ExecuteFailed(a) ==
    /\ At(a, "run")
    /\ GoTo(a, "fail")
    /\ UNCHANGED <<attempt, refused, late, events>>

(* event_delivery_error *)
DrainFails(a) ==
    /\ At(a, "drain")
    /\ GivenUp(a, Head(sink[a].pending))
    /\ GoTo(a, "fail")
    /\ UNCHANGED <<attempt, refused>>

(* Complete, answered or not; an error makes the worker report a failure. *)
Complete(a) ==
    /\ At(a, "complete")
    /\ EndAttempt(a, "succeeded")
    /\ \/ GoTo(a, "gone") \/ GoTo(a, "fail")
    /\ UNCHANGED <<refused, late>>

CompleteFails(a) ==
    /\ At(a, "complete")
    /\ GoTo(a, "fail")
    /\ UNCHANGED <<attempt, refused, late, events>>

(* Fail is tried once, whatever comes of it. *)
Fail(a) ==
    /\ At(a, "fail")
    /\ EndAttempt(a, "ended") \/ UNCHANGED <<attempt, events>>
    /\ GoTo(a, "gone")
    /\ UNCHANGED <<refused, late>>

Crash(a) ==
    /\ sink[a].step \notin {"none", "gone"}
    /\ GoTo(a, "gone")
    /\ UNCHANGED <<attempt, refused, late, events, reader>>

-----------------------------------------------------------------------------
(* Others. *)

(* A request the worker has given up on arrives. *)
Arrive(a, n) ==
    /\ <<a, n>> \in late
    /\ AppendAttemptEvent(a, n)
    /\ UNCHANGED <<attempt, sink, refused, late, reader>>

(* The lease expires or the job is canceled or timed out.  The store       *)
(* appends an event if that ends the job.                                  *)
Expire(a) ==
    /\ \/ EndAttempt(a, "ended")
       \/ /\ attempt[a] = "active"
          /\ attempt' = [attempt EXCEPT ![a] = "ended"]
          /\ UNCHANGED events
    /\ UNCHANGED <<sink, refused, late, reader>>

(* Mutant: sequence>=after. *)
PageFrom(after) ==
    {r \in events : /\ r.sequence >= after
                    /\ Cardinality({q \in events : q.sequence \in after .. r.sequence}) <= Page}

(* ListEvents: sequence>after ORDER BY sequence LIMIT. *)
PageAfter(after) ==
    {r \in events : /\ r.sequence > after
                    /\ Cardinality({q \in events : q.sequence \in after + 1 .. r.sequence}) <= Page}

(* The client reads the next page and continues after its last event. *)
ReadPage ==
    LET page == PageAfter(reader.after)
        rank(r) == Cardinality({q \in page : q.sequence <= r.sequence})
    IN  /\ page # {}
        /\ reader' = [after |-> (CHOOSE r \in page : \A q \in page : q.sequence <= r.sequence).sequence,
                      seen  |-> reader.seen \o
                                [i \in 1 .. Cardinality(page) |-> CHOOSE r \in page : rank(r) = i]]
        /\ UNCHANGED <<attempt, sink, refused, late, events>>

-----------------------------------------------------------------------------
Emitting(a) ==
    \/ FlushPending(a, "flush", "send")
    \/ FlushFails(a)
    \/ Send(a)
    \/ SendFails(a)

Reporting(a) ==
    \/ FlushPending(a, "drain", "complete")
    \/ DrainFails(a)
    \/ Complete(a)
    \/ CompleteFails(a)
    \/ Fail(a)

Next ==
    \/ \E a \in Attempts :
          \/ Claim(a) \/ Emit(a) \/ Emitting(a)
          \/ Executed(a) \/ ExecuteFailed(a) \/ Reporting(a)
          \/ Crash(a) \/ Expire(a)
    \/ \E request \in late : Arrive(request[1], request[2])
    \/ ReadPage

Spec == Init /\ [][Next]_vars

(* A call ends, if only at the timeout of the worker's client; executors   *)
(* end; and the lease of an attempt whose worker is gone is not renewed.   *)
(* The client keeps polling.                                               *)
Fairness ==
    /\ \A a \in Attempts :
          /\ WF_vars(Emitting(a))
          /\ WF_vars(Reporting(a))
          /\ WF_vars(Executed(a))
          /\ WF_vars(sink[a].step = "gone" /\ Expire(a))
    /\ WF_vars(ReadPage)

FairSpec == Spec /\ Fairness

-----------------------------------------------------------------------------
(* Correctness. *)

(* Every variable holds a value of its type, and the retry buffer stays    *)
(* within its configured size.                                             *)
TypeOK ==
    /\ attempt \in [Attempts -> {"none", "active", "succeeded", "ended"}]
    /\ sink \in [Attempts -> Sinks]
    /\ \A a \in Attempts : Len(sink[a].pending) <= MaxPending
    /\ refused \in [Attempts -> SUBSET Nat]
    /\ late \subseteq Attempts \X Nat
    /\ events \subseteq [sequence : Nat, attempt : Attempts, number : Nat]
    /\ reader.after \in Nat

(* The log holds no event twice and the events of an attempt in the order  *)
(* Emit numbered them, although AppendAttemptEvent never looks at          *)
(* worker_sequence and every request may be repeated or overtaken.         *)
InOrderOnce ==
    \A q, r \in events :
        /\ q.sequence = r.sequence => q = r
        /\ q.attempt = r.attempt /\ q.number # Transition /\ r.number # Transition
              => (q.sequence < r.sequence <=> q.number < r.number)

(* When an attempt succeeds the log has every event it emitted but those   *)
(* that Emit refused: nothing accepted into the buffer is left behind.     *)
OnlyRefusedMissing ==
    \A a \in Attempts : attempt[a] = "succeeded" =>
        \A n \in 1 .. sink[a].sequence : Logged(a, n) \/ n \in refused[a]

(* The client has read exactly the events up to its cursor, in their       *)
(* order: no event is ever inserted below a cursor handed out before.      *)
ReaderIsExact ==
    /\ Len(reader.seen) = Cardinality({r \in events : r.sequence <= reader.after})
    /\ \A i \in DOMAIN reader.seen :
          /\ reader.seen[i] \in events
          /\ reader.seen[i].sequence <= reader.after
          /\ \A k \in DOMAIN reader.seen :
                i < k => reader.seen[i].sequence < reader.seen[k].sequence

(* An event that Emit accepted reaches the client, unless its attempt ends *)
(* without success: the buffer is no place where events stay.              *)
AcceptedIsRead ==
    \A a \in Attempts : \A n \in 1 .. MaxEvents[a] :
        sink[a].step = "run" /\ n <= sink[a].sequence /\ n \notin refused[a]
        ~> \/ attempt[a] = "ended"
           \/ \E i \in DOMAIN reader.seen :
                 reader.seen[i].attempt = a /\ reader.seen[i].number = n

(* The sequence numbers of the log are 1, 2, ... without a gap. *)
Numbered ==
    /\ IsFiniteSet(events)
    /\ \A r \in events : r.sequence \in 1 .. Cardinality(events)
    /\ \A i \in 1 .. Cardinality(events) : \E r \in events : r.sequence = i

(* An attempt is handed out when all before it have ended. *)
InTurn ==
    \A a, b \in Attempts : b < a /\ attempt[a] # "none" => attempt[b] = "ended"

(* The buffer holds numbers in their order; in flush, one more is waiting. *)
BufferSound(a) ==
    LET s == sink[a] IN
    /\ s.sequence <= MaxEvents[a]
    /\ \A i \in 1 .. Len(s.pending) :
          /\ s.pending[i] \in 1 .. s.sequence
          /\ s.step = "flush" => s.pending[i] # s.sequence
          /\ \A k \in 1 .. Len(s.pending) : i < k => s.pending[i] < s.pending[k]
    /\ s.step \in {"flush", "drain"} => s.pending # <<>>
    /\ s.step \in {"send", "complete"} => s.pending = <<>>
    /\ s.step \in {"send", "flush"} => s.sequence # 0

(* The only number that a request may still bring to the log. *)
Frontier(a) == IF sink[a].pending = <<>> THEN sink[a].sequence ELSE Head(sink[a].pending)

(* The log ends, for an attempt, at the head of its buffer, and nothing    *)
(* that is still under way is older than that head unless it is stored.    *)
LogSound(a) ==
    /\ \A r \in events : r.attempt = a =>
          /\ attempt[a] # "none"
          /\ r.number = Transition => attempt[a] # "active"
          /\ r.number <= Frontier(a)
          /\ sink[a].step = "send" => r.number < sink[a].sequence
    /\ \A m \in late : m[1] = a =>
          Logged(a, m[2]) \/ (sink[a].pending # <<>> /\ m[2] = Head(sink[a].pending))

(* Every event is stored, refused, in the buffer or in the hands of Emit. *)
Accounted(a) ==
    LET s == sink[a] IN
    /\ s.step # "gone" => \A n \in 1 .. s.sequence :
          \/ Logged(a, n) \/ n \in refused[a]
          \/ \E i \in 1 .. Len(s.pending) : s.pending[i] = n
          \/ n = s.sequence /\ s.step \in {"send", "flush"}
    /\ attempt[a] = "succeeded" =>
          /\ s.step \in {"fail", "gone"}
          /\ \A n \in 1 .. s.sequence : Logged(a, n) \/ n \in refused[a]

SinkSound(a) == BufferSound(a) /\ LogSound(a) /\ Accounted(a)

(* What the client has read i-th is the row with sequence number i. *)
ReaderSound ==
    /\ reader.seen \in [1 .. reader.after -> events]
    /\ \A i \in 1 .. reader.after : reader.seen[i].sequence = i

(* Why events are neither lost, repeated nor reordered: whatever calls     *)
(* fail, arrive late or arrive twice, the only event of an attempt that    *)
(* can reach AppendAttemptEvent for the first time is the head of the      *)
(* sink's buffer or, when that is empty, the event Emit is sending.        *)
DeliverySound ==
    /\ TypeOK /\ Numbered /\ InOrderOnce /\ InTurn
    /\ \A a \in Attempts : SinkSound(a)
    /\ ReaderSound

RowAt(i) == CHOOSE r \in events : r.sequence = i

(* The log as the client sees it, without the sequence numbers. *)
Log == [i \in 1 .. Cardinality(events) |->
            [attempt |-> RowAt(i).attempt, number |-> RowAt(i).number]]

Stream == INSTANCE EventStream WITH
    Numbers <- UNION {0 .. MaxEvents[a] : a \in Attempts},
    stream <- Log

(* Retries, late requests and replaced workers together look to a client   *)
(* like one ordered list that only grows at its end.                       *)
ImplementsStream == Stream!Spec
=============================================================================
