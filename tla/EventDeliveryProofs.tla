------------------------- MODULE EventDeliveryProofs -------------------------
(***************************************************************************)
(* Proofs about EventDelivery: DeliverySound is inductive, so for any      *)
(* number of attempts and events and any size of the buffer the log holds  *)
(* the events of each attempt once and in order, a successful attempt      *)
(* misses only what Emit refused, a paging reader has read every row up to *)
(* its cursor once and in order, and the log implements EventStream.       *)
(***************************************************************************)
EXTENDS EventDelivery, FiniteSetTheorems, SequenceTheorems, TLAPS

-----------------------------------------------------------------------------
(* Lemmas on the buffer and on the log. *)

(* A sequence is a function on an initial segment of the naturals. *)
LEMMA IsSequence ==
    ASSUME NEW S, NEW n \in Nat, NEW f \in [1 .. n -> S]
    PROVE  f \in Seq(S) /\ Len(f) = n
OBVIOUS

(* What taking the head of a buffer leaves. *)
LEMMA TailFacts ==
    ASSUME NEW s \in Seq(Nat), s # <<>>
    PROVE  /\ Head(s) = s[1] /\ Head(s) \in Nat
           /\ Tail(s) \in Seq(Nat)
           /\ Len(s) \in Nat \ {0}
           /\ Len(Tail(s)) = Len(s) - 1
           /\ \A i \in 1 .. Len(Tail(s)) : Tail(s)[i] = s[i + 1]
           /\ (Tail(s) = <<>>) <=> (Len(s) = 1)
<1>1. /\ Len(s) \in Nat /\ Len(s) # 0
      /\ Tail(s) \in Seq(Nat) /\ Head(s) = s[1] /\ Head(s) \in Nat
      /\ Len(Tail(s)) = Len(s) - 1
      /\ \A i \in 1 .. Len(Tail(s)) : Tail(s)[i] = s[i + 1]
  BY HeadTailProperties, EmptySeq, LenProperties, ElementOfSeq
<1>2. (Tail(s) = <<>>) <=> (Len(Tail(s)) = 0)
  BY <1>1, EmptySeq
<1>3. (Len(Tail(s)) = 0) <=> (Len(s) = 1)
  BY <1>1
<1> QED BY <1>1, <1>2, <1>3

(* What adding an event to a buffer gives. *)
LEMMA AppendFacts ==
    ASSUME NEW s \in Seq(Nat), NEW n \in Nat
    PROVE  /\ Append(s, n) \in Seq(Nat)
           /\ Append(s, n) # <<>>
           /\ Len(s) \in Nat
           /\ Len(Append(s, n)) = Len(s) + 1
           /\ \A i \in 1 .. Len(s) : Append(s, n)[i] = s[i]
           /\ Append(s, n)[Len(s) + 1] = n
           /\ Head(Append(s, n)) = IF s = <<>> THEN n ELSE Head(s)
<1>1. /\ Append(s, n) \in Seq(Nat) /\ Append(s, n) # <<>>
      /\ Len(Append(s, n)) = Len(s) + 1
      /\ \A i \in 1 .. Len(s) : Append(s, n)[i] = s[i]
      /\ Append(s, n)[Len(s) + 1] = n
      /\ Len(s) \in Nat
  BY AppendProperties, LenProperties
<1>2. Head(Append(s, n)) = Append(s, n)[1]
  BY <1>1, HeadTailProperties
<1>3. CASE s = <<>>
  BY <1>1, <1>2, <1>3
<1>4. CASE s # <<>>
  BY <1>1, <1>2, <1>4, TailFacts
<1> QED BY <1>1, <1>3, <1>4

(* COALESCE(MAX(sequence),0)+1 is one more than the number of rows. *)
LEMMA NextSequenceValue ==
    ASSUME Numbered
    PROVE  /\ Cardinality(events) \in Nat
           /\ NextSequence = Cardinality(events) + 1
<1> DEFINE c == Cardinality(events)
           S == {0} \cup {r.sequence : r \in events}
           Top(s) == \A r \in events : r.sequence <= s
<1>1. c \in Nat
  BY FS_CardinalityType DEF Numbered
<1>2. c \in S /\ Top(c)
  BY <1>1 DEF Numbered
<1>3. \A s \in S : Top(s) => s = c
  <2> SUFFICES ASSUME NEW s \in S, Top(s) PROVE s = c
    OBVIOUS
  <2>1. s \in Nat /\ s <= c
    BY <1>1 DEF Numbered
  <2>2. CASE c = 0
    BY <2>1, <2>2
  <2>3. CASE c # 0
    <3>1. PICK r \in events : r.sequence = c
      BY <1>1, <2>3 DEF Numbered
    <3> QED BY <1>1, <2>1, <3>1
  <2> QED BY <2>2, <2>3
<1>4. (CHOOSE s \in S : Top(s)) = c
  BY <1>2, <1>3
<1>5. NextSequence = 1 + c
  BY <1>4, Zenon DEF NextSequence
<1> QED BY <1>1, <1>5

(* An appended row is new and takes the next number. *)
LEMMA AppendEffect ==
    ASSUME NEW a \in Attempts, NEW n \in Nat, Numbered,
           events' = events \cup {Row(a, n)}
    PROVE  /\ Row(a, n) \notin events
           /\ Row(a, n) = [sequence |-> Cardinality(events) + 1, attempt |-> a, number |-> n]
           /\ Cardinality(events) \in Nat
           /\ Cardinality(events') = Cardinality(events) + 1
           /\ Numbered'
<1> DEFINE c == Cardinality(events)
<1>1. c \in Nat /\ Row(a, n) = [sequence |-> c + 1, attempt |-> a, number |-> n]
  BY NextSequenceValue DEF Row
<1>2. Row(a, n) \notin events
  BY <1>1 DEF Numbered
<1>3. IsFiniteSet(events') /\ Cardinality(events') = c + 1
  BY <1>2, FS_AddElement DEF Numbered
<1>4. \A r \in events' : r.sequence \in 1 .. c + 1
  BY <1>1 DEF Numbered
<1>5. \A i \in 1 .. c + 1 : \E r \in events' : r.sequence = i
  <2> SUFFICES ASSUME NEW i \in 1 .. c + 1 PROVE \E r \in events' : r.sequence = i
    OBVIOUS
  <2>1. CASE i = c + 1
    BY <1>1, <2>1
  <2>2. CASE i # c + 1
    BY <1>1, <2>2 DEF Numbered
  <2> QED BY <2>1, <2>2
<1>6. Numbered'
  BY <1>3, <1>4, <1>5 DEF Numbered
<1> QED BY <1>1, <1>2, <1>3, <1>6

-----------------------------------------------------------------------------
(* The steps of one attempt. *)

(* Event n of attempt a may be the next row of the log. *)
MayAppend(a, n) ==
    /\ attempt[a] = "active"
    /\ \A r \in events : r.attempt = a =>
          r.number # Transition /\ (n = Transition \/ r.number < n)

(* What every step on behalf of attempt a does: it leaves the other        *)
(* attempts alone, appends at most one row that may come next, and leaves  *)
(* the sink of a in order.                                                 *)
Effect(a) ==
    /\ attempt' = [attempt EXCEPT ![a] = attempt'[a]]
    /\ sink' = [sink EXCEPT ![a] = sink'[a]]
    /\ refused' = [refused EXCEPT ![a] = refused'[a]]
    /\ sink'[a] \in Sinks /\ Len(sink'[a].pending) <= MaxPending
    /\ refused'[a] \subseteq Nat
    /\ late' \subseteq late \cup ({a} \X Nat)
    /\ \/ attempt'[a] = attempt[a]
       \/ attempt[a] = "active" /\ attempt'[a] \in {"succeeded", "ended"}
       \/ /\ attempt[a] = "none" /\ attempt'[a] = "active"
          /\ \A b \in Attempts : b < a => attempt[b] = "ended"
    /\ \/ events' = events
       \/ \E n \in 0 .. MaxEvents[a] : MayAppend(a, n) /\ events' = events \cup {Row(a, n)}
    /\ reader' = reader
    /\ SinkSound(a)'

(* A step leaves what it does not touch sound. *)
LEMMA Frame ==
    ASSUME NEW b \in Attempts, SinkSound(b),
           sink'[b] = sink[b], attempt'[b] = attempt[b], refused'[b] = refused[b],
           events \subseteq events',
           \A r \in events' : r \in events \/ r.attempt # b,
           \A m \in late' : m \in late \/ m[1] # b
    PROVE  SinkSound(b)'
<1>0. \A n : Logged(b, n) => Logged(b, n)'
  BY DEF Logged
<1>1. BufferSound(b)'
  BY DEF SinkSound, BufferSound
<1>2. LogSound(b)'
  BY <1>0 DEF SinkSound, LogSound, Frontier
<1>3. Accounted(b)'
  BY <1>0 DEF SinkSound, Accounted
<1> QED BY <1>1, <1>2, <1>3 DEF SinkSound

(* AppendAttemptEvent stores a row that may come next, or none. *)
LEMMA StoreOnce ==
    ASSUME DeliverySound, NEW a \in Attempts, NEW n \in Nat,
           AppendAttemptEvent(a, n),
           Logged(a, n) \/ (n = Frontier(a) /\ n \in 1 .. sink[a].sequence)
    PROVE  /\ attempt[a] = "active"
           /\ \/ events' = events
              \/ /\ MayAppend(a, n) /\ n \in 1 .. MaxEvents[a]
                 /\ n = Frontier(a)
                 /\ events' = events \cup {Row(a, n)}
           /\ Logged(a, n)'
<1>1. CASE Logged(a, n)
  BY <1>1 DEF AppendAttemptEvent, Logged
<1>2. CASE ~Logged(a, n)
  <2>1. /\ attempt[a] = "active" /\ events' = events \cup {Row(a, n)}
    BY <1>2 DEF AppendAttemptEvent
  <2>2. Row(a, n).attempt = a /\ Row(a, n).number = n
    BY DEF Row
  <2>3. Logged(a, n)'
    BY <2>1, <2>2 DEF Logged
  <2>4. /\ n = Frontier(a) /\ n \in 1 .. sink[a].sequence
        /\ sink[a].sequence \in Nat /\ sink[a].sequence <= MaxEvents[a]
        /\ MaxEvents[a] \in Nat
    BY <1>2, EventAssumption DEF DeliverySound, TypeOK, Sinks, SinkSound, BufferSound, Attempts
  <2>5. ASSUME NEW r \in events, r.attempt = a
        PROVE  r.number # Transition /\ r.number < n
    <3>1. r.number \in Nat /\ r.number # n
      BY <1>2, <2>5 DEF Logged, DeliverySound, TypeOK
    <3>2. r.number # Transition /\ r.number <= n
      BY <2>1, <2>4, <2>5 DEF DeliverySound, SinkSound, LogSound
    <3> QED BY <3>1, <3>2
  <2> QED BY <2>1, <2>3, <2>4, <2>5 DEF MayAppend
<1> QED BY <1>1, <1>2

(* EndAttempt appends the transition of an active attempt. *)
LEMMA StoreEnd ==
    ASSUME DeliverySound, NEW a \in Attempts, NEW state \in {"succeeded", "ended"},
           EndAttempt(a, state)
    PROVE  /\ MayAppend(a, Transition) /\ Transition \in 0 .. MaxEvents[a]
           /\ attempt[a] = "active" /\ attempt'[a] = state
           /\ attempt' = [attempt EXCEPT ![a] = attempt'[a]]
           /\ events' = events \cup {Row(a, Transition)}
           /\ Row(a, Transition).attempt = a /\ Row(a, Transition).number = Transition
<1>1. MaxEvents[a] \in Nat /\ Transition = 0
  BY EventAssumption DEF Attempts, Transition
<1>2. attempt[a] = "active" /\ attempt' = [attempt EXCEPT ![a] = state]
  BY DEF EndAttempt
<1>3. \A r \in events : r.attempt = a => r.number # Transition
  BY <1>2 DEF DeliverySound, SinkSound, LogSound
<1> QED BY <1>1, <1>2, <1>3 DEF EndAttempt, MayAppend, Row, DeliverySound, TypeOK

(* From now on the types of one attempt are used in this form. *)
LEMMA SinkTypes ==
    ASSUME DeliverySound, NEW a \in Attempts
    PROVE  /\ sink[a] \in Sinks
           /\ sink[a].step \in Steps /\ sink[a].sequence \in Nat
           /\ sink[a].pending \in Seq(Nat) /\ Len(sink[a].pending) <= MaxPending
           /\ Len(sink[a].pending) \in Nat
           /\ refused[a] \subseteq Nat
           /\ MaxEvents[a] \in Nat /\ MaxPending \in Nat \ {0}
           /\ SinkSound(a)
<1>1. sink[a] \in Sinks /\ Len(sink[a].pending) <= MaxPending
  BY DEF DeliverySound, TypeOK
<1>2. sink[a].step \in Steps /\ sink[a].sequence \in Nat /\ sink[a].pending \in Seq(Nat)
  BY <1>1 DEF Sinks
<1>3. Len(sink[a].pending) \in Nat
  BY <1>2, LenProperties
<1>4. MaxEvents[a] \in Nat /\ MaxPending \in Nat \ {0}
  BY EventAssumption DEF Attempts
<1>5. refused[a] \subseteq Nat /\ SinkSound(a)
  BY DEF DeliverySound, TypeOK
<1> QED BY <1>1, <1>2, <1>3, <1>4, <1>5

(* GoTo changes the step of one sink and nothing else. *)
LEMMA GoToFacts ==
    ASSUME DeliverySound, NEW a \in Attempts, NEW step \in Steps, GoTo(a, step)
    PROVE  /\ sink' = [sink EXCEPT ![a] = sink'[a]]
           /\ sink'[a] \in Sinks
           /\ sink'[a].step = step
           /\ sink'[a].sequence = sink[a].sequence
           /\ sink'[a].pending = sink[a].pending
<1>1. sink[a] \in Sinks /\ sink \in [Attempts -> Sinks]
  BY DEF DeliverySound, TypeOK
<1>2. sink'[a] = [sink[a] EXCEPT !.step = step]
  BY <1>1 DEF GoTo
<1>3. sink'[a] = [step |-> step, sequence |-> sink[a].sequence, pending |-> sink[a].pending]
  BY <1>1, <1>2 DEF Sinks
<1>4. sink' = [sink EXCEPT ![a] = sink'[a]]
  BY <1>1 DEF GoTo
<1> QED BY <1>1, <1>3, <1>4 DEF Sinks

(* A row or request of one attempt that is added keeps what was there. *)
LEMMA LoggedGrows ==
    ASSUME events \subseteq events', NEW a, NEW n, Logged(a, n)
    PROVE  Logged(a, n)'
BY DEF Logged

(* The steps that only move on: Executed, ExecuteFailed, CompleteFails and *)
(* Crash.                                                                  *)
LEMMA MovesOn ==
    ASSUME DeliverySound, NEW a \in Attempts, NEW step \in Steps, GoTo(a, step),
           UNCHANGED <<attempt, refused, late, events, reader>>,
           \/ sink[a].step = "run" /\ step = "complete" /\ sink[a].pending = <<>>
           \/ sink[a].step = "run" /\ step = "drain" /\ sink[a].pending # <<>>
           \/ sink[a].step \in {"run", "complete"} /\ step = "fail"
           \/ step = "gone"
    PROVE  Effect(a)
<1>0. /\ sink' = [sink EXCEPT ![a] = sink'[a]] /\ sink'[a] \in Sinks
      /\ sink'[a].step = step /\ sink'[a].sequence = sink[a].sequence
      /\ sink'[a].pending = sink[a].pending
      /\ BufferSound(a) /\ LogSound(a) /\ Accounted(a)
  BY SinkTypes, GoToFacts DEF SinkSound
<1>1. BufferSound(a)'
  BY <1>0 DEF BufferSound
<1>2. LogSound(a)'
  BY <1>0 DEF LogSound, Frontier, Logged
<1>3. Accounted(a)'
  <2>1. \A n : Logged(a, n) => Logged(a, n)'
    BY DEF Logged
  <2>2. sink[a].step \notin {"send", "flush"} \/ step = "gone"
    OBVIOUS
  <2>3. attempt[a] = "succeeded" => sink[a].step \in {"fail", "gone"} /\ step = "gone"
    BY <1>0 DEF Accounted
  <2>4. step # "gone" => sink[a].step # "gone"
    OBVIOUS
  <2> QED BY <1>0, <2>1, <2>2, <2>3, <2>4 DEF Accounted
<1>4. SinkSound(a)'
  BY <1>1, <1>2, <1>3 DEF SinkSound
<1> QED BY <1>0, <1>4 DEF Effect, DeliverySound, TypeOK

(* Claim hands out an attempt of which the log has no row. *)
LEMMA ClaimEffect ==
    ASSUME DeliverySound, NEW a \in Attempts, Claim(a)
    PROVE  Effect(a)
<1>types. /\ sink[a] \in Sinks
          /\ sink[a].step \in Steps /\ sink[a].sequence \in Nat
          /\ sink[a].pending \in Seq(Nat) /\ Len(sink[a].pending) <= MaxPending
          /\ Len(sink[a].pending) \in Nat
          /\ refused[a] \subseteq Nat
          /\ MaxEvents[a] \in Nat /\ MaxPending \in Nat \ {0}
          /\ SinkSound(a)
  BY SinkTypes
<1> USE <1>types
<1>1. /\ sink[a].step = "none" /\ attempt[a] = "none" /\ reader' = reader
      /\ \A b \in Attempts : b < a => attempt[b] = "ended"
      /\ attempt' = [attempt EXCEPT ![a] = "active"] /\ GoTo(a, "run")
      /\ UNCHANGED <<refused, late, events>>
  BY DEF Claim, At
<1>2. /\ sink' = [sink EXCEPT ![a] = sink'[a]] /\ sink'[a] \in Sinks
      /\ sink'[a].step = "run" /\ sink'[a].sequence = sink[a].sequence
      /\ sink'[a].pending = sink[a].pending
  BY <1>1, GoToFacts DEF Steps
<1>3. attempt'[a] = "active"
  BY <1>1 DEF DeliverySound, TypeOK
<1>4. BufferSound(a)'
  BY <1>1, <1>2 DEF BufferSound, SinkSound
<1>5. LogSound(a)'
  BY <1>1, <1>2 DEF LogSound, SinkSound, Frontier, Logged
<1>6. Accounted(a)'
  <2>1. \A n : Logged(a, n) => Logged(a, n)'
    BY <1>1 DEF Logged
  <2>2. Accounted(a)
    BY DEF SinkSound
  <2> QED BY <1>1, <1>2, <1>3, <2>1, <2>2 DEF Accounted
<1>7. SinkSound(a)'
  BY <1>4, <1>5, <1>6 DEF SinkSound
<1> QED BY <1>1, <1>2, <1>3, <1>7 DEF Effect, DeliverySound, TypeOK

(* Emit numbers an event above all that are in the buffer or in the log. *)
LEMMA EmitEffect ==
    ASSUME DeliverySound, NEW a \in Attempts, Emit(a)
    PROVE  Effect(a)
<1>types. /\ sink[a] \in Sinks
          /\ sink[a].step \in Steps /\ sink[a].sequence \in Nat
          /\ sink[a].pending \in Seq(Nat) /\ Len(sink[a].pending) <= MaxPending
          /\ Len(sink[a].pending) \in Nat
          /\ refused[a] \subseteq Nat
          /\ MaxEvents[a] \in Nat /\ MaxPending \in Nat \ {0}
          /\ SinkSound(a)
  BY SinkTypes
<1> USE <1>types
<1> DEFINE step == IF sink[a].pending = <<>> THEN "send" ELSE "flush"
<1>1. /\ sink[a].step = "run" /\ sink[a].sequence < MaxEvents[a] /\ reader' = reader
      /\ UNCHANGED <<attempt, refused, late, events>>
  BY DEF Emit, At
<1>2. /\ sink' = [sink EXCEPT ![a] = sink'[a]]
      /\ sink'[a] = [step |-> step, sequence |-> sink[a].sequence + 1,
                     pending |-> sink[a].pending]
  BY DEF Emit, DeliverySound, TypeOK, Sinks
<1>3. /\ sink'[a].step = step /\ sink'[a].sequence = sink[a].sequence + 1
      /\ sink'[a].pending = sink[a].pending /\ sink'[a] \in Sinks
  BY <1>2 DEF Sinks, Steps
<1> HIDE DEF step
<1>4. step = IF sink[a].pending = <<>> THEN "send" ELSE "flush"
  BY DEF step
<1>5. BufferSound(a)'
  <2>1. BufferSound(a) /\ sink[a].sequence \in Nat /\ MaxEvents[a] \in Nat
    BY DEF SinkSound
  <2>2. ASSUME NEW i \in 1 .. Len(sink[a].pending)
        PROVE  /\ sink[a].pending[i] \in 1 .. sink[a].sequence + 1
               /\ sink[a].pending[i] # sink[a].sequence + 1
               /\ \A k \in 1 .. Len(sink[a].pending) :
                     i < k => sink[a].pending[i] < sink[a].pending[k]
    <3>1. /\ sink[a].pending[i] \in 1 .. sink[a].sequence
          /\ \A k \in 1 .. Len(sink[a].pending) :
                i < k => sink[a].pending[i] < sink[a].pending[k]
      BY <2>1 DEF BufferSound
    <3> HIDE <1>types
    <3>2. /\ sink[a].pending[i] \in 1 .. sink[a].sequence + 1
          /\ sink[a].pending[i] # sink[a].sequence + 1
      BY <2>1, <3>1
    <3> QED BY <3>1, <3>2
  <2>3. sink[a].sequence + 1 <= MaxEvents[a] /\ sink[a].sequence + 1 # 0
    BY <1>1, <2>1
  <2> QED BY <1>3, <1>4, <2>2, <2>3 DEF BufferSound
<1>6. LogSound(a)'
  <2>1. ASSUME NEW r \in events, r.attempt = a
        PROVE  /\ r.number \in Nat /\ r.number <= Frontier(a)
               /\ sink[a].pending = <<>> => r.number <= sink[a].sequence
    BY <2>1 DEF SinkSound, LogSound, DeliverySound, TypeOK, Frontier
  <2>2. ASSUME NEW r \in events, r.attempt = a
        PROVE  r.number <= Frontier(a)' /\ (step = "send" => r.number < sink[a].sequence + 1)
    BY <2>1, <2>2, <1>3, <1>4 DEF Frontier
  <2> QED BY <2>2, <1>1, <1>3 DEF LogSound, SinkSound, Logged
<1>7. Accounted(a)'
  <2>1. ASSUME NEW n \in 1 .. sink[a].sequence + 1
        PROVE  \/ Logged(a, n) \/ n \in refused[a]
               \/ \E i \in 1 .. Len(sink[a].pending) : sink[a].pending[i] = n
               \/ n = sink[a].sequence + 1
    BY <1>1 DEF Accounted, SinkSound
  <2>2. attempt[a] # "succeeded"
    BY <1>1 DEF Accounted, SinkSound
  <2> QED BY <2>1, <2>2, <1>1, <1>3, <1>4 DEF Accounted, Logged
<1>8. SinkSound(a)'
  BY <1>5, <1>6, <1>7 DEF SinkSound
<1> QED BY <1>1, <1>2, <1>3, <1>8 DEF Effect, DeliverySound, TypeOK

(* A call that fails leaves its request under way; the event that Emit is  *)
(* about joins the buffer or is refused, and the head of the buffer stays. *)
LEMMA BufferFacts ==
    ASSUME DeliverySound, NEW a \in Attempts, Buffer(a)
    PROVE  /\ sink' = [sink EXCEPT ![a] = sink'[a]] /\ sink'[a] \in Sinks
           /\ sink'[a].step = "run" /\ sink'[a].sequence = sink[a].sequence
           /\ refused' = [refused EXCEPT ![a] = refused'[a]]
           /\ refused[a] \subseteq refused'[a] /\ refused'[a] \subseteq Nat
           /\ \/ /\ Len(sink[a].pending) < MaxPending
                 /\ sink'[a].pending = Append(sink[a].pending, sink[a].sequence)
              \/ /\ sink[a].pending # <<>>
                 /\ sink'[a].pending = sink[a].pending
                 /\ sink[a].sequence \in refused'[a]
<1>types. /\ sink[a] \in Sinks
          /\ sink[a].step \in Steps /\ sink[a].sequence \in Nat
          /\ sink[a].pending \in Seq(Nat) /\ Len(sink[a].pending) <= MaxPending
          /\ Len(sink[a].pending) \in Nat
          /\ refused[a] \subseteq Nat
          /\ MaxEvents[a] \in Nat /\ MaxPending \in Nat \ {0}
          /\ SinkSound(a)
  BY SinkTypes
<1> USE <1>types
<1>1. CASE Len(sink[a].pending) < MaxPending
  <2>1. /\ sink' = [sink EXCEPT ![a].step = "run",
                                ![a].pending = Append(@, sink[a].sequence)]
        /\ refused' = refused
    BY <1>1 DEF Buffer
  <2>2. Append(sink[a].pending, sink[a].sequence) \in Seq(Nat)
    BY AppendFacts
  <2>3. /\ sink' = [sink EXCEPT ![a] = sink'[a]]
        /\ sink'[a] = [step |-> "run", sequence |-> sink[a].sequence,
                       pending |-> Append(sink[a].pending, sink[a].sequence)]
    BY <2>1 DEF DeliverySound, TypeOK, Sinks
  <2>4. refused' = [refused EXCEPT ![a] = refused'[a]]
    BY <2>1 DEF DeliverySound, TypeOK
  <2>5. /\ sink'[a].step = "run" /\ sink'[a].sequence = sink[a].sequence
        /\ sink'[a].pending = Append(sink[a].pending, sink[a].sequence)
    BY <2>3
  <2>6. sink'[a] \in Sinks
    BY <2>2, <2>3 DEF Sinks, Steps
  <2>7. refused[a] \subseteq refused'[a] /\ refused'[a] \subseteq Nat
    BY <2>1
  <2> QED BY <1>1, <2>3, <2>4, <2>5, <2>6, <2>7
<1>2. CASE ~(Len(sink[a].pending) < MaxPending)
  <2>1. /\ refused' = [refused EXCEPT ![a] = @ \cup {sink[a].sequence}]
        /\ GoTo(a, "run")
    BY <1>2 DEF Buffer
  <2>2. /\ refused' = [refused EXCEPT ![a] = refused'[a]]
        /\ refused'[a] = refused[a] \cup {sink[a].sequence}
    BY <2>1 DEF DeliverySound, TypeOK
  <2>3. sink[a].pending # <<>>
    BY <1>2, EmptySeq
  <2>4. "run" \in Steps
    BY DEF Steps
  <2>5. /\ sink' = [sink EXCEPT ![a] = sink'[a]] /\ sink'[a] \in Sinks
        /\ sink'[a].step = "run" /\ sink'[a].sequence = sink[a].sequence
        /\ sink'[a].pending = sink[a].pending
    BY <2>1, <2>4, GoToFacts
  <2>6. refused[a] \subseteq refused'[a] /\ refused'[a] \subseteq Nat
        /\ sink[a].sequence \in refused'[a]
    BY <2>2
  <2> QED BY <2>2, <2>3, <2>5, <2>6
<1> QED BY <1>1, <1>2

(* FlushFails and SendFails. *)
LEMMA FailedCallEffect ==
    ASSUME DeliverySound, NEW a \in Attempts, NEW n,
           n = Frontier(a), sink[a].step \in {"flush", "send"},
           GivenUp(a, n), Buffer(a), UNCHANGED <<attempt, reader>>
    PROVE  Effect(a)
<1>types. /\ sink[a] \in Sinks
          /\ sink[a].step \in Steps /\ sink[a].sequence \in Nat
          /\ sink[a].pending \in Seq(Nat) /\ Len(sink[a].pending) <= MaxPending
          /\ Len(sink[a].pending) \in Nat
          /\ refused[a] \subseteq Nat
          /\ MaxEvents[a] \in Nat /\ MaxPending \in Nat \ {0}
          /\ SinkSound(a)
  BY SinkTypes
<1> USE <1>types
<1> DEFINE p == sink[a].pending
           q == sink'[a].pending
           s == sink[a].sequence
<1>1. /\ late' = late \cup {<<a, n>>} /\ events' = events
  BY DEF GivenUp
<1>2. /\ BufferSound(a) /\ LogSound(a) /\ Accounted(a)
  BY DEF SinkSound
<1>3. /\ sink'[a].step = "run" /\ sink'[a].sequence = s /\ q \in Seq(Nat)
      /\ sink' = [sink EXCEPT ![a] = sink'[a]] /\ sink'[a] \in Sinks
      /\ refused' = [refused EXCEPT ![a] = refused'[a]]
      /\ refused[a] \subseteq refused'[a] /\ refused'[a] \subseteq Nat
  BY BufferFacts DEF Sinks
<1>4. \/ Len(p) < MaxPending /\ q = Append(p, s)
      \/ p # <<>> /\ q = p /\ s \in refused'[a]
  BY BufferFacts
<1>5. \A i \in 1 .. Len(p) : p[i] \in 1 .. s /\ p[i] < s
  BY <1>2, EmptySeq DEF BufferSound
<1>6. /\ q # <<>> /\ Head(q) = n /\ n \in Nat /\ Len(q) \in Nat /\ Len(q) <= MaxPending
      /\ Head(q) = IF p = <<>> THEN s ELSE Head(p)
  <2>1. n = IF p = <<>> THEN s ELSE Head(p)
    BY DEF Frontier
  <2>2. CASE q = Append(p, s) /\ Len(p) < MaxPending
    <3>1. /\ q # <<>> /\ Len(q) = Len(p) + 1
          /\ Head(q) = IF p = <<>> THEN s ELSE Head(p)
      BY <2>2, AppendFacts
    <3>2. p # <<>> => Head(p) \in Nat
      BY TailFacts
    <3> QED BY <2>1, <2>2, <3>1, <3>2
  <2>3. CASE p # <<>> /\ q = p
    BY <2>1, <2>3, TailFacts
  <2> QED BY <1>4, <2>2, <2>3
<1>7. /\ \A i \in 1 .. Len(p) : \E k \in 1 .. Len(q) : q[k] = p[i]
      /\ s \in refused'[a] \/ \E k \in 1 .. Len(q) : q[k] = s
  <2>1. CASE q = Append(p, s)
    <3>1. /\ Len(q) = Len(p) + 1 /\ q[Len(p) + 1] = s
          /\ \A i \in 1 .. Len(p) : q[i] = p[i]
      BY <2>1, AppendFacts
    <3> QED BY <3>1
  <2> QED BY <1>4, <2>1
<1>8. BufferSound(a)'
  <2>1. s # 0 /\ s <= MaxEvents[a]
    BY <1>2 DEF BufferSound
  <2>2. \A i, k \in 1 .. Len(p) : i < k => p[i] < p[k]
    BY <1>2 DEF BufferSound
  <2>3. CASE q = Append(p, s)
    <3>1. /\ Len(q) = Len(p) + 1 /\ q[Len(p) + 1] = s
          /\ \A i \in 1 .. Len(p) : q[i] = p[i]
      BY <2>3, AppendFacts
    <3> HIDE DEF p, q, s
    <3>2. \A i \in 1 .. Len(q) : /\ q[i] \in 1 .. s
                                /\ \A k \in 1 .. Len(q) : i < k => q[i] < q[k]
      <4> SUFFICES ASSUME NEW i \in 1 .. Len(p) + 1, NEW k \in 1 .. Len(p) + 1
                   PROVE  q[i] \in 1 .. s /\ (i < k => q[i] < q[k])
        BY <3>1
      <4>1. Len(p) \in Nat /\ s \in Nat
        BY DEF p, s
      <4> HIDE <1>types
      <4>2. CASE i = Len(p) + 1
        BY <2>1, <3>1, <4>1, <4>2
      <4>3. CASE i # Len(p) + 1 /\ k = Len(p) + 1
        BY <1>5, <3>1, <4>1, <4>3
      <4>4. CASE i # Len(p) + 1 /\ k # Len(p) + 1
        <5>1. i \in 1 .. Len(p) /\ k \in 1 .. Len(p)
          BY <4>1, <4>4
        <5>2. q[i] = p[i] /\ q[k] = p[k]
          BY <3>1, <5>1
        <5> QED BY <1>5, <2>2, <4>1, <5>1, <5>2
      <4> QED BY <4>2, <4>3, <4>4
    <3> QED BY <1>3, <2>1, <3>2 DEF BufferSound, p, q, s
  <2>4. CASE q = p
    BY <1>2, <1>3, <2>4 DEF BufferSound
  <2> QED BY <1>4, <2>3, <2>4
<1>9. LogSound(a)'
  <2>1. Frontier(a)' = n
    BY <1>6 DEF Frontier
  <2>2. \A m \in late' : m[1] = a => Logged(a, m[2])' \/ m[2] = Head(q)
    BY <1>1, <1>2, <1>6 DEF LogSound, Logged
  <2> QED BY <1>1, <1>2, <1>3, <1>6, <2>1, <2>2 DEF LogSound
<1>10. Accounted(a)'
  <2>1. attempt[a] # "succeeded"
    BY <1>2 DEF Accounted
  <2>2. ASSUME NEW i \in 1 .. s
        PROVE  \/ Logged(a, i)' \/ i \in refused'[a]
               \/ \E k \in 1 .. Len(q) : q[k] = i
    <3>1. Logged(a, i) => Logged(a, i)'
      BY <1>1, LoggedGrows
    <3>2. \/ Logged(a, i) \/ i \in refused[a]
          \/ \E k \in 1 .. Len(p) : p[k] = i
          \/ i = s
      BY <1>2 DEF Accounted
    <3> HIDE DEF p, q, s
    <3> QED BY <1>3, <1>7, <3>1, <3>2
  <2> QED BY <1>3, <2>1, <2>2 DEF Accounted
<1>11. SinkSound(a)'
  BY <1>8, <1>9, <1>10 DEF SinkSound
<1>12. late' \subseteq late \cup ({a} \X Nat)
  BY <1>1, <1>6
<1> QED BY <1>1, <1>3, <1>6, <1>11, <1>12 DEF Effect, DeliverySound, TypeOK

(* The log after AppendAttemptEvent, as the sink of the attempt sees it. *)
LEMMA StoredFacts ==
    ASSUME DeliverySound, NEW a \in Attempts, NEW n \in Nat,
           AppendAttemptEvent(a, n),
           Logged(a, n) \/ (n = Frontier(a) /\ n \in 1 .. sink[a].sequence)
    PROVE  /\ attempt[a] = "active"
           /\ events \subseteq events'
           /\ \A r \in events' : r.attempt = a =>
                 r.number \in Nat /\ r.number # Transition /\ r.number <= Frontier(a)
           /\ Logged(a, n)'
           /\ \/ events' = events
              \/ \E k \in 0 .. MaxEvents[a] :
                    MayAppend(a, k) /\ events' = events \cup {Row(a, k)}
<1> USE SinkTypes, StoreOnce
<1>1. attempt[a] = "active" /\ Logged(a, n)'
  OBVIOUS
<1>2. \A r \in events : r.attempt = a =>
         r.number \in Nat /\ r.number # Transition /\ r.number <= Frontier(a)
  BY <1>1 DEF DeliverySound, TypeOK, SinkSound, LogSound
<1>3. CASE events' = events
  BY <1>1, <1>2, <1>3
<1>4. CASE /\ MayAppend(a, n) /\ n \in 1 .. MaxEvents[a] /\ n = Frontier(a)
           /\ events' = events \cup {Row(a, n)}
  <2>1. Row(a, n).number = n /\ n # Transition /\ n <= Frontier(a)
    BY <1>4 DEF Row, Transition
  <2>2. n \in 0 .. MaxEvents[a]
    BY <1>4
  <2> QED BY <1>1, <1>2, <1>4, <2>1, <2>2
<1> QED BY <1>3, <1>4

(* A call of flushLocked that succeeds, for Emit or before Complete. *)
LEMMA FlushEffect ==
    ASSUME DeliverySound, NEW a \in Attempts, NEW step, NEW next,
           <<step, next>> \in {<<"flush", "send">>, <<"drain", "complete">>},
           FlushPending(a, step, next)
    PROVE  Effect(a)
<1>types. /\ sink[a] \in Sinks
          /\ sink[a].step \in Steps /\ sink[a].sequence \in Nat
          /\ sink[a].pending \in Seq(Nat) /\ Len(sink[a].pending) <= MaxPending
          /\ Len(sink[a].pending) \in Nat
          /\ refused[a] \subseteq Nat
          /\ MaxEvents[a] \in Nat /\ MaxPending \in Nat \ {0}
          /\ SinkSound(a)
  BY SinkTypes
<1> USE <1>types
<1> DEFINE p == sink[a].pending
           q == sink'[a].pending
           s == sink[a].sequence
<1>0. PICK n : n = Head(p)
  OBVIOUS
<1>1. /\ sink[a].step = step /\ reader' = reader /\ AppendAttemptEvent(a, n)
      /\ late' = late /\ attempt' = attempt /\ refused' = refused
      /\ \/ step = "flush" /\ next = "send"
         \/ step = "drain" /\ next = "complete"
  BY <1>0 DEF FlushPending, At, Delivered
<1>2. /\ BufferSound(a) /\ LogSound(a) /\ Accounted(a)
  BY DEF SinkSound
<1>3. p # <<>>
  BY <1>1, <1>2 DEF BufferSound
<1>4. /\ n = p[1] /\ n \in Nat /\ Tail(p) \in Seq(Nat) /\ Len(p) \in Nat \ {0}
      /\ Len(Tail(p)) = Len(p) - 1
      /\ \A i \in 1 .. Len(Tail(p)) : Tail(p)[i] = p[i + 1]
      /\ (Tail(p) = <<>>) <=> (Len(p) = 1)
  BY <1>0, <1>3, TailFacts
<1>5. /\ sink' = [sink EXCEPT ![a] = sink'[a]]
      /\ sink'[a] = [step |-> IF Len(p) = 1 THEN next ELSE step,
                     sequence |-> s, pending |-> Tail(p)]
  BY DEF FlushPending, DeliverySound, TypeOK, Sinks
<1>6. /\ sink'[a].step = IF Len(p) = 1 THEN next ELSE step
      /\ sink'[a].sequence = s /\ q = Tail(p)
  BY <1>5
<1>7. sink'[a] \in Sinks
  BY <1>1, <1>4, <1>5 DEF Sinks, Steps
<1>8. /\ n \in 1 .. s /\ (step = "flush" => n < s)
      /\ \A i \in 2 .. Len(p) : n < p[i]
  <2>0. \A i, k \in 1 .. Len(p) : i < k => p[i] < p[k]
    BY <1>2 DEF BufferSound
  <2>1. \A i \in 1 .. Len(p) : p[i] \in 1 .. s /\ (step = "flush" => p[i] # s)
    <3> HIDE <1>types
    <3> QED BY <1>1, <1>2 DEF BufferSound
  <2>t. s \in Nat
    BY <1>types DEF s
  <2>l. Len(p) \in Nat \ {0}
    BY <1>4
  <2> HIDE <1>types DEF p, s
  <2>2. 1 \in 1 .. Len(p) /\ \A i \in 2 .. Len(p) : i \in 1 .. Len(p) /\ 1 < i
    BY <2>l
  <2>3. p[1] \in 1 .. s /\ (step = "flush" => p[1] # s)
    BY <2>1, <2>2
  <2>4. \A i \in 2 .. Len(p) : p[1] < p[i]
    BY <2>0, <2>2
  <2>5. n \in 1 .. s /\ (step = "flush" => n # s)
    BY <1>4, <2>3
  <2>6. n \in 1 .. s /\ (step = "flush" => n < s)
    BY <2>t, <2>5
  <2> QED BY <1>4, <2>4, <2>6
<1>9. n = Frontier(a)
  BY <1>0, <1>3 DEF Frontier
<1>10. /\ attempt[a] = "active" /\ events \subseteq events' /\ Logged(a, n)'
       /\ \A r \in events' : r.attempt = a =>
             r.number \in Nat /\ r.number # Transition /\ r.number <= n
       /\ \/ events' = events
          \/ \E k \in 0 .. MaxEvents[a] :
                MayAppend(a, k) /\ events' = events \cup {Row(a, k)}
  BY <1>1, <1>4, <1>8, <1>9, StoredFacts
<1>11. BufferSound(a)'
  <2>1. /\ s <= MaxEvents[a]
        /\ \A i, k \in 1 .. Len(p) : i < k => p[i] < p[k]
        /\ \A i \in 1 .. Len(p) : p[i] \in 1 .. s /\ (step = "flush" => p[i] # s)
        /\ step = "flush" => s # 0
    BY <1>1, <1>2 DEF BufferSound
  <2>2. \A i \in 1 .. Len(q) : i + 1 \in 1 .. Len(p) /\ q[i] = p[i + 1]
    <3> SUFFICES ASSUME NEW i \in 1 .. Len(Tail(p))
                 PROVE  i + 1 \in 1 .. Len(p) /\ Tail(p)[i] = p[i + 1]
      BY <1>6
    <3> HIDE DEF p
    <3> QED BY <1>4
  <2>3. ASSUME NEW i \in 1 .. Len(q)
        PROVE  /\ q[i] \in 1 .. s /\ (step = "flush" => q[i] # s)
               /\ \A k \in 1 .. Len(q) : i < k => q[i] < q[k]
    <3> HIDE DEF p, q, s
    <3>1. i + 1 \in 1 .. Len(p) /\ q[i] = p[i + 1]
      BY <2>2
    <3>2. ASSUME NEW k \in 1 .. Len(q), i < k PROVE q[i] < q[k]
      <4>1. k + 1 \in 1 .. Len(p) /\ q[k] = p[k + 1] /\ i + 1 < k + 1
        BY <2>2, <3>2
      <4> QED BY <2>1, <3>1, <4>1
    <3> QED BY <2>1, <3>1, <3>2
  <2> QED BY <1>1, <1>4, <1>6, <2>1, <2>3 DEF BufferSound
<1>12. LogSound(a)'
  <2>0. Frontier(a)' = IF Tail(p) = <<>> THEN s ELSE Head(Tail(p))
    BY <1>6 DEF Frontier
  <2>1. n <= Frontier(a)' /\ Frontier(a)' \in Nat
    <3>1. CASE Len(p) = 1
      <4>1. Frontier(a)' = s /\ s \in Nat
        BY <1>4, <2>0, <3>1
      <4> HIDE DEF s
      <4> QED BY <1>8, <4>1
    <3>2. CASE Len(p) # 1
      <4>1. 1 \in 1 .. Len(Tail(p)) /\ 2 \in 2 .. Len(p)
        BY <1>4, <3>2
      <4>2. Tail(p) # <<>> /\ Tail(p)[1] = p[2] /\ n < p[2]
        <5>1. Tail(p)[1] = p[1 + 1]
          BY <1>4, <4>1
        <5> QED BY <1>4, <1>8, <3>2, <4>1, <5>1
      <4>3. Head(Tail(p)) = Tail(p)[1] /\ Head(Tail(p)) \in Nat
        BY <1>4, <4>2, TailFacts
      <4>4. Frontier(a)' = p[2] /\ Frontier(a)' \in Nat
        BY <2>0, <4>2, <4>3
      <4> HIDE DEF p
      <4> QED BY <1>4, <4>2, <4>4
    <3> QED BY <3>1, <3>2
  <2>3. \A r \in events' : r.attempt = a =>
           /\ attempt'[a] # "none" /\ r.number # Transition
           /\ r.number <= Frontier(a)'
           /\ sink'[a].step = "send" => r.number < s
    <3>1. sink'[a].step = "send" => n < s
      BY <1>1, <1>6, <1>8
    <3>2. attempt'[a] # "none"
      BY <1>1, <1>10
    <3>3. \A k \in Nat : k <= n => k <= Frontier(a)' /\ (n < s => k < s)
      BY <1>4, <2>1
    <3> QED BY <1>10, <3>1, <3>2, <3>3
  <2>4. \A m \in late' : m[1] = a => Logged(a, m[2])'
    <3> SUFFICES ASSUME NEW m \in late, m[1] = a PROVE Logged(a, m[2])'
      BY <1>1
    <3>1. Logged(a, m[2]) \/ m[2] = n
      BY <1>0, <1>2 DEF LogSound
    <3>2. CASE Logged(a, m[2])
      BY <1>10, <3>2, LoggedGrows
    <3>3. CASE m[2] = n
      BY <1>10, <3>3 DEF Logged
    <3> QED BY <3>1, <3>2, <3>3
  <2> QED BY <1>6, <2>3, <2>4 DEF LogSound
<1>13. Accounted(a)'
  <2>1. ASSUME NEW i \in 1 .. s
        PROVE  \/ Logged(a, i)' \/ i \in refused'[a]
               \/ \E k \in 1 .. Len(q) : q[k] = i
               \/ i = s /\ sink'[a].step \in {"send", "flush"}
    <3>1. Logged(a, i) => Logged(a, i)'
      BY <1>10, LoggedGrows
    <3>2. \/ Logged(a, i) \/ i \in refused[a]
          \/ \E k \in 1 .. Len(p) : p[k] = i
          \/ i = s /\ step = "flush"
      BY <1>1, <1>2 DEF Accounted
    <3>3. ASSUME NEW k \in 1 .. Len(p), p[k] = i
          PROVE  Logged(a, i)' \/ \E j \in 1 .. Len(q) : q[j] = i
      <4>1. CASE k = 1
        <5>1. i = n
          BY <1>4, <3>3, <4>1
        <5> QED BY <1>10, <5>1 DEF Logged
      <4>2. CASE k # 1
        <5>1. k - 1 \in 1 .. Len(q) /\ q[k - 1] = p[k]
          BY <1>4, <1>6, <4>2
        <5> QED BY <3>3, <5>1
      <4> QED BY <4>1, <4>2
    <3>4. step = "flush" => sink'[a].step \in {"send", "flush"}
      BY <1>1, <1>6
    <3> QED BY <1>1, <3>1, <3>2, <3>3, <3>4
  <2> QED BY <1>1, <1>6, <1>10, <2>1 DEF Accounted
<1>14. SinkSound(a)'
  BY <1>11, <1>12, <1>13 DEF SinkSound
<1>15. Len(sink'[a].pending) <= MaxPending
  BY <1>4, <1>6
<1> QED BY <1>1, <1>5, <1>7, <1>10, <1>14, <1>15 DEF Effect, DeliverySound, TypeOK

(* Emit's own call succeeds. *)
LEMMA SendEffect ==
    ASSUME DeliverySound, NEW a \in Attempts, Send(a)
    PROVE  Effect(a)
<1>types. /\ sink[a] \in Sinks
          /\ sink[a].step \in Steps /\ sink[a].sequence \in Nat
          /\ sink[a].pending \in Seq(Nat) /\ Len(sink[a].pending) <= MaxPending
          /\ Len(sink[a].pending) \in Nat
          /\ refused[a] \subseteq Nat
          /\ MaxEvents[a] \in Nat /\ MaxPending \in Nat \ {0}
          /\ SinkSound(a)
  BY SinkTypes
<1> USE <1>types
<1>0. PICK n : n = sink[a].sequence
  OBVIOUS
<1>1. /\ sink[a].step = "send" /\ reader' = reader /\ AppendAttemptEvent(a, n)
      /\ late' = late /\ attempt' = attempt /\ refused' = refused /\ GoTo(a, "run")
  BY <1>0 DEF Send, At, Delivered
<1>2. /\ BufferSound(a) /\ LogSound(a) /\ Accounted(a)
  BY DEF SinkSound
<1>3. sink[a].pending = <<>> /\ n \in 1 .. sink[a].sequence /\ n \in Nat /\ n = Frontier(a)
  BY <1>0, <1>1, <1>2 DEF BufferSound, Frontier
<1>4. /\ sink' = [sink EXCEPT ![a] = sink'[a]] /\ sink'[a] \in Sinks
      /\ sink'[a].step = "run" /\ sink'[a].sequence = n
      /\ sink'[a].pending = sink[a].pending
  BY <1>0, <1>1, GoToFacts DEF Steps
<1>5. /\ attempt[a] = "active" /\ events \subseteq events' /\ Logged(a, n)'
      /\ \A r \in events' : r.attempt = a =>
            r.number \in Nat /\ r.number # Transition /\ r.number <= n
      /\ \/ events' = events
         \/ \E k \in 0 .. MaxEvents[a] :
               MayAppend(a, k) /\ events' = events \cup {Row(a, k)}
  BY <1>1, <1>3, StoredFacts
<1>6. BufferSound(a)'
  BY <1>0, <1>1, <1>2, <1>4 DEF BufferSound
<1>7. LogSound(a)'
  <2>1. Frontier(a)' = n
    BY <1>3, <1>4 DEF Frontier
  <2>2. \A m \in late' : m[1] = a => Logged(a, m[2])'
    BY <1>1, <1>2, <1>3, <1>5, LoggedGrows DEF LogSound
  <2> QED BY <1>1, <1>4, <1>5, <2>1, <2>2 DEF LogSound
<1>8. Accounted(a)'
  <2>1. ASSUME NEW i \in 1 .. n PROVE Logged(a, i)' \/ i \in refused'[a]
    <3>1. Len(sink[a].pending) = 0
      BY <1>3, EmptySeq
    <3>2. Logged(a, i) \/ i \in refused[a] \/ i = n
      BY <1>0, <1>1, <1>2, <3>1 DEF Accounted
    <3>3. Logged(a, i) => Logged(a, i)'
      BY <1>5, LoggedGrows
    <3>4. i = n => Logged(a, i)'
      BY <1>5 DEF Logged
    <3> QED BY <1>1, <3>2, <3>3, <3>4
  <2> QED BY <1>1, <1>4, <1>5, <2>1 DEF Accounted
<1>9. SinkSound(a)'
  BY <1>6, <1>7, <1>8 DEF SinkSound
<1> QED BY <1>1, <1>4, <1>5, <1>9 DEF Effect, DeliverySound, TypeOK

(* A request the worker has given up on brings what is stored already or   *)
(* the head of the buffer.                                                 *)
LEMMA ArriveEffect ==
    ASSUME DeliverySound, NEW a \in Attempts, NEW n \in Nat, Arrive(a, n)
    PROVE  Effect(a)
<1>types. /\ sink[a] \in Sinks
          /\ sink[a].step \in Steps /\ sink[a].sequence \in Nat
          /\ sink[a].pending \in Seq(Nat) /\ Len(sink[a].pending) <= MaxPending
          /\ Len(sink[a].pending) \in Nat
          /\ refused[a] \subseteq Nat
          /\ MaxEvents[a] \in Nat /\ MaxPending \in Nat \ {0}
          /\ SinkSound(a)
  BY SinkTypes
<1> USE <1>types
<1>1. /\ <<a, n>> \in late /\ AppendAttemptEvent(a, n)
      /\ UNCHANGED <<attempt, sink, refused, late, reader>>
  BY DEF Arrive
<1>2. /\ BufferSound(a) /\ LogSound(a) /\ Accounted(a)
  BY DEF SinkSound
<1>3. Logged(a, n) \/ (sink[a].pending # <<>> /\ n = Head(sink[a].pending))
  BY <1>1, <1>2 DEF LogSound
<1>4. ~Logged(a, n) => n = Frontier(a) /\ n \in 1 .. sink[a].sequence
  <2> SUFFICES ASSUME sink[a].pending # <<>>, n = Head(sink[a].pending)
               PROVE  n = Frontier(a) /\ n \in 1 .. sink[a].sequence
    BY <1>3
  <2>1. Len(sink[a].pending) \in Nat \ {0} /\ n = sink[a].pending[1]
    BY TailFacts
  <2>2. 1 \in 1 .. Len(sink[a].pending)
    BY <2>1
  <2> QED BY <1>2, <2>1, <2>2 DEF BufferSound, Frontier
<1>5. /\ attempt[a] = "active" /\ events \subseteq events'
      /\ \A r \in events' : r.attempt = a =>
            r.number \in Nat /\ r.number # Transition /\ r.number <= Frontier(a)
      /\ \/ events' = events
         \/ \E k \in 0 .. MaxEvents[a] :
               MayAppend(a, k) /\ events' = events \cup {Row(a, k)}
  BY <1>1, <1>4, StoredFacts
<1>6. sink[a].step = "send" => events' = events
  BY <1>1, <1>2, <1>3 DEF BufferSound, AppendAttemptEvent
<1>7. BufferSound(a)'
  BY <1>1, <1>2 DEF BufferSound
<1>8. LogSound(a)'
  <2>1. Frontier(a)' = Frontier(a)
    BY <1>1 DEF Frontier
  <2>2. \A m \in late : Logged(a, m[2]) => Logged(a, m[2])'
    BY <1>5, LoggedGrows
  <2>3. \A r \in events' : r.attempt = a /\ sink[a].step = "send" =>
           r.number < sink[a].sequence
    BY <1>2, <1>6 DEF LogSound
  <2> QED BY <1>1, <1>2, <1>5, <2>1, <2>2, <2>3 DEF LogSound
<1>9. Accounted(a)'
  <2>1. \A i : Logged(a, i) => Logged(a, i)'
    BY <1>5, LoggedGrows
  <2> QED BY <1>1, <1>2, <2>1 DEF Accounted
<1>10. SinkSound(a)'
  BY <1>7, <1>8, <1>9 DEF SinkSound
<1> QED BY <1>1, <1>5, <1>10 DEF Effect, DeliverySound, TypeOK

(* event_delivery_error: the buffer stays, and the attempt will fail. *)
LEMMA DrainFailsEffect ==
    ASSUME DeliverySound, NEW a \in Attempts, DrainFails(a)
    PROVE  Effect(a)
<1>types. /\ sink[a] \in Sinks
          /\ sink[a].step \in Steps /\ sink[a].sequence \in Nat
          /\ sink[a].pending \in Seq(Nat) /\ Len(sink[a].pending) <= MaxPending
          /\ Len(sink[a].pending) \in Nat
          /\ refused[a] \subseteq Nat
          /\ MaxEvents[a] \in Nat /\ MaxPending \in Nat \ {0}
          /\ SinkSound(a)
  BY SinkTypes
<1> USE <1>types
<1>1. /\ sink[a].step = "drain" /\ reader' = reader /\ GoTo(a, "fail")
      /\ late' = late \cup {<<a, Head(sink[a].pending)>>} /\ events' = events
      /\ attempt' = attempt /\ refused' = refused
  BY DEF DrainFails, At, GivenUp
<1>2. /\ BufferSound(a) /\ LogSound(a) /\ Accounted(a)
  BY DEF SinkSound
<1>3. sink[a].pending # <<>> /\ Head(sink[a].pending) \in Nat
  BY <1>1, <1>2, TailFacts DEF BufferSound
<1>4. /\ sink' = [sink EXCEPT ![a] = sink'[a]] /\ sink'[a] \in Sinks
      /\ sink'[a].step = "fail" /\ sink'[a].sequence = sink[a].sequence
      /\ sink'[a].pending = sink[a].pending
  BY <1>1, GoToFacts DEF Steps
<1>5. BufferSound(a)'
  BY <1>2, <1>4 DEF BufferSound
<1>6. LogSound(a)'
  <2>1. Frontier(a)' = Frontier(a)
    BY <1>4 DEF Frontier
  <2>2. \A n : Logged(a, n) => Logged(a, n)'
    BY <1>1 DEF Logged
  <2>3. \A m \in late' : m[1] = a =>
           Logged(a, m[2])' \/ m[2] = Head(sink[a].pending)
    BY <1>1, <1>2, <2>2 DEF LogSound
  <2>4. \A r \in events' : r.attempt = a =>
           /\ attempt'[a] # "none"
           /\ r.number = Transition => attempt'[a] # "active"
           /\ r.number <= Frontier(a)'
    BY <1>1, <1>2, <2>1 DEF LogSound
  <2> QED BY <1>3, <1>4, <2>3, <2>4 DEF LogSound
<1>7. Accounted(a)'
  <2>1. \A n : Logged(a, n) => Logged(a, n)'
    BY <1>1 DEF Logged
  <2>2. attempt[a] # "succeeded"
    BY <1>1, <1>2 DEF Accounted
  <2> QED BY <1>1, <1>2, <1>4, <2>1, <2>2 DEF Accounted
<1>8. SinkSound(a)'
  BY <1>5, <1>6, <1>7 DEF SinkSound
<1> QED BY <1>1, <1>3, <1>4, <1>8 DEF Effect, DeliverySound, TypeOK

(* Complete, Fail and Expire end an active attempt, with or without a row. *)
LEMMA EndEffect ==
    ASSUME DeliverySound, NEW a \in Attempts, NEW state \in {"succeeded", "ended"},
           \/ EndAttempt(a, state)
           \/ /\ attempt[a] = "active" /\ attempt' = [attempt EXCEPT ![a] = state]
              /\ events' = events,
           sink' = [sink EXCEPT ![a] = sink'[a]], sink'[a] \in Sinks,
           sink'[a].sequence = sink[a].sequence, sink'[a].pending = sink[a].pending,
           \/ sink'[a].step \in {sink[a].step, "gone"}
           \/ sink'[a].step = "fail" /\ sink[a].step = "complete",
           state = "succeeded" => /\ sink[a].step = "complete"
                                  /\ sink'[a].step \in {"fail", "gone"},
           \/ sink[a].step # "gone" \/ sink'[a].step = "gone",
           UNCHANGED <<refused, late, reader>>
    PROVE  Effect(a)
<1>types. /\ sink[a] \in Sinks
          /\ sink[a].step \in Steps /\ sink[a].sequence \in Nat
          /\ sink[a].pending \in Seq(Nat) /\ Len(sink[a].pending) <= MaxPending
          /\ Len(sink[a].pending) \in Nat
          /\ refused[a] \subseteq Nat
          /\ MaxEvents[a] \in Nat /\ MaxPending \in Nat \ {0}
          /\ SinkSound(a)
  BY SinkTypes
<1> USE <1>types
<1>1. /\ BufferSound(a) /\ LogSound(a) /\ Accounted(a)
  BY DEF SinkSound
<1>2. /\ attempt[a] = "active" /\ attempt'[a] = state
      /\ attempt' = [attempt EXCEPT ![a] = attempt'[a]]
  BY StoreEnd DEF DeliverySound, TypeOK
<1>3. /\ events \subseteq events'
      /\ \A r \in events' : r \in events \/ (r.attempt = a /\ r.number = Transition)
      /\ \/ events' = events
         \/ \E n \in 0 .. MaxEvents[a] :
               MayAppend(a, n) /\ events' = events \cup {Row(a, n)}
  BY StoreEnd
<1>4. BufferSound(a)'
  BY <1>1 DEF BufferSound
<1>5. LogSound(a)'
  <2>1. Frontier(a)' = Frontier(a) /\ Frontier(a) \in Nat
    BY TailFacts DEF Frontier
  <2>2. \A n : Logged(a, n) => Logged(a, n)'
    BY <1>3, LoggedGrows
  <2>3. sink'[a].step = "send" => sink[a].sequence # 0 /\ sink[a].step = "send"
    BY <1>1 DEF BufferSound
  <2>4. ASSUME NEW r \in events', r.attempt = a
        PROVE  /\ r.number <= Frontier(a)
               /\ sink'[a].step = "send" => r.number < sink[a].sequence
    <3>1. CASE r \in events
      BY <1>1, <2>3, <2>4, <3>1 DEF LogSound
    <3>2. CASE r.number = 0
      <4>0. Frontier(a) \in Nat
        BY <2>1, Zenon
      <4>1. 0 <= Frontier(a)
        BY <4>0
      <4>2. sink[a].sequence # 0 => 0 < sink[a].sequence
        OBVIOUS
      <4>3. sink'[a].step = "send" => 0 < sink[a].sequence
        BY <2>3, <4>2
      <4> QED BY <3>2, <4>1, <4>3
    <3> QED BY <1>3, <3>1, <3>2 DEF Transition
  <2>5. attempt'[a] \notin {"none", "active"}
    BY <1>2
  <2> QED BY <1>1, <2>1, <2>2, <2>4, <2>5 DEF LogSound
<1>6. Accounted(a)'
  <2>1. \A n : Logged(a, n) => Logged(a, n)'
    BY <1>3, LoggedGrows
  <2>2. state = "succeeded" => \A n \in 1 .. sink[a].sequence : Logged(a, n) \/ n \in refused[a]
    <3>1. state = "succeeded" => Len(sink[a].pending) = 0
      BY <1>1, EmptySeq DEF BufferSound
    <3>2. state = "succeeded" => sink[a].step = "complete"
      OBVIOUS
    <3>3. ~ \E i \in 1 .. 0 : TRUE
      OBVIOUS
    <3> QED BY <1>1, <3>1, <3>2, <3>3 DEF Accounted
  <2>3. sink'[a].step # "gone" => \A n \in 1 .. sink[a].sequence :
           \/ Logged(a, n) \/ n \in refused[a]
           \/ \E i \in 1 .. Len(sink[a].pending) : sink[a].pending[i] = n
           \/ n = sink[a].sequence /\ sink[a].step \in {"send", "flush"}
    BY <1>1 DEF Accounted
  <2>4. sink'[a].step = sink[a].step \/ sink[a].step \notin {"send", "flush"}
        \/ sink'[a].step = "gone"
    OBVIOUS
  <2> QED BY <1>2, <2>1, <2>2, <2>3, <2>4 DEF Accounted
<1>7. SinkSound(a)'
  BY <1>4, <1>5, <1>6 DEF SinkSound
<1> QED BY <1>2, <1>3, <1>7 DEF Effect, DeliverySound, TypeOK

-----------------------------------------------------------------------------
(* The invariant. *)

(* Every step but the client's is a step on behalf of one attempt. *)
LEMMA NextEffect ==
    ASSUME DeliverySound, Next
    PROVE  ReadPage \/ \E a \in Attempts : Effect(a)
<1>1. ASSUME NEW a \in Attempts, Claim(a) PROVE Effect(a)
  BY <1>1, ClaimEffect
<1>2. ASSUME NEW a \in Attempts, Emit(a) PROVE Effect(a)
  BY <1>2, EmitEffect
<1>3. ASSUME NEW a \in Attempts, Emitting(a) PROVE Effect(a)
  <2>1. CASE FlushPending(a, "flush", "send")
    BY <2>1, FlushEffect
  <2>2. CASE FlushFails(a)
    <3>1. /\ sink[a].step = "flush" /\ reader' = reader /\ attempt' = attempt
          /\ GivenUp(a, Head(sink[a].pending)) /\ Buffer(a)
      BY <2>2 DEF FlushFails, At
    <3>2. Head(sink[a].pending) = Frontier(a)
      BY <3>1, SinkTypes DEF SinkSound, BufferSound, Frontier
    <3>3. PICK n : n = Head(sink[a].pending)
      OBVIOUS
    <3> QED BY <3>1, <3>2, <3>3, FailedCallEffect
  <2>3. CASE Send(a)
    BY <2>3, SendEffect
  <2>4. CASE SendFails(a)
    <3>1. /\ sink[a].step = "send" /\ reader' = reader /\ attempt' = attempt
          /\ GivenUp(a, sink[a].sequence) /\ Buffer(a)
      BY <2>4 DEF SendFails, At
    <3>2. sink[a].sequence = Frontier(a)
      BY <3>1, SinkTypes DEF SinkSound, BufferSound, Frontier
    <3>3. PICK n : n = sink[a].sequence
      OBVIOUS
    <3> QED BY <3>1, <3>2, <3>3, FailedCallEffect
  <2> QED BY <1>3, <2>1, <2>2, <2>3, <2>4 DEF Emitting
<1>4. ASSUME NEW a \in Attempts, Executed(a) \/ ExecuteFailed(a) \/ CompleteFails(a) \/ Crash(a)
      PROVE  Effect(a)
  <2>1. CASE Executed(a) /\ sink[a].pending = <<>>
    BY <2>1, MovesOn DEF Executed, At, Steps
  <2>2. CASE Executed(a) /\ sink[a].pending # <<>>
    BY <2>2, MovesOn DEF Executed, At, Steps
  <2>3. CASE ExecuteFailed(a)
    BY <2>3, MovesOn DEF ExecuteFailed, At, Steps
  <2>4. CASE CompleteFails(a)
    BY <2>4, MovesOn DEF CompleteFails, At, Steps
  <2>5. CASE Crash(a)
    BY <2>5, MovesOn DEF Crash, Steps
  <2> QED BY <1>4, <2>1, <2>2, <2>3, <2>4, <2>5
<1>5. ASSUME NEW a \in Attempts, Complete(a) PROVE Effect(a)
  <2>1. /\ sink[a].step = "complete" /\ reader' = reader
        /\ EndAttempt(a, "succeeded") /\ UNCHANGED <<refused, late>>
    BY <1>5 DEF Complete, At
  <2>2. PICK step \in {"gone", "fail"} : GoTo(a, step)
    BY <1>5 DEF Complete
  <2>3. /\ sink' = [sink EXCEPT ![a] = sink'[a]] /\ sink'[a] \in Sinks
        /\ sink'[a].step = step /\ sink'[a].sequence = sink[a].sequence
        /\ sink'[a].pending = sink[a].pending
    BY <2>2, GoToFacts DEF Steps
  <2> QED BY <2>1, <2>3, EndEffect
<1>6. ASSUME NEW a \in Attempts, Fail(a) PROVE Effect(a)
  <2>1. /\ sink[a].step = "fail" /\ reader' = reader /\ GoTo(a, "gone")
        /\ UNCHANGED <<refused, late>>
    BY <1>6 DEF Fail, At
  <2>2. /\ sink' = [sink EXCEPT ![a] = sink'[a]] /\ sink'[a] \in Sinks
        /\ sink'[a].step = "gone" /\ sink'[a].sequence = sink[a].sequence
        /\ sink'[a].pending = sink[a].pending
    BY <2>1, GoToFacts DEF Steps
  <2>3. CASE EndAttempt(a, "ended")
    BY <2>1, <2>2, <2>3, EndEffect
  <2>4. CASE UNCHANGED <<attempt, events>>
    BY <2>1, <2>4, MovesOn DEF Steps
  <2> QED BY <1>6, <2>3, <2>4 DEF Fail
<1>7. ASSUME NEW a \in Attempts, Expire(a) PROVE Effect(a)
  <2>1. /\ sink' = [sink EXCEPT ![a] = sink'[a]] /\ sink'[a] = sink[a]
        /\ sink'[a] \in Sinks /\ UNCHANGED <<refused, late, reader>>
    BY <1>7 DEF Expire, DeliverySound, TypeOK
  <2>2. \/ EndAttempt(a, "ended")
        \/ /\ attempt[a] = "active" /\ attempt' = [attempt EXCEPT ![a] = "ended"]
           /\ events' = events
    BY <1>7 DEF Expire
  <2> QED BY <2>1, <2>2, EndEffect
<1>8. ASSUME NEW a \in Attempts, Reporting(a) PROVE Effect(a)
  BY <1>8, <1>4, <1>5, <1>6, FlushEffect, DrainFailsEffect DEF Reporting
<1>9. ASSUME NEW request \in late, Arrive(request[1], request[2])
      PROVE  \E a \in Attempts : Effect(a)
  <2>1. request[1] \in Attempts /\ request[2] \in Nat
    BY DEF DeliverySound, TypeOK
  <2> QED BY <1>9, <2>1, ArriveEffect
<1> QED BY <1>1, <1>2, <1>3, <1>4, <1>7, <1>8, <1>9 DEF Next

(* A step on behalf of one attempt preserves the invariant. *)
LEMMA EffectSound ==
    ASSUME DeliverySound, NEW a \in Attempts, Effect(a)
    PROVE  DeliverySound'
<1>1. /\ \A b \in Attempts : b # a => /\ sink'[b] = sink[b] /\ attempt'[b] = attempt[b]
                                     /\ refused'[b] = refused[b]
      /\ attempt'[a] \in {"none", "active", "succeeded", "ended"}
  BY DEF Effect, DeliverySound, TypeOK
<1>2. \/ events' = events
      \/ \E n \in Nat : MayAppend(a, n) /\ events' = events \cup {Row(a, n)}
  <2>1. MaxEvents[a] \in Nat
    BY SinkTypes
  <2>2. \A n \in 0 .. MaxEvents[a] : n \in Nat
    BY <2>1
  <2> QED BY <2>2 DEF Effect
<1>3. /\ Numbered' /\ InOrderOnce' /\ events \subseteq events'
      /\ \A r \in events' : r \in events \/ r.attempt = a
      /\ events' \subseteq [sequence : Nat, attempt : Attempts, number : Nat]
  <2>0. /\ Numbered /\ InOrderOnce
        /\ events \subseteq [sequence : Nat, attempt : Attempts, number : Nat]
    BY DEF DeliverySound, TypeOK
  <2>1. CASE events' = events
    BY <2>0, <2>1 DEF Numbered, InOrderOnce
  <2>2. ASSUME NEW n \in Nat, MayAppend(a, n), events' = events \cup {Row(a, n)}
        PROVE  /\ Numbered' /\ InOrderOnce' /\ events \subseteq events'
               /\ \A r \in events' : r \in events \/ r.attempt = a
               /\ events' \subseteq [sequence : Nat, attempt : Attempts, number : Nat]
    <3>1. /\ Row(a, n) = [sequence |-> Cardinality(events) + 1, attempt |-> a, number |-> n]
          /\ Cardinality(events) \in Nat /\ Numbered'
      BY <2>0, <2>2, AppendEffect
    <3>2. PICK w : w = Row(a, n)
      OBVIOUS
    <3>3. /\ w.attempt = a /\ w.number = n /\ w.sequence \in Nat
          /\ w \in [sequence : Nat, attempt : Attempts, number : Nat]
          /\ events' = events \cup {w}
          /\ \A r \in events : r.sequence \in Nat /\ r.sequence < w.sequence
      BY <2>0, <2>2, <3>1, <3>2 DEF Numbered
    <3>4. \A r \in events : r.attempt = a /\ r.number # Transition /\ n # Transition
             => r.number \in Nat /\ r.number < n
      BY <2>0, <2>2 DEF MayAppend
    <3>5. InOrderOnce'
      <4> SUFFICES ASSUME NEW q \in events', NEW r \in events'
                   PROVE  /\ q.sequence = r.sequence => q = r
                          /\ q.attempt = r.attempt /\ q.number # Transition /\ r.number # Transition
                                => (q.sequence < r.sequence <=> q.number < r.number)
        BY DEF InOrderOnce
      <4>1. CASE q \in events /\ r \in events
        BY <2>0, <4>1 DEF InOrderOnce
      <4>2. CASE q \in events /\ r = w
        BY <3>3, <3>4, <4>2
      <4>3. CASE q = w /\ r \in events
        BY <3>3, <3>4, <4>3
      <4>4. CASE q = w /\ r = w
        BY <3>3, <4>4
      <4> QED BY <3>3, <4>1, <4>2, <4>3, <4>4
    <3>6. events' \subseteq [sequence : Nat, attempt : Attempts, number : Nat]
      BY <2>0, <3>3
    <3> QED BY <3>1, <3>3, <3>5, <3>6
  <2> QED BY <1>2, <2>1, <2>2
<1>4. late' \subseteq Attempts \X Nat /\ \A m \in late' : m \in late \/ m[1] = a
  BY DEF Effect, DeliverySound, TypeOK
<1>5. TypeOK'
  BY <1>1, <1>3, <1>4 DEF Effect, DeliverySound, TypeOK
<1>6. InTurn'
  <2> SUFFICES ASSUME NEW c \in Attempts, NEW b \in Attempts, b < c, attempt'[c] # "none"
               PROVE  attempt'[b] = "ended"
    BY DEF InTurn
  <2>1. b \in Nat /\ c \in Nat /\ a \in Nat
    BY DEF Attempts
  <2>2. b # c
    BY <2>1
  <2>3. attempt[c] # "none" => attempt[b] = "ended"
    BY DEF DeliverySound, InTurn
  <2>4. attempt[b] = "ended"
    BY <1>1, <2>3 DEF Effect
  <2> QED BY <1>1, <2>4 DEF Effect
<1>7. ASSUME NEW b \in Attempts PROVE SinkSound(b)'
  <2>1. CASE b = a
    <3>1. SinkSound(a)'
      BY DEF Effect
    <3> QED BY <2>1, <3>1
  <2>2. CASE b # a
    <3>1. SinkSound(b)
      BY DEF DeliverySound
    <3> QED BY <1>1, <1>3, <1>4, <2>2, <3>1, Frame
  <2> QED BY <2>1, <2>2
<1>8. ReaderSound'
  BY <1>3 DEF Effect, DeliverySound, ReaderSound
<1> QED BY <1>3, <1>5, <1>6, <1>7, <1>8 DEF DeliverySound

(* The log has one row of every number. *)
LEMMA RowFacts ==
    ASSUME DeliverySound
    PROVE  /\ Cardinality(events) \in Nat
           /\ \A r \in events : r.sequence \in 1 .. Cardinality(events)
           /\ \A i \in 1 .. Cardinality(events) : RowAt(i) \in events /\ RowAt(i).sequence = i
           /\ \A q, r \in events : q.sequence = r.sequence => q = r
<1>1. Numbered /\ Cardinality(events) \in Nat
  BY NextSequenceValue DEF DeliverySound
<1>2. ASSUME NEW i \in 1 .. Cardinality(events)
      PROVE  RowAt(i) \in events /\ RowAt(i).sequence = i
  <2>1. \E r \in events : r.sequence = i
    BY <1>1 DEF Numbered
  <2> QED BY <2>1 DEF RowAt
<1> QED BY <1>1, <1>2 DEF Numbered, DeliverySound, InOrderOnce

(* Between two sequence numbers lie as many rows as their difference. *)
LEMMA RowsBetween ==
    ASSUME DeliverySound, NEW a \in Nat, NEW b \in Nat, a <= b, b <= Cardinality(events)
    PROVE  Cardinality({q \in events : q.sequence \in a + 1 .. b}) = b - a
<1> DEFINE S == {q \in events : q.sequence \in a + 1 .. b}
           f == [i \in a + 1 .. b |-> RowAt(i)]
<1>1. \A i \in a + 1 .. b : i \in 1 .. Cardinality(events)
  BY RowFacts
<1>2. \A i \in a + 1 .. b : RowAt(i) \in S /\ RowAt(i).sequence = i
  BY <1>1, RowFacts
<1>3. f \in Bijection(a + 1 .. b, S)
  <2>1. f \in [a + 1 .. b -> S]
    BY <1>2
  <2>2. \A i, k \in a + 1 .. b : f[i] = f[k] => i = k
    BY <1>2
  <2>3. \A q \in S : \E i \in a + 1 .. b : f[i] = q
    <3> SUFFICES ASSUME NEW q \in S PROVE f[q.sequence] = q
      OBVIOUS
    <3>1. RowAt(q.sequence) \in S /\ RowAt(q.sequence).sequence = q.sequence
      BY <1>2
    <3> QED BY <3>1, RowFacts
  <2> HIDE DEF f, S
  <2>4. f \in Injection(a + 1 .. b, S)
    BY <2>1, <2>2 DEF Injection, IsInjective
  <2>5. f \in Surjection(a + 1 .. b, S)
    BY <2>1, <2>3 DEF Surjection
  <2> QED BY <2>4, <2>5 DEF Bijection
<1> HIDE DEF f, S
<1>4. IsFiniteSet(a + 1 .. b) /\ Cardinality(a + 1 .. b) = b - a
  <2>1. a + 1 \in Int /\ b \in Int
    OBVIOUS
  <2>2. /\ IsFiniteSet(a + 1 .. b)
        /\ Cardinality(a + 1 .. b) = IF a + 1 > b THEN 0 ELSE b - (a + 1) + 1
    BY <2>1, FS_Interval, Zenon
  <2>3. (IF a + 1 > b THEN 0 ELSE b - (a + 1) + 1) = b - a
    OBVIOUS
  <2> QED BY <2>2, <2>3
<1>5. Cardinality(S) = b - a
  BY <1>3, <1>4, FS_Bijection DEF ExistsBijection
<1> QED BY <1>5 DEF S

(* A page is the next rows of the log, as many as Page allows. *)
LEMMA PageRows ==
    ASSUME DeliverySound, NEW a \in Nat, PageAfter(a) # {}
    PROVE  \E b \in Nat : /\ a < b /\ b <= Cardinality(events)
                          /\ PageAfter(a) = {r \in events : r.sequence \in a + 1 .. b}
<1>0. PICK c \in Nat : c = Cardinality(events)
  BY RowFacts
<1>1. \A r \in events : r.sequence \in 1 .. c
  BY <1>0, RowFacts
<1>2. ASSUME NEW r \in events
      PROVE  r \in PageAfter(a) <=> a < r.sequence /\ r.sequence <= a + Page
  <2>1. r.sequence \in Nat /\ r.sequence <= c
    BY <1>1
  <2>2. CASE ~(a < r.sequence)
    BY <2>1, <2>2 DEF PageAfter
  <2>3. CASE a < r.sequence
    <3>0. a <= r.sequence /\ r.sequence <= Cardinality(events)
      BY <1>0, <2>1, <2>3
    <3>1. Cardinality({q \in events : q.sequence \in a + 1 .. r.sequence}) = r.sequence - a
      BY <2>1, <3>0, RowsBetween, Zenon
    <3>2. r \in PageAfter(a) <=> r.sequence - a <= Page
      BY <2>1, <2>3, <3>1 DEF PageAfter
    <3> QED BY <2>1, <2>3, <3>2, EventAssumption
  <2> QED BY <2>2, <2>3
<1>3. PICK b \in Nat : b = IF a + Page <= c THEN a + Page ELSE c
  BY EventAssumption
<1>4. \A r \in events : r \in PageAfter(a) <=> r.sequence \in a + 1 .. b
  BY <1>1, <1>2, <1>3, EventAssumption
<1>5. PageAfter(a) = {r \in events : r.sequence \in a + 1 .. b}
  BY <1>4 DEF PageAfter
<1>6. a < b /\ b <= c
  BY <1>3, <1>5, EventAssumption
<1> QED BY <1>0, <1>5, <1>6

(* The client gets the rows of a page by their number, and goes on after   *)
(* the last of them.                                                       *)
LEMMA ReadEffect ==
    ASSUME DeliverySound, ReadPage
    PROVE  /\ reader'.after \in Nat
           /\ reader'.seen \in [1 .. reader'.after -> events]
           /\ \A i \in 1 .. reader'.after : reader'.seen[i].sequence = i
<1> DEFINE page == PageAfter(reader.after)
           rank(r) == Cardinality({q \in page : q.sequence <= r.sequence})
           last == CHOOSE r \in page : \A q \in page : q.sequence <= r.sequence
           rows == [i \in 1 .. Cardinality(page) |-> CHOOSE r \in page : rank(r) = i]
<1>1. page # {} /\ reader'.after = last.sequence /\ reader'.seen = reader.seen \o rows
  BY DEF ReadPage
<1>2. PICK a \in Nat : a = reader.after
  BY DEF DeliverySound, TypeOK
<1>3. PICK b \in Nat : /\ a < b /\ b <= Cardinality(events)
                       /\ page = {r \in events : r.sequence \in a + 1 .. b}
  BY <1>1, <1>2, PageRows
<1>4. ASSUME NEW i \in a + 1 .. b
      PROVE  RowAt(i) \in page /\ RowAt(i).sequence = i
  <2>1. i \in 1 .. Cardinality(events)
    BY <1>3, RowFacts
  <2> QED BY <1>3, <2>1, RowFacts
<1>5. last.sequence = b
  <2>1. \E r \in page : \A q \in page : q.sequence <= r.sequence
    <3>1. b \in a + 1 .. b
      BY <1>3
    <3> QED BY <1>3, <1>4, <3>1
  <2>2. last \in page /\ \A q \in page : q.sequence <= last.sequence
    BY <2>1
  <2>3. b <= last.sequence
    BY <1>3, <1>4, <2>2
  <2> QED BY <1>3, <2>2, <2>3
<1>6. ASSUME NEW r \in page PROVE rank(r) = r.sequence - a
  <2>1. r.sequence \in Nat /\ a <= r.sequence /\ r.sequence <= Cardinality(events)
    BY <1>3, RowFacts
  <2>2. {q \in page : q.sequence <= r.sequence} =
            {q \in events : q.sequence \in a + 1 .. r.sequence}
    BY <1>3
  <2> QED BY <2>1, <2>2, RowsBetween
<1>7. Cardinality(page) = b - a
  BY <1>3, RowsBetween
<1> HIDE DEF page, rank, last
<1>8. \A i \in 1 .. b - a : rows[i] \in page /\ rows[i].sequence = a + i
  <2> SUFFICES ASSUME NEW i \in 1 .. b - a
               PROVE  rows[i] \in page /\ rows[i].sequence = a + i
    OBVIOUS
  <2>1. rows[i] = CHOOSE r \in page : rank(r) = i
    BY <1>7
  <2>2. RowAt(a + i) \in page /\ rank(RowAt(a + i)) = i
    BY <1>4, <1>6
  <2>3. rows[i] \in page /\ rank(rows[i]) = i
    BY <2>1, <2>2
  <2> QED BY <1>3, <1>6, <2>3
<1>9. rows \in [1 .. b - a -> events] /\ b - a \in Nat
  <2>1. page \subseteq events
    BY <1>3
  <2>2. rows \in [1 .. b - a -> page]
    BY <1>7, <1>8
  <2>3. b - a \in Nat
    BY <1>3
  <2> QED BY <2>1, <2>2, <2>3
<1> HIDE DEF rows
<1>10. reader.seen \in [1 .. a -> events] /\ \A i \in 1 .. a : reader.seen[i].sequence = i
  BY <1>2 DEF DeliverySound, ReaderSound
<1>11. /\ reader.seen \in Seq(events) /\ Len(reader.seen) = a
       /\ rows \in Seq(events) /\ Len(rows) = b - a
  BY <1>9, <1>10, IsSequence
<1>12. /\ reader'.seen \in Seq(events) /\ Len(reader'.seen) = b
       /\ \A i \in 1 .. b : reader'.seen[i] = IF i <= a THEN reader.seen[i] ELSE rows[i - a]
  <2>1. /\ reader.seen \o rows \in Seq(events)
        /\ Len(reader.seen \o rows) = a + (b - a)
        /\ \A i \in 1 .. a + (b - a) : (reader.seen \o rows)[i] =
              IF i <= a THEN reader.seen[i] ELSE rows[i - a]
    <3>1. /\ reader.seen \o rows \in Seq(events)
          /\ Len(reader.seen \o rows) = Len(reader.seen) + Len(rows)
          /\ \A i \in 1 .. Len(reader.seen) + Len(rows) : (reader.seen \o rows)[i] =
                IF i <= Len(reader.seen) THEN reader.seen[i] ELSE rows[i - Len(reader.seen)]
      BY <1>11, ConcatProperties
    <3> QED BY <1>11, <3>1, Zenon
  <2>2. a + (b - a) = b
    OBVIOUS
  <2> QED BY <1>1, <2>1, <2>2, Zenon
<1>13. reader'.after = b
  BY <1>1, <1>5
<1>14. reader'.seen \in [1 .. b -> events]
  BY <1>12, LenProperties
<1>15. \A i \in 1 .. b : reader'.seen[i].sequence = i
  <2> SUFFICES ASSUME NEW i \in 1 .. b PROVE reader'.seen[i].sequence = i
    OBVIOUS
  <2>1. CASE i <= a
    BY <1>10, <1>12, <2>1
  <2>2. CASE ~(i <= a)
    <3>1. i - a \in 1 .. b - a /\ a + (i - a) = i
      BY <2>2
    <3> QED BY <1>8, <1>12, <2>2, <3>1
  <2> QED BY <2>1, <2>2
<1> QED BY <1>13, <1>14, <1>15

(* A read moves the cursor of the client and nothing else. *)
LEMMA ReadSound ==
    ASSUME DeliverySound, ReadPage
    PROVE  DeliverySound' /\ events' = events
<1>1. UNCHANGED <<attempt, sink, refused, late, events>>
  BY DEF ReadPage
<1>2. ReaderSound' /\ reader'.after \in Nat
  BY <1>1, ReadEffect DEF ReaderSound
<1>3. TypeOK'
  BY <1>1, <1>2 DEF DeliverySound, TypeOK
<1>4. Numbered' /\ InOrderOnce' /\ InTurn'
  BY <1>1 DEF DeliverySound, Numbered, InOrderOnce, InTurn
<1>5. ASSUME NEW a \in Attempts PROVE SinkSound(a)'
  <2>1. SinkSound(a)
    BY DEF DeliverySound
  <2> QED BY <1>1, <2>1, Frame
<1> QED BY <1>1, <1>2, <1>3, <1>4, <1>5 DEF DeliverySound

LEMMA InitSound == Init => DeliverySound
<1> SUFFICES ASSUME Init PROVE DeliverySound
  OBVIOUS
<1>1. /\ attempt = [a \in Attempts |-> "none"] /\ refused = [a \in Attempts |-> {}]
      /\ late = {} /\ events = {} /\ reader.after = 0
      /\ \A a \in Attempts : /\ sink[a] = [step |-> "none", sequence |-> 0, pending |-> <<>>]
                            /\ MaxEvents[a] \in Nat
  BY EventAssumption DEF Init, Attempts
<1>2. <<>> \in Seq(Nat) /\ Len(<<>>) = 0 /\ MaxPending \in Nat
  BY EmptySeq, EventAssumption
<1>3. sink \in [Attempts -> Sinks]
  BY <1>2 DEF Init, Sinks, Steps
<1>4. TypeOK
  BY <1>1, <1>2, <1>3 DEF TypeOK
<1>5. Numbered /\ InOrderOnce /\ InTurn
  BY <1>1, FS_EmptySet DEF Numbered, InOrderOnce, InTurn
<1>6. ASSUME NEW a \in Attempts PROVE SinkSound(a)
  <2>1. /\ sink[a].step = "none" /\ sink[a].sequence = 0 /\ sink[a].pending = <<>>
        /\ attempt[a] = "none"
    BY <1>1
  <2>2. BufferSound(a)
    BY <1>1, <1>2, <2>1 DEF BufferSound
  <2>3. LogSound(a)
    BY <1>1 DEF LogSound
  <2>4. Accounted(a)
    BY <2>1 DEF Accounted
  <2> QED BY <2>2, <2>3, <2>4 DEF SinkSound
<1>7. ReaderSound
  BY DEF Init, ReaderSound
<1> QED BY <1>4, <1>5, <1>6, <1>7 DEF DeliverySound

(* DeliverySound is inductive: whatever calls fail, arrive late or arrive  *)
(* twice, and whenever workers die, the only event of an attempt that can  *)
(* be new to AppendAttemptEvent is the one at the head of its sink.        *)
THEOREM DeliveryIsSound == Spec => []DeliverySound
<1>1. DeliverySound /\ [Next]_vars => DeliverySound'
  <2> SUFFICES ASSUME DeliverySound, [Next]_vars PROVE DeliverySound'
    OBVIOUS
  <2>1. CASE Next
    BY <2>1, NextEffect, EffectSound, ReadSound
  <2>2. CASE UNCHANGED vars
    <3>1. /\ UNCHANGED <<attempt, sink, refused, late, events>> /\ reader' = reader
      BY <2>2 DEF vars
    <3>2. TypeOK' /\ Numbered' /\ InOrderOnce' /\ InTurn'
      BY <3>1 DEF DeliverySound, TypeOK, Numbered, InOrderOnce, InTurn
    <3>3. ASSUME NEW a \in Attempts PROVE SinkSound(a)'
      <4>1. SinkSound(a)
        BY DEF DeliverySound
      <4> QED BY <3>1, <4>1, Frame
    <3>4. ReaderSound'
      BY <3>1 DEF DeliverySound, ReaderSound
    <3> QED BY <3>2, <3>3, <3>4 DEF DeliverySound
  <2> QED BY <2>1, <2>2
<1> QED BY <1>1, InitSound, PTL DEF Spec

(* Requests may be repeated, overtaken and late, and AppendAttemptEvent    *)
(* never compares worker_sequence: still no event is stored twice or after *)
(* a younger one of its attempt.                                           *)
THEOREM LogInOrderOnce == Spec => []InOrderOnce
<1>1. DeliverySound => InOrderOnce
  BY DEF DeliverySound
<1> QED BY <1>1, DeliveryIsSound, PTL

(* An attempt that CompleteAttempt made succeeded has every event in the   *)
(* log but those for which Emit returned an error.                         *)
THEOREM OnlyRefusedAreMissing == Spec => []OnlyRefusedMissing
<1>1. DeliverySound => OnlyRefusedMissing
  BY DEF DeliverySound, OnlyRefusedMissing, SinkSound, Accounted
<1> QED BY <1>1, DeliveryIsSound, PTL

(* A client that pages through ListEvents has at any time read exactly the *)
(* rows up to its cursor, each once and in order: a page of rows by number *)
(* follows the page before it, and no row is inserted below a cursor.      *)
THEOREM ReaderSeesAll == Spec => []ReaderIsExact
<1>1. ASSUME DeliverySound PROVE ReaderIsExact
  <2>1. PICK a \in Nat : a = reader.after
    BY <1>1 DEF DeliverySound, TypeOK
  <2>2. reader.seen \in [1 .. a -> events] /\ \A i \in 1 .. a : reader.seen[i].sequence = i
    BY <1>1, <2>1 DEF DeliverySound, ReaderSound
  <2>3. Len(reader.seen) = a /\ DOMAIN reader.seen = 1 .. a
    BY <2>2, IsSequence
  <2>4. a <= Cardinality(events)
    <3>1. CASE a = 0
      BY <1>1, <3>1, RowFacts
    <3>2. CASE a # 0
      <4>1. a \in 1 .. a /\ reader.seen[a] \in events /\ reader.seen[a].sequence = a
        BY <2>2, <3>2
      <4> QED BY <1>1, <4>1, RowFacts
    <3> QED BY <3>1, <3>2
  <2>5. {r \in events : r.sequence <= a} = {r \in events : r.sequence \in 0 + 1 .. a}
    BY <1>1, RowFacts
  <2>6. Cardinality({r \in events : r.sequence \in 0 + 1 .. a}) = a
    BY <1>1, <2>4, RowsBetween
  <2>7. Len(reader.seen) = Cardinality({r \in events : r.sequence <= reader.after})
    BY <2>1, <2>3, <2>5, <2>6
  <2>8. \A i \in 1 .. a : /\ reader.seen[i] \in events /\ reader.seen[i].sequence <= a
                          /\ \A k \in 1 .. a : i < k => reader.seen[i].sequence < reader.seen[k].sequence
    BY <2>2
  <2> QED BY <2>1, <2>3, <2>7, <2>8, Zenon DEF ReaderIsExact
<1> QED BY <1>1, DeliveryIsSound, PTL

-----------------------------------------------------------------------------
(* The log implements the stream. *)

(* Under the invariant the log is the sequence of the rows by number. *)
LEMMA LogFacts ==
    ASSUME DeliverySound
    PROVE  /\ Cardinality(events) \in Nat
           /\ \A i \in 1 .. Cardinality(events) :
                 /\ RowAt(i) \in events /\ RowAt(i).sequence = i
                 /\ Log[i] = [attempt |-> RowAt(i).attempt, number |-> RowAt(i).number]
           /\ Log \in [1 .. Cardinality(events) -> [attempt : Attempts, number : Nat]]
<1>1. \A r \in events : r.attempt \in Attempts /\ r.number \in Nat
  BY DEF DeliverySound, TypeOK
<1> QED BY <1>1, RowFacts DEF Log

(* An appended row is the new end of the log. *)
LEMMA LogGrows ==
    ASSUME DeliverySound, DeliverySound', NEW a \in Attempts, NEW n \in Nat,
           events' = events \cup {Row(a, n)}
    PROVE  Log' = Append(Log, [attempt |-> a, number |-> n])
<1> DEFINE E == [attempt : Attempts, number : Nat]
           e == [attempt |-> a, number |-> n]
<1>0. PICK c : c = Cardinality(events)
  OBVIOUS
<1>1. /\ c \in Nat /\ Cardinality(events') = c + 1
      /\ Row(a, n) = [sequence |-> c + 1, attempt |-> a, number |-> n]
  BY <1>0, AppendEffect DEF DeliverySound
<1>2. /\ Log \in [1 .. c -> E]
      /\ \A i \in 1 .. c :
            /\ RowAt(i) \in events /\ RowAt(i).sequence = i
            /\ Log[i] = [attempt |-> RowAt(i).attempt, number |-> RowAt(i).number]
  BY <1>0, LogFacts
<1>3. /\ Log' \in [1 .. c + 1 -> E]
      /\ \A i \in 1 .. c + 1 :
            /\ RowAt(i)' \in events' /\ (RowAt(i)').sequence = i
            /\ Log'[i] = [attempt |-> (RowAt(i)').attempt, number |-> (RowAt(i)').number]
  <2>1. ASSUME NEW i \in 1 .. c + 1
        PROVE  RowAt(i)' \in events' /\ (RowAt(i)').sequence = i
    <3>1. \E r \in events' : r.sequence = i
      BY <1>1 DEF DeliverySound, Numbered
    <3> QED BY <3>1 DEF RowAt
  <2>2. \A r \in events' : r.attempt \in Attempts /\ r.number \in Nat
    BY DEF DeliverySound, TypeOK
  <2>3. Log' = [i \in 1 .. c + 1 |->
                   [attempt |-> (RowAt(i)').attempt, number |-> (RowAt(i)').number]]
    BY <1>1 DEF Log
  <2> QED BY <2>1, <2>2, <2>3
<1>4. Log \in Seq(E) /\ Len(Log) = c
  BY <1>1, <1>2, IsSequence
<1>5. Log' \in Seq(E) /\ Len(Log') = c + 1
  <2>1. c + 1 \in Nat
    BY <1>1
  <2> QED BY <1>3, <2>1, IsSequence
<1>6. /\ Append(Log, e) \in Seq(E) /\ Len(Append(Log, e)) = c + 1
      /\ \A i \in 1 .. c : Append(Log, e)[i] = Log[i]
      /\ Append(Log, e)[c + 1] = e
  BY <1>4, AppendProperties
<1>7. \A q, r \in events' : q.sequence = r.sequence => q = r
  BY DEF DeliverySound, InOrderOnce
<1>8. ASSUME NEW i \in 1 .. c + 1 PROVE Log'[i] = Append(Log, e)[i]
  <2>1. CASE i = c + 1
    <3>1. RowAt(i)' = Row(a, n)
      <4>1. Row(a, n) \in events' /\ Row(a, n).sequence = i
        BY <1>1, <2>1
      <4> QED BY <1>3, <1>7, <4>1
    <3>2. Row(a, n).attempt = a /\ Row(a, n).number = n
      BY <1>1
    <3>3. Log'[i] = e
      BY <1>3, <3>1, <3>2
    <3> QED BY <1>6, <2>1, <3>3
  <2>2. CASE i # c + 1
    <3>1. i \in 1 .. c
      BY <1>1, <2>2
    <3>2. RowAt(i)' = RowAt(i)
      BY <1>2, <1>3, <1>7, <3>1
    <3>3. Log'[i] = Log[i]
      BY <1>2, <1>3, <3>1, <3>2
    <3> QED BY <1>6, <3>1, <3>3
  <2> QED BY <2>1, <2>2
<1> QED BY <1>5, <1>6, <1>8, SeqEqual

(* A row that may come next follows all that the log has. *)
LEMMA MayAppendFollows ==
    ASSUME DeliverySound, NEW a \in Attempts, NEW n \in Nat, MayAppend(a, n)
    PROVE  Stream!Follows(a, n)
<1> SUFFICES ASSUME NEW i \in 1 .. Cardinality(events)
             PROVE  \/ Log[i].attempt < a
                    \/ /\ Log[i].attempt = a
                       /\ Log[i].number # Transition
                       /\ n = Transition \/ Log[i].number < n
  BY LogFacts DEF Stream!Follows
<1>1. PICK r \in events : Log[i].attempt = r.attempt /\ Log[i].number = r.number
  BY LogFacts
<1>2. r.attempt \in Attempts /\ r.attempt \in Nat /\ a \in Nat
  BY DEF DeliverySound, TypeOK, Attempts
<1>3. attempt[r.attempt] # "none"
  BY <1>2 DEF DeliverySound, SinkSound, LogSound
<1>4. ~(a < r.attempt)
  BY <1>2, <1>3 DEF DeliverySound, InTurn, MayAppend
<1>5. CASE r.attempt = a
  BY <1>1, <1>5 DEF MayAppend
<1> QED BY <1>1, <1>2, <1>4, <1>5

(* To a client, retries, late requests and replaced workers together look  *)
(* like EventStream: one list that only grows at its end, attempt by       *)
(* attempt, event by event.                                                *)
THEOREM DeliveryImplementsStream == Spec => ImplementsStream
<1>1. Init => Stream!Init
  <2> SUFFICES ASSUME Init PROVE Log = <<>>
    BY DEF Stream!Init
  <2>1. Log \in [1 .. 0 -> [attempt : Attempts, number : Nat]]
    BY InitSound, LogFacts, FS_EmptySet DEF Init
  <2>2. Log \in Seq([attempt : Attempts, number : Nat]) /\ Len(Log) = 0
    BY <2>1, IsSequence
  <2> QED BY <2>2, EmptySeq
<1>2. DeliverySound /\ DeliverySound' /\ [Next]_vars => [Stream!Next]_Log
  <2> SUFFICES ASSUME DeliverySound, DeliverySound', [Next]_vars
               PROVE  Stream!Next \/ Log' = Log
    OBVIOUS
  <2>1. CASE events' = events
    BY <2>1 DEF Log, RowAt
  <2>2. CASE \E a \in Attempts : Effect(a) /\ events' # events
    <3>0. PICK a \in Attempts : Effect(a) /\ events' # events
      BY <2>2
    <3>1. PICK n \in 0 .. MaxEvents[a] :
             MayAppend(a, n) /\ events' = events \cup {Row(a, n)}
      BY <3>0 DEF Effect
    <3>2. n \in Nat /\ n \in UNION {0 .. MaxEvents[b] : b \in Attempts}
      <4>1. MaxEvents[a] \in Nat
        BY SinkTypes
      <4>2. n \in Nat
        BY <4>1
      <4>3. n \in UNION {0 .. MaxEvents[b] : b \in Attempts}
        BY Zenon
      <4> QED BY <4>2, <4>3
    <3>3. Stream!Follows(a, n) /\ Log' = Append(Log, [attempt |-> a, number |-> n])
      BY <3>1, <3>2, MayAppendFollows, LogGrows
    <3> QED BY <3>2, <3>3 DEF Stream!Next
  <2>3. CASE UNCHANGED vars
    BY <2>1, <2>3 DEF vars
  <2> QED BY <2>1, <2>2, <2>3, NextEffect, ReadSound
<1> QED BY <1>1, <1>2, DeliveryIsSound, PTL DEF Spec, ImplementsStream, Stream!Spec
=============================================================================
