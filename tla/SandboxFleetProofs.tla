------------------------- MODULE SandboxFleetProofs -------------------------
(***************************************************************************)
(* Proofs about SandboxFleet, for any number of sandboxes, any limits and  *)
(* either policy for orphans: FleetSound is inductive, so the fleet stays  *)
(* within its limit and no live sandbox is forgotten.                      *)
(***************************************************************************)
EXTENDS SandboxFleet, TLAPS, FiniteSetTheorems

Room == RoomToMake /\ FleetBound

Drawn == \A b \in Boxes : Undrawn(b)

LEMMA Parts ==
    FleetSound <=> /\ TypeOK /\ Drawn /\ ListingSound /\ StartSound /\ PlaneSound
                   /\ NothingForgotten /\ Room
BY DEF FleetSound, Drawn, Room

LEMMA PartsNext ==
    ASSUME TypeOK', Drawn', ListingSound', StartSound', PlaneSound', NothingForgotten', Room'
    PROVE  FleetSound'
BY DEF FleetSound, Drawn, Room

-----------------------------------------------------------------------------
(* Counting sandboxes.                                                     *)

LEMMA BoxesFinite == IsFiniteSet(Boxes)
BY FS_Interval, FleetAssumption DEF Boxes

LEMMA Counting ==
    ASSUME NEW S, S \subseteq Boxes
    PROVE  IsFiniteSet(S) /\ Cardinality(S) \in Nat
<1>1. IsFiniteSet(S)
  BY BoxesFinite, FS_Subset
<1> QED BY <1>1, FS_CardinalityType

LEMMA CountingSubset ==
    ASSUME NEW T, T \subseteq Boxes, NEW S, S \subseteq T
    PROVE  Cardinality(S) <= Cardinality(T)
BY Counting, FS_Subset

LEMMA CountingRest ==
    ASSUME NEW T, T \subseteq Boxes, NEW S, S \subseteq T
    PROVE  Cardinality(T \ S) = Cardinality(T) - Cardinality(S)
<1>1. IsFiniteSet(T) /\ T \cap S = S
  BY Counting
<1> QED BY <1>1, FS_Difference

LEMMA CountingOne ==
    ASSUME NEW S, S \subseteq Boxes, NEW b \in Boxes
    PROVE  /\ Cardinality(S \cup {b}) = IF b \in S THEN Cardinality(S) ELSE Cardinality(S) + 1
           /\ Cardinality(S \ {b}) = IF b \in S THEN Cardinality(S) - 1 ELSE Cardinality(S)
BY Counting, FS_AddElement, FS_RemoveElement

-----------------------------------------------------------------------------
(* Records.                                                                *)

RowTypes == [state : RowStates, bound : {"planned", "registered"}]

LEMMA Constants ==
    /\ MaxTotalSandboxes \in Nat /\ MaxScaleUpPerRun \in Nat /\ ProvisioningConcurrency \in Nat
    /\ NoRow \in RowTypes /\ NoRow.state = "absent"
    /\ NoRows \in Rows /\ \A b \in Boxes : NoRows[b] = NoRow
    /\ ScalerIdle \in Scalers /\ ScalerIdle.at = "idle"
    /\ ScalerIdle.make = 0 /\ ScalerIdle.expired = {}
    /\ ReconcilerIdle \in Reconcilers /\ ReconcilerIdle.at = "idle"
    /\ ReconcilerIdle.records = NoRows
    /\ ReconcilerIdle.items = [b \in Boxes |-> "none"]
BY FleetAssumption
   DEF NoRow, NoRows, Rows, RowTypes, RowStates, ScalerIdle, Scalers, ReconcilerIdle,
       Reconcilers, Listings

LEMMA RowFields ==
    ASSUME TypeOK, NEW b \in Boxes
    PROVE  /\ row[b] \in RowTypes /\ row[b].state \in RowStates
           /\ status[b] \in {"none", "running"}
           /\ reconciler.records[b] \in RowTypes /\ reconciler.items[b] \in {"none", "running"}
BY DEF TypeOK, Rows, RowTypes, Reconcilers, Listings

LEMMA ScalerFields ==
    ASSUME TypeOK
    PROVE  /\ scaler.at \in {"idle", "act"} /\ scaler.expired \subseteq Boxes
           /\ scaler.make \in 0 .. MaxScaleUpPerRun /\ scaler.make \in Nat
           /\ scaler.drain \subseteq Boxes
BY Constants DEF TypeOK, Scalers

LEMMA WithStateFacts ==
    ASSUME TypeOK, NEW b \in Boxes, NEW s \in RowStates, row' = WithState(b, s)
    PROVE  /\ row' \in Rows /\ row'[b].state = s
           /\ \A c \in Boxes \ {b} : row'[c] = row[c]
BY DEF TypeOK, Rows, WithState

LEMMA WrittenFacts ==
    ASSUME TypeOK, NEW b \in Boxes, NEW r \in RowTypes, row' = [row EXCEPT ![b] = r]
    PROVE  /\ row' \in Rows /\ row'[b] = r
           /\ \A c \in Boxes \ {b} : row'[c] = row[c]
BY DEF TypeOK, Rows, RowTypes

LEMMA TerminateFacts ==
    ASSUME TypeOK, NEW b \in Boxes, Terminate(b)
    PROVE  /\ status' \in Listings /\ status'[b] = "none"
           /\ \A c \in Boxes \ {b} : status'[c] = status[c]
BY DEF TypeOK, Listings, Terminate

(* What a run of the autoscaler has left to do, or that it has ended, is   *)
(* the same to those who count.                                            *)
LEMMA ScaledFacts ==
    ASSUME NEW s \in Scalers, s.at = "act"
    PROVE  /\ Scaled(s) \in Scalers
           /\ Scaled(s).make = s.make /\ Scaled(s).expired = s.expired
           /\ Scaled(s).at = "idle" => Scaled(s) = ScalerIdle
<1>1. CASE s.expired \cup s.drain = {} /\ s.make = 0
  BY <1>1, Constants DEF Scaled
<1>2. CASE ~(s.expired \cup s.drain = {} /\ s.make = 0)
  BY <1>2 DEF Scaled
<1> QED BY <1>1, <1>2

(* A run of the reconciler goes on without b, or is over. *)
LEMMA PassedFacts ==
    ASSUME TypeOK, NEW b \in Boxes, reconciler.at = "items", Passed(b)
    PROVE  /\ reconciler' \in Reconcilers
           /\ reconciler'.at \in {"items", "idle", "done"}
           /\ reconciler'.items[b] = "none" /\ reconciler'.records[b].state = "absent"
           /\ \A c \in Boxes \ {b} :
                /\ reconciler'.at = "items" => /\ reconciler'.items[c] = reconciler.items[c]
                                               /\ reconciler'.records[c] = reconciler.records[c]
                /\ reconciler'.at # "items" => /\ reconciler.items[c] = "none"
                                               /\ reconciler'.items[c] = "none"
                                               /\ reconciler'.records[c].state = "absent"
<1> DEFINE r == [reconciler EXCEPT !.records[b] = NoRow, !.items[b] = "none"]
           i(at) == [ReconcilerIdle EXCEPT !.at = at]
<1>1. /\ r \in Reconcilers /\ r.at = "items"
      /\ r.items[b] = "none" /\ r.records[b] = NoRow
      /\ \A c \in Boxes \ {b} : /\ r.items[c] = reconciler.items[c]
                                /\ r.records[c] = reconciler.records[c]
  <2> DEFINE records == [reconciler.records EXCEPT ![b] = NoRow]
             items   == [reconciler.items EXCEPT ![b] = "none"]
  <2>1. reconciler \in Reconcilers /\ reconciler.records \in Rows /\ reconciler.items \in Listings
    BY DEF TypeOK, Reconcilers
  <2>2. /\ records \in Rows /\ records[b] = NoRow
        /\ \A c \in Boxes \ {b} : records[c] = reconciler.records[c]
    BY <2>1, Constants DEF Rows, RowTypes
  <2>3. /\ items \in Listings /\ items[b] = "none"
        /\ \A c \in Boxes \ {b} : items[c] = reconciler.items[c]
    BY <2>1 DEF Listings
  <2>4. r = [reconciler EXCEPT !.records = records, !.items = items]
    OBVIOUS
  <2> HIDE DEF records, items, r
  <2>5. r \in Reconcilers /\ r.at = "items" /\ r.records = records /\ r.items = items
    BY <2>1, <2>2, <2>3, <2>4 DEF Reconcilers
  <2> QED BY <2>2, <2>3, <2>5
<1>2. \A at \in {"idle", "done"} :
        /\ i(at) \in Reconcilers /\ i(at).at = at
        /\ \A c \in Boxes : i(at).items[c] = "none" /\ i(at).records[c].state = "absent"
  BY Constants DEF Reconcilers, Listings, Rows
<1>3. CASE r.records = NoRows /\ r.items = ReconcilerIdle.items
  <2>1. PICK at \in {"idle", "done"} : reconciler' = i(at)
    BY <1>3 DEF Passed, Continued
  <2>2. \A c \in Boxes : r.items[c] = "none"
    BY <1>3, Constants
  <2> HIDE DEF r, i
  <2> QED BY <1>1, <1>2, <2>1, <2>2
<1>4. CASE ~(r.records = NoRows /\ r.items = ReconcilerIdle.items)
  <2>1. reconciler' = r
    BY <1>4 DEF Passed, Continued
  <2> HIDE DEF r
  <2> QED BY <1>1, <2>1, Constants
<1> QED BY <1>3, <1>4

-----------------------------------------------------------------------------
(* What keeps each part of the invariant.                                  *)

LEMMA Sets ==
    /\ Live \subseteq Boxes /\ Counted \subseteq Boxes /\ InMaking \subseteq Boxes
    /\ Live' \subseteq Boxes /\ Counted' \subseteq Boxes /\ InMaking' \subseteq Boxes
BY DEF Live, Counted, InMaking

LEMMA BoundKept ==
    ASSUME FleetBound, Live' \subseteq Live, lost \subseteq lost'
    PROVE  FleetBound'
<1>1. /\ Live \ lost \subseteq Boxes /\ Live' \ lost' \subseteq Live \ lost
      /\ Live' \ lost' \subseteq Boxes
  BY Sets
<1>2. /\ Cardinality(Live \ lost) \in Nat /\ Cardinality(Live' \ lost') \in Nat
      /\ Cardinality(Live' \ lost') <= Cardinality(Live \ lost)
  BY <1>1, Counting, CountingSubset
<1> QED BY <1>2, Constants DEF FleetBound

(* Room is kept when nothing comes to life and the run of the autoscaler   *)
(* has as much left to do, counting what it has begun.                     *)
LEMMA RoomKept ==
    ASSUME TypeOK, Room, TypeOK', Live' \subseteq Live, lost \subseteq lost',
           (Live' \ lost') \ scaler'.expired \subseteq (Live \ lost) \ scaler.expired,
           scaler'.make + Cardinality(InMaking) <= scaler.make + Cardinality(InMaking'),
           Cardinality(InMaking') <= scaler'.make,
           InMaking' # {} => scaler'.expired = {}
    PROVE  Room'
<1> DEFINE before == (Live \ lost) \ scaler.expired
           after  == (Live' \ lost') \ scaler'.expired
<1>1. before \subseteq Boxes /\ after \subseteq before /\ after \subseteq Boxes
  BY Sets
<1> HIDE DEF before, after
<1>2. /\ Cardinality(before) \in Nat /\ Cardinality(after) \in Nat
      /\ Cardinality(after) <= Cardinality(before)
      /\ Cardinality(InMaking) \in Nat /\ Cardinality(InMaking') \in Nat
  BY <1>1, Sets, Counting, CountingSubset
<1>3. scaler.make \in Nat /\ scaler'.make \in Nat
  BY Constants DEF TypeOK, Scalers
<1>4. Cardinality(before) + scaler.make <= MaxTotalSandboxes + Cardinality(InMaking)
  BY DEF Room, RoomToMake, before
<1>5. Cardinality(after) + scaler'.make <= MaxTotalSandboxes + Cardinality(InMaking')
  BY <1>2, <1>3, <1>4, Constants
<1>6. RoomToMake'
  BY <1>5 DEF RoomToMake, after
<1> QED BY <1>6, BoundKept DEF Room

LEMMA RoomUntouched ==
    ASSUME TypeOK, Room, TypeOK', Live' \subseteq Live, lost \subseteq lost',
           UNCHANGED <<scaler, making>>
    PROVE  Room'
<1>1. InMaking' = InMaking
  BY DEF InMaking
<1>2. Cardinality(InMaking) \in Nat /\ scaler.make \in Nat
  BY Sets, Counting, ScalerFields
<1>3. Cardinality(InMaking) <= scaler.make /\ (InMaking # {} => scaler.expired = {})
  BY DEF Room, RoomToMake
<1> QED BY <1>1, <1>2, <1>3, RoomKept

LEMMA RoomWhenIdle ==
    ASSUME TypeOK, Room, TypeOK', Live' \subseteq Live, lost \subseteq lost',
           scaler' = ScalerIdle, InMaking' = {}
    PROVE  Room'
<1>1. FleetBound'
  BY BoundKept DEF Room
<1>2. Cardinality((Live \ lost)') \in Nat /\ (Live \ lost)' \ {} = (Live \ lost)'
  <2>1. Live' \ lost' \subseteq Boxes
    BY Sets
  <2> QED BY <2>1, Counting
<1>3. Cardinality(InMaking') = 0
  BY FS_EmptySet
<1>4. RoomToMake'
  BY <1>1, <1>2, <1>3, Constants DEF RoomToMake, FleetBound
<1> QED BY <1>1, <1>4 DEF Room

(* While the process serves and the reconciler rests: a step that gives    *)
(* life to nothing and uncounts nothing that is alive.                     *)
LEMMA ServingKept ==
    ASSUME FleetSound, TypeOK', Room', plane = "up", UNCHANGED <<plane, reconciler>>,
           Live' \subseteq Live, lost \subseteq lost',
           \A b \in Boxes : token'[b] = "unminted" =>
               /\ token[b] = "unminted" /\ row'[b] = row[b]
               /\ joining'[b] = joining[b] /\ making'[b] = making[b],
           Counted \cap Live' \subseteq Counted',
           InMaking \cap Live' \subseteq InMaking' \cup Counted' \cup lost',
           scaler'.at = "idle" => scaler' = ScalerIdle
    PROVE  FleetSound'
<1>1. Drawn'
  <2> SUFFICES ASSUME NEW b \in Boxes, token'[b] = "unminted" PROVE Undrawn(b)'
    BY DEF Drawn, Undrawn
  <2>1. Undrawn(b) /\ token[b] = "unminted"
    BY DEF FleetSound
  <2>2. status'[b] = "none"
    BY <2>1 DEF Undrawn, Live
  <2> QED BY <2>1, <2>2 DEF Undrawn
<1>2. ListingSound'
  BY DEF FleetSound, ListingSound
<1>3. StartSound' /\ PlaneSound'
  BY DEF StartSound, PlaneSound
<1>4. NothingForgotten'
  BY DEF FleetSound, NothingForgotten
<1> QED BY <1>1, <1>2, <1>3, <1>4, PartsNext

-----------------------------------------------------------------------------
(* The process.                                                            *)

(* The process ends between the calls of a controller, and leaves a row    *)
(* "terminating" at most.                                                  *)
LEMMA EndsSound ==
    ASSUME FleetSound, Ends,
           \/ UNCHANGED row
           \/ \E b \in Boxes : row[b].state # "absent" /\ row' = WithState(b, "terminating")
    PROVE  FleetSound'
<1>1. TypeOK /\ Drawn /\ Room
  BY Parts
<1>2. /\ plane' = "down" /\ UNCHANGED <<status, token, lost>>
      /\ joining' = [b \in Boxes |-> "no"] /\ making' = [b \in Boxes |-> "no"]
      /\ scaler' = ScalerIdle /\ reconciler' = ReconcilerIdle /\ reaper' = {}
      /\ worker' = [b \in Boxes |-> IF worker[b] = "alive" THEN "quiet" ELSE worker[b]]
  BY DEF Ends
<1>3. row' \in Rows /\ \A b \in Boxes : row[b].state = "absent" => row'[b].state = "absent"
  <2>1. CASE UNCHANGED row
    BY <1>1, <2>1 DEF TypeOK
  <2>2. ASSUME NEW b \in Boxes, row[b].state # "absent", row' = WithState(b, "terminating")
        PROVE  row' \in Rows /\ \A c \in Boxes \ {b} : row'[c] = row[c]
    BY <1>1, <2>2, WithStateFacts DEF RowStates
  <2> QED BY <2>1, <2>2
<1>4. worker' \in [Boxes -> {"none", "alive", "quiet", "revoked", "dead"}]
  BY <1>1, <1>2 DEF TypeOK
<1>5. TypeOK'
  BY <1>1, <1>2, <1>3, <1>4, Constants DEF TypeOK
<1>6. InMaking' = {} /\ Live' = Live
  BY <1>2 DEF InMaking, Live
<1>7. Room'
  BY <1>1, <1>2, <1>5, <1>6, RoomWhenIdle
<1>8. Drawn'
  BY <1>1, <1>2, <1>3, Constants DEF Drawn, Undrawn
<1>9. ListingSound' /\ StartSound' /\ PlaneSound' /\ NothingForgotten'
  BY <1>2, <1>6, Constants DEF ListingSound, StartSound, PlaneSound, NothingForgotten
<1> QED BY <1>5, <1>7, <1>8, <1>9, PartsNext

LEMMA RestartSound ==
    ASSUME FleetSound, Restart
    PROVE  FleetSound'
<1>1. TypeOK /\ Drawn /\ ListingSound /\ PlaneSound /\ Room
  BY Parts
<1>2. /\ plane = "down" /\ plane' = "starting"
      /\ UNCHANGED <<status, row, token, worker, joining, making, lost, scaler, reconciler,
                     reaper>>
  BY DEF Restart, Workers, Creation, Controllers
<1>3. TypeOK'
  BY <1>1, <1>2 DEF TypeOK
<1>4. Room'
  BY <1>1, <1>2, <1>3, RoomUntouched DEF Live
<1>5. Drawn' /\ ListingSound'
  BY <1>1, <1>2 DEF Drawn, Undrawn, ListingSound, Live
<1>6. StartSound' /\ PlaneSound' /\ NothingForgotten'
  BY <1>1, <1>2, Constants DEF StartSound, PlaneSound, NothingForgotten, InMaking
<1> QED BY <1>3, <1>4, <1>5, <1>6, PartsNext

(* Application.Run serves after the first reconciliation. *)
LEMMA ServeSound ==
    ASSUME FleetSound, Serve
    PROVE  FleetSound'
<1>1. TypeOK /\ Drawn /\ StartSound /\ PlaneSound /\ Room
  BY Parts
<1>2. /\ plane = "starting" /\ plane' = "up" /\ reconciler.at = "done"
      /\ reconciler' = ReconcilerIdle
      /\ UNCHANGED <<status, row, token, worker, joining, making, lost, scaler, reaper>>
  BY DEF Serve, Workers, Creation
<1>3. TypeOK'
  BY <1>1, <1>2, Constants DEF TypeOK
<1>4. Room'
  BY <1>1, <1>2, <1>3, RoomUntouched DEF Live
<1>5. Drawn' /\ ListingSound'
  BY <1>1, <1>2, Constants DEF Drawn, Undrawn, ListingSound
<1>6. StartSound' /\ PlaneSound'
  BY <1>1, <1>2, Constants DEF StartSound, PlaneSound
<1>7. NothingForgotten'
  <2>1. Live \subseteq Counted /\ Live' = Live /\ Counted' = Counted
    BY <1>1, <1>2 DEF StartSound, Live, Counted, InState
  <2> QED BY <2>1 DEF NothingForgotten
<1> QED BY <1>3, <1>4, <1>5, <1>6, <1>7, PartsNext

-----------------------------------------------------------------------------
(* SandboxReconciler.                                                      *)

(* Its listings.  What the provider does not list then is not drawn yet,   *)
(* or gone for good.                                                       *)
LEMMA ListingsSound ==
    ASSUME FleetSound, ListRecords \/ ListItems
    PROVE  FleetSound'
<1>1. TypeOK /\ Drawn /\ ListingSound /\ StartSound /\ PlaneSound /\ NothingForgotten /\ Room
  BY Parts
<1>2. /\ plane # "down"
      /\ UNCHANGED <<plane, status, row, token, worker, joining, making, lost, scaler, reaper>>
  BY DEF ListRecords, ListItems, Reconciling, Workers, Creation
<1>3. /\ reconciler' \in Reconcilers /\ reconciler'.at \in {"idle", "records", "items", "done"}
      /\ \A b \in Boxes : /\ reconciler'.records[b].state # "absent" =>
                                row[b].state # "absent" \/ reconciler.records[b].state # "absent"
                          /\ reconciler'.items[b] # "none" =>
                                status[b] # "none" \/ reconciler.items[b] # "none"
      /\ reconciler'.at = "items" => reconciler'.items = status
      /\ reconciler'.at = "done" => \A b \in Boxes : status[b] = "none"
  <2>0. reconciler \in Reconcilers /\ row \in Rows /\ status \in Listings
    BY <1>1 DEF TypeOK
  <2>1. CASE ListRecords
    BY <2>0, <2>1 DEF ListRecords, Reconciling, Reconcilers
  <2>2. CASE ListItems
    <3> DEFINE r == [reconciler EXCEPT !.at = "items", !.items = status]
               i(at) == [ReconcilerIdle EXCEPT !.at = at]
    <3>1. r \in Reconcilers /\ r.at = "items" /\ r.items = status
            /\ r.records = reconciler.records
      BY <2>0 DEF Reconcilers
    <3>2. \A at \in {"idle", "done"} :
            /\ i(at) \in Reconcilers /\ i(at).at = at
            /\ \A b \in Boxes : i(at).items[b] = "none" /\ i(at).records[b].state = "absent"
      BY Constants DEF Reconcilers
    <3>3. CASE r.records = NoRows /\ r.items = ReconcilerIdle.items
      <4>1. PICK at \in {"idle", "done"} : reconciler' = i(at)
        BY <2>2, <3>3 DEF ListItems, Continued
      <4>2. \A b \in Boxes : r.items[b] = "none"
        BY <3>3, Constants
      <4> HIDE DEF r, i
      <4> QED BY <3>1, <3>2, <4>1, <4>2
    <3>4. CASE ~(r.records = NoRows /\ r.items = ReconcilerIdle.items)
      <4>1. reconciler' = r
        BY <2>2, <3>4 DEF ListItems, Continued
      <4> HIDE DEF r
      <4> QED BY <3>1, <4>1
    <3> QED BY <3>3, <3>4
  <2> QED BY <2>1, <2>2
<1>4. TypeOK'
  BY <1>1, <1>2, <1>3 DEF TypeOK
<1>5. Room'
  BY <1>1, <1>2, <1>4, RoomUntouched DEF Live
<1>6. Drawn'
  BY <1>1, <1>2, <1>3 DEF Drawn, Undrawn
<1>7. ListingSound'
  BY <1>2, <1>3 DEF ListingSound, Live
<1>8. StartSound'
  BY <1>2, <1>3 DEF StartSound, Live
<1>9. PlaneSound' /\ NothingForgotten'
  BY <1>1, <1>2 DEF PlaneSound, NothingForgotten, Live, Counted, InState, InMaking
<1> QED BY <1>4, <1>5, <1>6, <1>7, <1>8, <1>9, PartsNext

(* It has dealt with b, which is gone or has a row that counts. *)
LEMMA ReconciledSound ==
    ASSUME FleetSound, NEW b \in Boxes, plane # "down", reconciler.at = "items", Passed(b),
           UNCHANGED <<plane, token, worker, joining, making, lost, scaler, reaper>>,
           status' \in Listings, status'[b] \in {status[b], "none"},
           row' \in Rows,
           \A c \in Boxes \ {b} : status'[c] = status[c] /\ row'[c] = row[c],
           status'[b] = "none" \/ row'[b].state \notin {"absent", "missing"},
           token[b] # "unminted"
    PROVE  FleetSound'
<1>1. TypeOK /\ Drawn /\ ListingSound /\ StartSound /\ PlaneSound /\ NothingForgotten /\ Room
  BY Parts
<1>2. /\ reconciler' \in Reconcilers
      /\ reconciler'.at \in {"items", "idle", "done"}
      /\ reconciler'.items[b] = "none" /\ reconciler'.records[b].state = "absent"
      /\ \A c \in Boxes \ {b} :
           /\ reconciler'.at = "items" => /\ reconciler'.items[c] = reconciler.items[c]
                                          /\ reconciler'.records[c] = reconciler.records[c]
           /\ reconciler'.at # "items" => /\ reconciler.items[c] = "none"
                                          /\ reconciler'.items[c] = "none"
                                          /\ reconciler'.records[c].state = "absent"
  BY <1>1, PassedFacts
<1>3. TypeOK'
  BY <1>1, <1>2 DEF TypeOK
<1>4. /\ Live' \subseteq Live /\ (b \in Live' => b \in Counted')
      /\ \A c \in Boxes \ {b} : (c \in Live' <=> c \in Live) /\ (c \in Counted' <=> c \in Counted)
  BY DEF Live, Counted, InState
<1>5. Room'
  BY <1>1, <1>3, <1>4, RoomUntouched
<1>6. Drawn'
  <2> SUFFICES ASSUME NEW c \in Boxes, token[c] = "unminted" PROVE Undrawn(c)'
    BY DEF Drawn, Undrawn
  <2>1. c # b /\ Undrawn(c)
    BY <1>1 DEF Drawn
  <2> QED BY <1>2, <2>1 DEF Undrawn
<1>7. ListingSound'
  BY <1>1, <1>2, <1>4, Sets DEF ListingSound
<1>8. StartSound'
  BY <1>1, <1>2, <1>4, Sets DEF StartSound
<1>9. PlaneSound'
  BY <1>1 DEF PlaneSound, InMaking
<1>10. NothingForgotten'
  <2>1. InMaking' = InMaking
    BY DEF InMaking
  <2> QED BY <1>1, <1>4, <2>1, Sets DEF NothingForgotten
<1> QED BY <1>3, <1>5, <1>6, <1>7, <1>8, <1>9, <1>10, PartsNext

LEMMA ReconcileSound ==
    ASSUME FleetSound, NEW b \in Boxes,
           \/ ReconcileOrphan(b) \/ ReconcileTerminating(b)
           \/ ReconcileKnown(b) \/ ReconcileUnseen(b)
    PROVE  FleetSound'
<1>1. TypeOK /\ Undrawn(b) /\ ListingSound
  BY DEF FleetSound
<1>2. /\ plane # "down" /\ reconciler.at = "items" /\ Passed(b)
      /\ UNCHANGED <<plane, token, worker, joining, making, lost, scaler, reaper>>
  BY DEF ReconcileOrphan, ReconcileTerminating, ReconcileKnown, ReconcileUnseen, Seen,
         Reconciling, Workers, Creation
<1>3. token[b] # "unminted"
  BY <1>1 DEF Undrawn, ReconcileOrphan, ReconcileTerminating, ReconcileKnown,
              ReconcileUnseen, Seen, Unseen, Record
<1>4. status \in Listings /\ row \in Rows
  BY <1>1 DEF TypeOK
<1>5. /\ status' \in Listings /\ status'[b] \in {status[b], "none"} /\ row' \in Rows
      /\ \A c \in Boxes \ {b} : status'[c] = status[c] /\ row'[c] = row[c]
      /\ status'[b] = "none" \/ row'[b].state \notin {"absent", "missing"}
  <2>1. CASE UNCHANGED row /\ Terminate(b)
    BY <1>1, <1>4, <2>1, TerminateFacts
  <2>2. CASE /\ ReconcileOrphan(b) /\ UNCHANGED status
             /\ row' = [row EXCEPT ![b] = [NoRow EXCEPT !.state = reconciler.items[b]]]
    <3>1. reconciler.items[b] = "running"
      BY <1>1, <2>2, RowFields DEF ReconcileOrphan, Seen
    <3>2. /\ [NoRow EXCEPT !.state = reconciler.items[b]] \in RowTypes
          /\ [NoRow EXCEPT !.state = reconciler.items[b]].state = "running"
      BY <3>1 DEF NoRow, RowTypes, RowStates
    <3> QED BY <1>1, <1>4, <2>2, <3>2, WrittenFacts
  <2>3. CASE ReconcileKnown(b)
    <3>1. reconciler.items[b] = "running" /\ reconciler.records[b] \in RowTypes
      BY <1>1, <2>3, RowFields DEF ReconcileKnown, Seen
    <3>2. /\ [Record(b) EXCEPT !.state = reconciler.items[b]] \in RowTypes
          /\ [Record(b) EXCEPT !.state = reconciler.items[b]].state = "running"
      BY <3>1 DEF Record, RowTypes, RowStates
    <3>3. UNCHANGED status /\ row' = [row EXCEPT ![b] = [Record(b) EXCEPT !.state = reconciler.items[b]]]
      BY <2>3 DEF ReconcileKnown
    <3> QED BY <1>1, <1>4, <3>2, <3>3, WrittenFacts
  <2>4. CASE ReconcileUnseen(b)
    <3>1. reconciler.items[b] = "none"
      BY <2>4, Constants DEF ReconcileUnseen, Unseen
    <3>2. status[b] = "none"
      BY <1>1, <1>2, <2>4, <3>1 DEF ReconcileUnseen, Unseen, Record, ListingSound, Live
    <3>3. UNCHANGED status
      BY <2>4 DEF ReconcileUnseen
    <3>4. CASE row' = [row EXCEPT ![b] = NoRow]
      BY <1>1, <1>4, <3>2, <3>3, <3>4, Constants, WrittenFacts
    <3>5. CASE row' = WithState(b, "missing")
      BY <1>1, <1>4, <3>2, <3>3, <3>5, WithStateFacts DEF RowStates
    <3> QED BY <2>4, <3>4, <3>5 DEF ReconcileUnseen
  <2> QED BY <2>1, <2>2, <2>3, <2>4 DEF ReconcileOrphan, ReconcileTerminating
<1> QED BY <1>2, <1>3, <1>5, ReconciledSound

-----------------------------------------------------------------------------
(* SandboxReaper, and the steps of the autoscaler that create nothing.     *)

(* A row that is there gets another state, and its sandbox may go. *)
LEMMA StateSetSound ==
    ASSUME FleetSound, NEW b \in Boxes, NEW s \in {"draining", "terminating"},
           plane = "up", row[b].state # "absent", row' = WithState(b, s),
           Terminate(b) \/ UNCHANGED status,
           UNCHANGED <<plane, token, worker, joining, making, lost, reconciler>>,
           reaper' \subseteq Boxes, scaler' \in Scalers, scaler'.make = scaler.make,
           scaler'.at = "idle" => scaler' = ScalerIdle,
           \/ scaler'.expired = scaler.expired
           \/ scaler'.expired = scaler.expired \ {b} /\ Terminate(b)
    PROVE  FleetSound'
<1>1. TypeOK /\ Drawn /\ Room
  BY Parts
<1>2. /\ row' \in Rows /\ row'[b].state = s
      /\ \A c \in Boxes \ {b} : row'[c] = row[c]
  BY <1>1, WithStateFacts DEF RowStates
<1>3. /\ status' \in Listings /\ (Terminate(b) => status'[b] = "none")
      /\ \A c \in Boxes : status'[c] # "none" => status[c] # "none"
  BY <1>1, TerminateFacts DEF TypeOK
<1>4. TypeOK'
  BY <1>1, <1>2, <1>3 DEF TypeOK
<1>5. /\ Live' \subseteq Live /\ InMaking' = InMaking /\ Counted \subseteq Counted'
      /\ Terminate(b) => b \notin Live'
  BY <1>2, <1>3 DEF Live, InMaking, Counted, InState
<1>6. Room'
  <2>1. /\ Cardinality(InMaking) \in Nat /\ scaler.make \in Nat
        /\ Cardinality(InMaking) <= scaler.make /\ (InMaking # {} => scaler.expired = {})
    BY <1>1, Sets, Counting, ScalerFields DEF Room, RoomToMake
  <2>2. (Live' \ lost') \ scaler'.expired \subseteq (Live \ lost) \ scaler.expired
    BY <1>5
  <2> QED BY <1>1, <1>4, <1>5, <2>1, <2>2, RoomKept
<1>7. \A c \in Boxes : token'[c] = "unminted" => row'[c] = row[c]
  BY <1>1, <1>2 DEF Drawn, Undrawn
<1> QED BY <1>4, <1>5, <1>6, <1>7, ServingKept

LEMMA ReapSound ==
    ASSUME FleetSound, Reap
    PROVE  FleetSound'
<1>1. TypeOK /\ Room /\ PlaneSound
  BY Parts
<1>2. CASE ReapPlan
  <2>1. /\ plane = "up" /\ reaper' \subseteq Boxes
        /\ UNCHANGED <<plane, status, row, token, worker, joining, making, lost, scaler,
                       reconciler>>
    BY <1>2 DEF ReapPlan, Reaping, Workers, Creation, InState
  <2>2. TypeOK'
    BY <1>1, <2>1 DEF TypeOK
  <2>3. Live' = Live /\ Counted' = Counted /\ InMaking' = InMaking
    BY <2>1 DEF Live, Counted, InState, InMaking
  <2>4. Room'
    BY <1>1, <2>1, <2>2, <2>3, RoomUntouched
  <2> QED BY <1>1, <2>1, <2>2, <2>3, <2>4, ServingKept DEF PlaneSound
<1>3. ASSUME NEW b \in Boxes, ReapTerminate(b)
      PROVE  FleetSound'
  <2>1. /\ plane = "up" /\ row[b].state # "absent" /\ row' = WithState(b, "terminating")
        /\ Terminate(b) /\ reaper' = reaper \ {b}
        /\ UNCHANGED <<plane, token, worker, joining, making, lost, scaler, reconciler>>
    BY <1>3 DEF ReapTerminate, Reaping, Workers, Creation
  <2>2. /\ reaper' \subseteq Boxes /\ scaler' \in Scalers
        /\ scaler'.at = "idle" => scaler' = ScalerIdle
    BY <1>1, <2>1 DEF TypeOK, PlaneSound
  <2> QED BY <2>1, <2>2, StateSetSound
<1>4. ASSUME NEW b \in Boxes, ReapFails(b)
      PROVE  FleetSound'
  BY <1>4, EndsSound DEF ReapFails, TerminateFails, NotFound
<1> QED BY <1>2, <1>3, <1>4 DEF Reap

-----------------------------------------------------------------------------
(* QueueAutoscaler.                                                        *)

(* capacityLimit leaves what is counted, and what is created, within the   *)
(* limit.                                                                  *)
LEMMA CapacityIsLimited ==
    ASSUME NEW n \in Int, n > 0, NEW counted \in Int, NEW u \in Nat
    PROVE  LET make == Lesser(ScaleUp(n, counted), u)
           IN  /\ make \in 0 .. MaxScaleUpPerRun
               /\ make = 0 \/ counted + make <= MaxTotalSandboxes
BY Constants DEF Lesser, ScaleUp, CapacityLimit

LEMMA ScalePlanSound ==
    ASSUME FleetSound, ScalePlan
    PROVE  FleetSound'
<1>1. TypeOK /\ PlaneSound /\ NothingForgotten /\ Room
  BY Parts
<1>2. /\ plane = "up" /\ scaler = ScalerIdle
      /\ UNCHANGED <<plane, status, row, token, worker, joining, making, lost, reconciler,
                     reaper>>
  BY <1>1 DEF ScalePlan, Scaling, Workers, Creation, PlaneSound
<1>3. InMaking = {} /\ Cardinality(InMaking) = 0
  <2>1. Cardinality(InMaking) <= 0 /\ Cardinality(InMaking) \in Nat /\ IsFiniteSet(InMaking)
    BY <1>1, <1>2, Sets, Counting, Constants DEF Room, RoomToMake
  <2>2. Cardinality(InMaking) = 0
    BY <2>1
  <2> QED BY <2>1, <2>2, FS_EmptySet
<1>4. PICK seen \in Observations, held \in BOOLEAN, drain \in SUBSET InState({"running"}),
           expired \in SUBSET {b \in InState({"running"}) : ~Registered(b)} :
        LET gone    == Cardinality(expired)
            short   == seen[1] - (Current - gone)
            counted == Cardinality(Counted) - gone
        IN  scaler' = Scaled([at |-> "act", expired |-> expired, drain |-> drain,
                  make |-> IF short > 0 /\ ~held
                           THEN Lesser(ScaleUp(short, counted), Cardinality(Unminted))
                           ELSE 0])
  BY DEF ScalePlan
<1>5. /\ expired \subseteq Boxes /\ expired \subseteq Counted /\ drain \subseteq Boxes
      /\ Unminted \subseteq Boxes /\ InState({"running", "draining", "terminating"}) \subseteq Boxes
  BY DEF InState, Counted, Unminted
<1> DEFINE gone    == Cardinality(expired)
           short   == seen[1] - (Current - gone)
           counted == Cardinality(Counted) - gone
           make    == IF short > 0 /\ ~held
                      THEN Lesser(ScaleUp(short, counted), Cardinality(Unminted)) ELSE 0
           s == [at |-> "act", expired |-> expired, drain |-> drain, make |-> make]
<1>6. gone \in Nat /\ Current \in Nat /\ Cardinality(Unminted) \in Nat /\ Cardinality(Counted) \in Nat
  BY <1>5, Sets, Counting DEF Current
<1>7. seen[1] \in Int
  BY FleetAssumption DEF Observations
<1>8. make \in 0 .. MaxScaleUpPerRun /\ (make = 0 \/ counted + make <= MaxTotalSandboxes)
  <2>1. short \in Int /\ counted \in Int
    BY <1>6, <1>7
  <2>2. CASE short > 0 /\ ~held
    <3>1. make = Lesser(ScaleUp(short, counted), Cardinality(Unminted))
      BY <2>2
    <3> HIDE DEF gone, short, counted, make
    <3> QED BY <1>6, <2>1, <2>2, <3>1, CapacityIsLimited
  <2>3. CASE ~(short > 0 /\ ~held)
    <3>1. make = 0
      BY <2>3
    <3> HIDE DEF make
    <3> QED BY <3>1, Constants
  <2> QED BY <2>2, <2>3
<1>9. /\ scaler' \in Scalers /\ scaler'.make = make /\ scaler'.expired = expired
      /\ scaler'.at = "idle" => scaler' = ScalerIdle
  <2>1. scaler' = Scaled(s)
    BY <1>4
  <2> HIDE DEF make
  <2>2. s \in Scalers /\ s.at = "act" /\ s.make = make /\ s.expired = expired
    BY <1>5, <1>8 DEF Scalers
  <2> HIDE DEF s
  <2> QED BY <2>1, <2>2, ScaledFacts
<1>10. TypeOK'
  BY <1>1, <1>2, <1>9 DEF TypeOK
<1>11. Live' = Live /\ Counted' = Counted /\ InMaking' = InMaking
  BY <1>2 DEF Live, Counted, InState, InMaking
<1>12. Room'
  <2> DEFINE rest == (Live \ lost) \ expired
  <2>1. rest \subseteq Counted \ expired /\ rest \subseteq Live \ lost
    BY <1>1, <1>2, <1>3 DEF NothingForgotten
  <2>2. Counted \ expired \subseteq Boxes /\ Live \ lost \subseteq Boxes /\ rest \subseteq Boxes
    BY Sets
  <2> HIDE DEF rest
  <2>3. /\ Cardinality(rest) \in Nat /\ Cardinality(Live \ lost) \in Nat
        /\ Cardinality(rest) <= Cardinality(Counted \ expired)
        /\ Cardinality(rest) <= Cardinality(Live \ lost)
    BY <2>1, <2>2, Counting, CountingSubset
  <2>4. Cardinality(Counted \ expired) = counted
    BY <1>5, Sets, CountingRest
  <2>5. Cardinality(Live \ lost) <= MaxTotalSandboxes
    BY <1>1 DEF Room, FleetBound
  <2>6. Cardinality(rest) + make <= MaxTotalSandboxes
    <3>1. counted \in Int
      BY <1>6
    <3> HIDE DEF counted, make
    <3> QED BY <1>8, <2>3, <2>4, <2>5, <3>1, Constants
  <2>7. FleetBound'
    BY <1>2, <1>11, <2>5 DEF FleetBound
  <2>8. RoomToMake'
    <3>1. (Live' \ lost') \ scaler'.expired = rest
      BY <1>2, <1>9, <1>11 DEF rest
    <3> HIDE DEF make
    <3>2. scaler'.make = make /\ make \in Nat
      BY <1>8, <1>9
    <3>3. InMaking' = {} /\ Cardinality(InMaking') = 0
      BY <1>3, <1>11
    <3>4. /\ Cardinality(rest) + scaler'.make <= MaxTotalSandboxes + Cardinality(InMaking')
          /\ Cardinality(InMaking') <= scaler'.make
      BY <2>3, <2>6, <3>2, <3>3, Constants
    <3> QED BY <3>1, <3>3, <3>4 DEF RoomToMake
  <2> QED BY <2>7, <2>8 DEF Room
<1> QED BY <1>2, <1>9, <1>10, <1>11, <1>12, ServingKept

LEMMA ScaleStepSound ==
    ASSUME FleetSound, NEW b \in Boxes, ScaleTimeout(b) \/ ScaleDrain(b) \/ ScaleFails(b)
    PROVE  FleetSound'
<1>1. TypeOK /\ scaler \in Scalers /\ reaper \subseteq Boxes
  BY DEF FleetSound, TypeOK
<1>2. CASE ScaleTimeout(b)
  <2>1. /\ plane = "up" /\ scaler.at = "act" /\ b \in scaler.expired
        /\ row[b].state # "absent" /\ row' = WithState(b, "terminating") /\ Terminate(b)
        /\ scaler' = Scaled([scaler EXCEPT !.expired = @ \ {b}])
        /\ UNCHANGED <<plane, token, worker, joining, making, lost, reconciler, reaper>>
    BY <1>2 DEF ScaleTimeout, Scaling, Workers, Creation
  <2> DEFINE s == [scaler EXCEPT !.expired = @ \ {b}]
  <2>2. /\ s \in Scalers /\ s.at = "act" /\ s.make = scaler.make
        /\ s.expired = scaler.expired \ {b}
    BY <1>1, <2>1 DEF Scalers
  <2> HIDE DEF s
  <2>3. /\ scaler' \in Scalers /\ scaler'.make = scaler.make
        /\ scaler'.expired = scaler.expired \ {b}
        /\ scaler'.at = "idle" => scaler' = ScalerIdle
    BY <2>1, <2>2, ScaledFacts DEF s
  <2> QED BY <1>1, <2>1, <2>3, StateSetSound
<1>3. CASE ScaleDrain(b)
  <2>1. /\ plane = "up" /\ scaler.at = "act"
        /\ row[b].state # "absent" /\ row' = WithState(b, "draining")
        /\ scaler' = Scaled([scaler EXCEPT !.drain = @ \ {b}])
        /\ UNCHANGED <<plane, status, token, worker, joining, making, lost, reconciler, reaper>>
    BY <1>3 DEF ScaleDrain, Scaling, Workers, Creation
  <2> DEFINE s == [scaler EXCEPT !.drain = @ \ {b}]
  <2>2. /\ s \in Scalers /\ s.at = "act" /\ s.make = scaler.make
        /\ s.expired = scaler.expired
    BY <1>1, <2>1 DEF Scalers
  <2> HIDE DEF s
  <2>3. /\ scaler' \in Scalers /\ scaler'.make = scaler.make
        /\ scaler'.expired = scaler.expired
        /\ scaler'.at = "idle" => scaler' = ScalerIdle
    BY <2>1, <2>2, ScaledFacts DEF s
  <2> QED BY <1>1, <2>1, <2>3, StateSetSound
<1>4. CASE ScaleFails(b)
  BY <1>4, EndsSound DEF ScaleFails, TerminateFails, NotFound
<1> QED BY <1>2, <1>3, <1>4

-----------------------------------------------------------------------------
(* Creations.                                                              *)

LEMMA SomeLeft ==
    ASSUME NEW i \in Nat, NEW m \in Nat, i # 0, i <= m
    PROVE  m > 0
OBVIOUS

(* What comes to life when a of them live, of m to make of which i are in  *)
(* the making.                                                             *)
LEMMA OneMore ==
    ASSUME NEW a \in Nat, NEW m \in Nat, NEW i \in Nat, NEW max \in Nat,
           a + m <= max + i, i < m,
           NEW a1 \in Nat, a1 <= a + 1, NEW a2 \in Nat, a2 <= a1, NEW i2, i2 = i + 1
    PROVE  a2 <= max /\ a2 + m <= max + i2 /\ i2 <= m
OBVIOUS

LEMMA CreatedFacts ==
    ASSUME FleetSound, NEW b \in Boxes, scaler.at = "act", scaler.make > 0, Created(b)
    PROVE  /\ making' \in [Boxes -> {"no", "called", "keep", "plan"}]
           /\ making'[b] = "no" /\ \A c \in Boxes \ {b} : making'[c] = making[c]
           /\ scaler' \in Scalers /\ scaler'.make = scaler.make - 1
           /\ scaler'.expired = scaler.expired
           /\ scaler'.at = "idle" => scaler' = ScalerIdle
<1>1. TypeOK /\ scaler \in Scalers /\ scaler.make \in 0 .. MaxScaleUpPerRun
  BY ScalerFields DEF FleetSound, TypeOK
<1> DEFINE s == [scaler EXCEPT !.make = @ - 1]
<1>2. scaler.make - 1 \in 0 .. MaxScaleUpPerRun
  BY <1>1, Constants
<1>3. s \in Scalers /\ s.at = "act" /\ s.make = scaler.make - 1 /\ s.expired = scaler.expired
  BY <1>1, <1>2 DEF Scalers
<1>4. scaler' = Scaled(s)
  BY DEF Created
<1> HIDE DEF s
<1>5. /\ scaler' \in Scalers /\ scaler'.make = scaler.make - 1
      /\ scaler'.expired = scaler.expired
      /\ scaler'.at = "idle" => scaler' = ScalerIdle
  BY <1>3, <1>4, ScaledFacts
<1>6. /\ making' \in [Boxes -> {"no", "called", "keep", "plan"}]
      /\ making'[b] = "no" /\ \A c \in Boxes \ {b} : making'[c] = making[c]
  BY <1>1 DEF Created, TypeOK
<1> QED BY <1>5, <1>6

(* A creation that has made its sandbox ends: the sandbox is recorded, is  *)
(* terminated, or is left behind.                                          *)
LEMMA CreationEnds ==
    ASSUME FleetSound, NEW b \in Boxes, plane = "up", scaler.at = "act", making[b] # "no",
           Created(b), UNCHANGED <<plane, joining, reconciler, reaper>>,
           status' \in Listings, Live' \subseteq Live, row' \in Rows,
           \A c \in Boxes \ {b} : row'[c] = row[c] /\ token'[c] = token[c],
           token'[b] \in {token[b], "spent"},
           token' \in [Boxes -> {"unminted", "valid", "spent"}],
           worker' \in [Boxes -> {"none", "alive", "quiet", "revoked", "dead"}],
           lost \subseteq lost', lost' \subseteq Boxes,
           b \in Live' => b \in Counted' \/ b \in lost'
    PROVE  FleetSound'
<1>1. TypeOK /\ Drawn /\ Room
  BY Parts
<1>2. InMaking # {} /\ b \in InMaking
  BY DEF InMaking
<1>3. /\ Cardinality(InMaking) \in Nat /\ Cardinality(InMaking) # 0
      /\ Cardinality(InMaking) <= scaler.make /\ scaler.make \in Nat /\ scaler.expired = {}
  BY <1>1, <1>2, Sets, Counting, FS_EmptySet, ScalerFields DEF Room, RoomToMake
<1>4. scaler.make > 0
  BY <1>3, SomeLeft
<1>5. /\ making' \in [Boxes -> {"no", "called", "keep", "plan"}]
      /\ making'[b] = "no" /\ \A c \in Boxes \ {b} : making'[c] = making[c]
      /\ scaler' \in Scalers /\ scaler'.make = scaler.make - 1
      /\ scaler'.expired = scaler.expired
      /\ scaler'.at = "idle" => scaler' = ScalerIdle
  BY <1>4, CreatedFacts
<1>6. TypeOK'
  BY <1>1, <1>5 DEF TypeOK
<1>7. InMaking' = InMaking \ {b}
  BY <1>5 DEF InMaking
<1>8. Cardinality(InMaking') = Cardinality(InMaking) - 1
  BY <1>2, <1>7, Sets, CountingOne
<1>9. Room'
  <2>1. /\ scaler'.make + Cardinality(InMaking) <= scaler.make + Cardinality(InMaking')
        /\ Cardinality(InMaking') <= scaler'.make
    BY <1>3, <1>5, <1>8
  <2>2. /\ (Live' \ lost') \ scaler'.expired \subseteq (Live \ lost) \ scaler.expired
        /\ scaler'.expired = {}
    BY <1>3, <1>5
  <2> QED BY <1>1, <1>6, <2>1, <2>2, RoomKept
<1>10. /\ Counted \cap Live' \subseteq Counted' \cup (lost' \cap {b})
       /\ \A c \in Boxes \ {b} : c \in Counted => c \in Counted'
  BY DEF Counted, InState
<1>11. token[b] # "unminted"
  BY <1>1 DEF Drawn, Undrawn
<1>12. Drawn'
  <2> SUFFICES ASSUME NEW c \in Boxes, token'[c] = "unminted" PROVE Undrawn(c)'
    BY DEF Drawn, Undrawn
  <2>1. c # b /\ Undrawn(c) /\ token[c] = "unminted"
    BY <1>1, <1>11 DEF Drawn
  <2>2. status'[c] = "none"
    BY <2>1 DEF Undrawn, Live
  <2> QED BY <1>5, <2>1, <2>2 DEF Undrawn
<1>13. NothingForgotten'
  BY <1>7, <1>10, Sets DEF FleetSound, NothingForgotten
<1>14. ListingSound' /\ StartSound' /\ PlaneSound'
  BY <1>5 DEF FleetSound, ListingSound, StartSound, PlaneSound
<1> QED BY <1>6, <1>9, <1>12, <1>13, <1>14, PartsNext

LEMMA RevokeFacts ==
    ASSUME TypeOK, NEW b \in Boxes, Revoke(b)
    PROVE  /\ token' \in [Boxes -> {"unminted", "valid", "spent"}] /\ token'[b] = "spent"
           /\ \A c \in Boxes \ {b} : token'[c] = token[c]
           /\ worker' \in [Boxes -> {"none", "alive", "quiet", "revoked", "dead"}]
           /\ UNCHANGED joining
BY DEF TypeOK, Revoke

LEMMA CreationEndsSound ==
    ASSUME FleetSound, NEW b \in Boxes,
           CreateFails(b) \/ CreateRecord(b) \/ CreateUnrecorded(b)
    PROVE  FleetSound'
<1>1. TypeOK /\ status \in Listings /\ row \in Rows /\ lost \subseteq Boxes
      /\ token \in [Boxes -> {"unminted", "valid", "spent"}]
      /\ worker \in [Boxes -> {"none", "alive", "quiet", "revoked", "dead"}]
  BY DEF FleetSound, TypeOK
<1>2. /\ plane = "up" /\ scaler.at = "act" /\ making[b] # "no" /\ Created(b)
      /\ UNCHANGED <<plane, reconciler, reaper>>
  BY DEF CreateFails, CreateRecord, CreateUnrecorded, Creating, Scaling
<1>3. CASE CreateFails(b)
  <2>1. Revoke(b) /\ lost' = lost \cup {b} /\ UNCHANGED <<status, row>>
    BY <1>3 DEF CreateFails, Leave
  <2>2. Live' = Live
    BY <2>1 DEF Live
  <2> QED BY <1>1, <1>2, <2>1, <2>2, RevokeFacts, CreationEnds
<1>4. CASE CreateRecord(b)
  <2> DEFINE r == [state |-> "running", bound |-> IF making[b] = "keep" THEN "registered" ELSE "planned"]
  <2>1. row' = [row EXCEPT ![b] = r] /\ UNCHANGED <<status, token, worker, joining, lost>>
    BY <1>4 DEF CreateRecord, Workers
  <2>2. r \in RowTypes /\ r.state = "running"
    BY DEF RowTypes, RowStates
  <2> HIDE DEF r
  <2>3. row' \in Rows /\ row'[b].state = "running" /\ \A c \in Boxes \ {b} : row'[c] = row[c]
    BY <1>1, <2>1, <2>2, WrittenFacts
  <2>4. Live' = Live /\ b \in Counted'
    BY <2>1, <2>3 DEF Live, Counted, InState
  <2> QED BY <1>1, <1>2, <2>1, <2>3, <2>4, CreationEnds
<1>5. CASE CreateUnrecorded(b) /\ Terminate(b) /\ UNCHANGED lost
  <2>1. Revoke(b) /\ UNCHANGED row
    BY <1>5 DEF CreateUnrecorded
  <2>2. status' \in Listings /\ Live' = Live \ {b}
    BY <1>1, <1>5, TerminateFacts DEF Live
  <2> QED BY <1>1, <1>2, <1>5, <2>1, <2>2, RevokeFacts, CreationEnds
<1>6. CASE CreateUnrecorded(b) /\ Leave(b) /\ UNCHANGED status
  <2>1. Revoke(b) /\ lost' = lost \cup {b} /\ UNCHANGED <<status, row>>
    BY <1>6 DEF CreateUnrecorded, Leave
  <2>2. Live' = Live
    BY <2>1 DEF Live
  <2> QED BY <1>1, <1>2, <2>1, <2>2, RevokeFacts, CreationEnds
<1> QED BY <1>3, <1>4, <1>5, <1>6 DEF CreateUnrecorded

(* CreateSandbox runs the sandbox; there is room for it, because fewer     *)
(* are in the making than the run still has to make.                       *)
LEMMA CalledSound ==
    ASSUME FleetSound, NEW b \in Boxes, CreateCall(b), token'[b] = "valid"
    PROVE  FleetSound'
<1>1. TypeOK /\ Drawn /\ ListingSound /\ NothingForgotten /\ Room
  BY Parts
<1>2. /\ plane = "up" /\ scaler.at = "act" /\ scaler.expired = {} /\ making[b] = "no"
      /\ Cardinality(InMaking) < Lesser(scaler.make, ProvisioningConcurrency)
      /\ token[b] = "unminted"
      /\ UNCHANGED <<plane, row, worker, joining, lost, reconciler, reaper>>
  BY DEF CreateCall, Creating, Scaling, Unminted
<1>3. /\ token' = [token EXCEPT ![b] = "valid"]
      /\ status' = [status EXCEPT ![b] = "running"]
      /\ making' = [making EXCEPT ![b] = "called"]
      /\ UNCHANGED scaler
  <2>1. ~(token' = [token EXCEPT ![b] = "spent"])
    BY <1>1 DEF TypeOK
  <2> QED BY <2>1 DEF CreateCall
<1>4. /\ token' \in [Boxes -> {"unminted", "valid", "spent"}] /\ token'[b] = "valid"
      /\ \A c \in Boxes \ {b} : token'[c] = token[c]
  BY <1>1, <1>3 DEF TypeOK
<1>5. /\ status' \in Listings /\ status'[b] = "running"
      /\ \A c \in Boxes \ {b} : status'[c] = status[c]
  BY <1>1, <1>3 DEF TypeOK, Listings
<1>6. /\ making' \in [Boxes -> {"no", "called", "keep", "plan"}] /\ making'[b] = "called"
      /\ \A c \in Boxes \ {b} : making'[c] = making[c]
  BY <1>1, <1>3 DEF TypeOK
<1>7. TypeOK'
  BY <1>1, <1>2, <1>3, <1>4, <1>5, <1>6 DEF TypeOK
<1>8. /\ Live' = Live \cup {b} /\ b \notin Live
      /\ InMaking' = InMaking \cup {b} /\ b \notin InMaking /\ Counted' = Counted
      /\ reconciler.records[b].state = "absent"
  <2>1. status[b] = "none" /\ reconciler.records[b].state = "absent"
    BY <1>1, <1>2 DEF Drawn, Undrawn
  <2>2. Live' = Live \cup {b} /\ b \notin Live
    BY <1>5, <2>1 DEF Live
  <2>3. InMaking' = InMaking \cup {b} /\ b \notin InMaking
    BY <1>2, <1>6 DEF InMaking
  <2>4. Counted' = Counted
    BY <1>2 DEF Counted, InState
  <2> QED BY <2>1, <2>2, <2>3, <2>4
<1>9. Room'
  <2> DEFINE alive == Live \ lost
             alive2 == (Live \cup {b}) \ lost
  <2>1. /\ alive \subseteq Boxes /\ alive2 \subseteq alive \cup {b} /\ alive \cup {b} \subseteq Boxes
        /\ alive2 \subseteq Boxes
    BY Sets
  <2>2. /\ alive \ scaler.expired = alive /\ Live' \ lost' = alive2
        /\ (Live' \ lost') \ scaler'.expired = alive2
    BY <1>2, <1>3, <1>8
  <2>3. /\ Cardinality(alive) + scaler.make <= MaxTotalSandboxes + Cardinality(InMaking)
    <3>1. Cardinality(alive \ scaler.expired) + scaler.make <= MaxTotalSandboxes + Cardinality(InMaking)
      BY <1>1 DEF Room, RoomToMake
    <3> QED BY <2>2, <3>1
  <2> HIDE DEF alive, alive2
  <2>4. /\ Cardinality(alive) \in Nat /\ Cardinality(alive2) \in Nat
        /\ Cardinality(alive2) <= Cardinality(alive \cup {b})
        /\ Cardinality(InMaking) \in Nat /\ Cardinality(alive \cup {b}) \in Nat
    BY <2>1, Sets, Counting, CountingSubset
  <2>5. Cardinality(alive \cup {b}) <= Cardinality(alive) + 1
    <3>1. CASE b \in alive
      <4>1. alive \cup {b} = alive
        BY <3>1
      <4>2. Cardinality(alive \cup {b}) = Cardinality(alive)
        BY <4>1
      <4> QED BY <2>4, <4>2
    <3>2. CASE b \notin alive
      <4>1. Cardinality(alive \cup {b}) = Cardinality(alive) + 1
        BY <2>1, <3>2, CountingOne
      <4> QED BY <2>4, <4>1
    <3> QED BY <3>1, <3>2
  <2>6. Cardinality(InMaking') = Cardinality(InMaking) + 1
    BY <1>8, Sets, CountingOne
  <2>7. scaler.make \in Nat /\ Cardinality(InMaking) < scaler.make
    BY <1>1, <1>2, <2>4, ScalerFields, Constants DEF Lesser
  <2>8. /\ Cardinality(alive2) <= MaxTotalSandboxes
        /\ Cardinality(alive2) + scaler.make <= MaxTotalSandboxes + Cardinality(InMaking')
        /\ Cardinality(InMaking') <= scaler.make
    BY <2>3, <2>4, <2>5, <2>6, <2>7, Constants, OneMore
  <2>9. RoomToMake'
    BY <1>2, <1>3, <2>2, <2>8 DEF RoomToMake
  <2>10. FleetBound'
    BY <2>2, <2>8 DEF FleetBound
  <2> QED BY <2>9, <2>10 DEF Room
<1>10. Drawn'
  <2> SUFFICES ASSUME NEW c \in Boxes, token'[c] = "unminted" PROVE Undrawn(c)'
    BY DEF Drawn, Undrawn
  <2>1. c # b /\ Undrawn(c) /\ token[c] = "unminted"
    BY <1>1, <1>4 DEF Drawn
  <2> QED BY <1>2, <1>5, <1>6, <2>1 DEF Undrawn
<1>11. ListingSound'
  BY <1>1, <1>2, <1>8 DEF ListingSound
<1>12. NothingForgotten'
  BY <1>1, <1>2, <1>8 DEF NothingForgotten
<1>13. StartSound' /\ PlaneSound'
  BY <1>2, <1>3 DEF StartSound, PlaneSound
<1> QED BY <1>7, <1>9, <1>10, <1>11, <1>12, <1>13, PartsNext

(* CreateSandbox fails at once: one less to make.                          *)
LEMMA RefusedSound ==
    ASSUME FleetSound, NEW b \in Boxes, CreateCall(b), token'[b] # "valid"
    PROVE  FleetSound'
<1>1. TypeOK /\ Room
  BY Parts
<1>2. /\ plane = "up" /\ scaler.at = "act" /\ scaler.expired = {} /\ making[b] = "no"
      /\ Cardinality(InMaking) < Lesser(scaler.make, ProvisioningConcurrency)
      /\ token[b] = "unminted"
      /\ UNCHANGED <<plane, row, worker, joining, lost, reconciler, reaper>>
  BY DEF CreateCall, Creating, Scaling, Unminted
<1>3. token' = [token EXCEPT ![b] = "spent"] /\ Created(b) /\ UNCHANGED status
  <2>1. ~(token' = [token EXCEPT ![b] = "valid"])
    BY <1>1 DEF TypeOK
  <2> QED BY <2>1 DEF CreateCall
<1>4. /\ token' \in [Boxes -> {"unminted", "valid", "spent"}] /\ token'[b] = "spent"
      /\ \A c \in Boxes \ {b} : token'[c] = token[c]
  BY <1>1, <1>3 DEF TypeOK
<1>5. /\ scaler.make \in Nat /\ Cardinality(InMaking) \in Nat
      /\ Cardinality(InMaking) < scaler.make
  BY <1>1, <1>2, ScalerFields, Constants, Sets, Counting DEF Lesser
<1>6. scaler.make > 0
  BY <1>5
<1>7. /\ making' \in [Boxes -> {"no", "called", "keep", "plan"}]
      /\ making'[b] = "no" /\ \A c \in Boxes \ {b} : making'[c] = making[c]
      /\ scaler' \in Scalers /\ scaler'.make = scaler.make - 1
      /\ scaler'.expired = scaler.expired
      /\ scaler'.at = "idle" => scaler' = ScalerIdle
  BY <1>2, <1>3, <1>6, CreatedFacts
<1>8. TypeOK'
  BY <1>1, <1>2, <1>3, <1>4, <1>7 DEF TypeOK
<1>9. InMaking' = InMaking /\ Live' = Live /\ Counted' = Counted
  BY <1>2, <1>3, <1>7 DEF InMaking, Live, Counted, InState
<1>10. /\ scaler'.make + Cardinality(InMaking) <= scaler.make + Cardinality(InMaking')
       /\ Cardinality(InMaking') <= scaler'.make
  BY <1>5, <1>7, <1>9
<1>11. Room'
  BY <1>1, <1>2, <1>7, <1>8, <1>9, <1>10, RoomKept
<1> QED BY <1>2, <1>4, <1>7, <1>8, <1>9, <1>11, ServingKept

LEMMA CreateReadSound ==
    ASSUME FleetSound, NEW b \in Boxes, CreateRead(b)
    PROVE  FleetSound'
<1>1. TypeOK /\ Room /\ PlaneSound /\ Drawn
  BY Parts
<1>2. /\ plane = "up" /\ making[b] = "called" /\ scaler.at = "act"
      /\ UNCHANGED <<plane, status, row, token, worker, joining, lost, scaler, reconciler,
                     reaper>>
  BY DEF CreateRead, Creating, Scaling, Workers
<1>3. /\ making' \in [Boxes -> {"no", "called", "keep", "plan"}] /\ making'[b] # "no"
      /\ \A c \in Boxes \ {b} : making'[c] = making[c]
  BY <1>1 DEF TypeOK, CreateRead
<1>4. TypeOK'
  BY <1>1, <1>2, <1>3 DEF TypeOK
<1>5. InMaking' = InMaking /\ Live' = Live /\ Counted' = Counted
  BY <1>2, <1>3 DEF InMaking, Live, Counted, InState
<1>6. Room'
  <2>1. /\ Cardinality(InMaking) \in Nat /\ scaler.make \in Nat
        /\ Cardinality(InMaking) <= scaler.make /\ (InMaking # {} => scaler.expired = {})
    BY <1>1, Sets, Counting, ScalerFields DEF Room, RoomToMake
  <2>2. /\ scaler'.make + Cardinality(InMaking) <= scaler.make + Cardinality(InMaking')
        /\ Cardinality(InMaking') <= scaler'.make
    BY <1>2, <1>5, <2>1
  <2> QED BY <1>1, <1>2, <1>4, <1>5, <2>1, <2>2, RoomKept
<1>7. token[b] # "unminted"
  BY <1>1, <1>2 DEF Drawn, Undrawn
<1> QED BY <1>1, <1>2, <1>3, <1>4, <1>5, <1>6, <1>7, ServingKept

-----------------------------------------------------------------------------
(* Workers.                                                                *)

LEMMA WorkersKept ==
    ASSUME FleetSound, plane = "up",
           UNCHANGED <<plane, status, making, lost, scaler, reconciler, reaper>>,
           row' \in Rows, Counted \subseteq Counted',
           token' \in [Boxes -> {"unminted", "valid", "spent"}],
           worker' \in [Boxes -> {"none", "alive", "quiet", "revoked", "dead"}],
           joining' \in [Boxes -> {"no", "stored"}],
           \A c \in Boxes : token'[c] = "unminted" =>
               token[c] = "unminted" /\ row'[c] = row[c] /\ joining'[c] = joining[c]
    PROVE  FleetSound'
<1>1. TypeOK /\ Room /\ PlaneSound
  BY Parts
<1>2. Live' = Live /\ InMaking' = InMaking
  BY DEF Live, InMaking
<1>3. TypeOK'
  BY <1>1 DEF TypeOK
<1>4. Room'
  BY <1>1, <1>2, <1>3, RoomUntouched
<1> QED BY <1>1, <1>2, <1>3, <1>4, ServingKept DEF PlaneSound

LEMMA WorkersSound ==
    ASSUME FleetSound, NEW b \in Boxes, Join(b) \/ Heartbeat(b) \/ MarkDead(b)
    PROVE  FleetSound'
<1>1. TypeOK /\ Drawn /\ row \in Rows
  BY Parts DEF TypeOK
<1>2. /\ plane = "up" /\ UNCHANGED <<plane, status, making, lost, scaler, reconciler, reaper>>
  BY DEF Join, RegisterWorker, RegisterSandbox, Register, Heartbeat, MarkDead, Working,
         WorkerStep, Creation, Controllers
<1>3. CASE RegisterWorker(b)
  <2>1. UNCHANGED row /\ token' = [token EXCEPT ![b] = "spent"]
    BY <1>3 DEF RegisterWorker
  <2>2. /\ token' \in [Boxes -> {"unminted", "valid", "spent"}]
        /\ token'[b] = "spent" /\ \A c \in Boxes \ {b} : token'[c] = token[c]
    BY <1>1, <2>1 DEF TypeOK
  <2>3. /\ joining' \in [Boxes -> {"no", "stored"}]
        /\ \A c \in Boxes \ {b} : joining'[c] = joining[c]
        /\ worker' \in [Boxes -> {"none", "alive", "quiet", "revoked", "dead"}]
    BY <1>1, <1>3 DEF RegisterWorker, Register, TypeOK
  <2>4. Counted' = Counted
    BY <2>1 DEF Counted, InState
  <2> QED BY <1>1, <1>2, <2>1, <2>2, <2>3, <2>4, WorkersKept
<1>4. CASE RegisterSandbox(b)
  <2> DEFINE r == [state |-> "running", bound |-> "registered"]
  <2>1. /\ joining[b] = "stored" /\ joining' = [joining EXCEPT ![b] = "no"]
        /\ row' = [row EXCEPT ![b] = r] /\ UNCHANGED <<token, worker>>
    BY <1>4 DEF RegisterSandbox, Register
  <2>2. r \in RowTypes /\ r.state = "running"
    BY DEF RowTypes, RowStates
  <2> HIDE DEF r
  <2>3. row' \in Rows /\ row'[b].state = "running" /\ \A c \in Boxes \ {b} : row'[c] = row[c]
    BY <1>1, <2>1, <2>2, WrittenFacts
  <2>4. /\ joining' \in [Boxes -> {"no", "stored"}]
        /\ \A c \in Boxes \ {b} : joining'[c] = joining[c]
    BY <1>1, <2>1 DEF TypeOK
  <2>5. token[b] # "unminted"
    BY <1>1, <2>1 DEF Drawn, Undrawn
  <2>6. Counted \subseteq Counted'
    BY <2>3 DEF Counted, InState
  <2>7. /\ token' \in [Boxes -> {"unminted", "valid", "spent"}]
        /\ worker' \in [Boxes -> {"none", "alive", "quiet", "revoked", "dead"}]
    BY <1>1, <2>1 DEF TypeOK
  <2> QED BY <1>2, <2>1, <2>3, <2>4, <2>5, <2>6, <2>7, WorkersKept
<1>5. CASE Heartbeat(b) \/ MarkDead(b)
  <2>1. UNCHANGED <<row, token, joining>>
    BY <1>5 DEF Heartbeat, MarkDead, WorkerStep
  <2>2. /\ token' \in [Boxes -> {"unminted", "valid", "spent"}]
        /\ worker' \in [Boxes -> {"none", "alive", "quiet", "revoked", "dead"}]
        /\ joining' \in [Boxes -> {"no", "stored"}] /\ row' \in Rows
    BY <1>1, <1>5, <2>1 DEF TypeOK, Heartbeat, MarkDead
  <2>3. Counted' = Counted
    BY <2>1 DEF Counted, InState
  <2> QED BY <1>2, <2>1, <2>2, <2>3, WorkersKept
<1> QED BY <1>3, <1>4, <1>5 DEF Join

-----------------------------------------------------------------------------
LEMMA InitSound == Init => FleetSound
<1> SUFFICES ASSUME Init PROVE FleetSound
  OBVIOUS
<1>1. TypeOK
  BY Constants DEF Init, TypeOK, Listings
<1>2. Live = {} /\ InMaking = {} /\ lost = {}
  BY DEF Init, Live, InMaking
<1>3. scaler.make = 0 /\ scaler.expired = {} /\ scaler = ScalerIdle
  BY Constants DEF Init
<1>4. Cardinality({}) = 0 /\ {} \ {} = {}
  BY FS_EmptySet
<1>5. RoomToMake
  BY <1>2, <1>3, <1>4, Constants DEF RoomToMake
<1>6. FleetBound
  BY <1>2, <1>4, Constants DEF FleetBound
<1>7. Drawn
  BY Constants DEF Init, Drawn, Undrawn
<1>8. ListingSound /\ StartSound /\ NothingForgotten
  BY <1>2 DEF Init, ListingSound, StartSound, NothingForgotten
<1>9. PlaneSound
  BY <1>2 DEF Init, PlaneSound
<1> QED BY <1>1, <1>5, <1>6, <1>7, <1>8, <1>9, Parts DEF Room

LEMMA ScaleSound ==
    ASSUME FleetSound, Scale
    PROVE  FleetSound'
<1>1. ASSUME NEW b \in Boxes, Create(b)
      PROVE  FleetSound'
  BY <1>1, CalledSound, RefusedSound, CreateReadSound, CreationEndsSound DEF Create
<1> QED BY <1>1, ScalePlanSound, ScaleStepSound DEF Scale

LEMMA NextSound == FleetSound /\ [Next]_vars => FleetSound'
<1> SUFFICES ASSUME FleetSound, [Next]_vars PROVE FleetSound'
  OBVIOUS
<1>1. CASE Crash
  BY <1>1, EndsSound DEF Crash
<1>2. CASE Restart \/ Serve
  BY <1>2, RestartSound, ServeSound
<1>3. CASE Reconcile
  BY <1>3, ListingsSound, ReconcileSound DEF Reconcile
<1>4. CASE Reap
  BY <1>4, ReapSound
<1>5. CASE Scale
  BY <1>5, ScaleSound
<1>6. CASE \E b \in Boxes : Join(b) \/ Heartbeat(b) \/ MarkDead(b)
  BY <1>6, WorkersSound
<1>7. CASE UNCHANGED vars
  <2>1. UNCHANGED <<plane, status, row, token, worker, joining, making, scaler, reconciler,
                    reaper, lost>>
    BY <1>7 DEF vars
  <2>2. Live' = Live /\ Counted' = Counted /\ InMaking' = InMaking
    BY <2>1 DEF Live, Counted, InState, InMaking
  <2>3. TypeOK' /\ Drawn'
    BY <2>1 DEF FleetSound, TypeOK, Drawn, Undrawn
  <2>4. ListingSound' /\ StartSound' /\ PlaneSound' /\ NothingForgotten'
    BY <2>1, <2>2 DEF FleetSound, ListingSound, StartSound, PlaneSound, NothingForgotten
  <2>5. Room'
    BY <2>1, <2>2 DEF FleetSound, Room, RoomToMake, FleetBound
  <2> QED BY <2>3, <2>4, <2>5, PartsNext
<1> QED BY <1>1, <1>2, <1>3, <1>4, <1>5, <1>6, <1>7 DEF Next

(* FleetSound holds in every reachable state, for any number of sandboxes, *)
(* any limits and either setting of controllers.orphans: wherever the      *)
(* process ends and whatever stale rows the controllers act on, each       *)
(* sandbox that runs is counted, or in the making, or was left by a        *)
(* creation that failed, and what QueueAutoscaler.run has still to create  *)
(* fits.                                                                   *)
THEOREM FleetIsSound == Spec => []FleetSound
BY InitSound, NextSound, PTL DEF Spec

(* The provider never has more sandboxes than MaxTotalSandboxes, but for   *)
(* those whose creation reported an error: capacityLimit counts rows that  *)
(* no crash and no late write of SandboxReconciler.run makes disappear     *)
(* while their sandbox runs.                                               *)
THEOREM FleetIsBounded == Spec => []FleetBound
<1>1. FleetSound => FleetBound
  BY DEF FleetSound
<1> QED BY <1>1, FleetIsSound, PTL

(* While the process serves, every sandbox at the provider has a row that  *)
(* the autoscaler counts, is being created or was left by a creation that  *)
(* failed: Application.Run serves only after its first reconciliation.     *)
THEOREM NothingIsForgotten == Spec => []NothingForgotten
<1>1. FleetSound => NothingForgotten
  BY DEF FleetSound
<1> QED BY <1>1, FleetIsSound, PTL

=============================================================================
