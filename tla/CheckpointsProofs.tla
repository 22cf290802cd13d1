------------------------- MODULE CheckpointsProofs -------------------------
(***************************************************************************)
(* Proofs about Checkpoints, for any set of checkpoints, any retention,    *)
(* any number of epochs and of damaged files: CheckpointSound is           *)
(* inductive, and the safety properties follow from it.                    *)
(***************************************************************************)
EXTENDS Checkpoints, TLAPS, FiniteSetTheorems, NaturalsInduction, WellFoundedInduction

(* The five parts of the invariant, by what they depend on: rows and       *)
(* files, saves, the collector, the lists, the readers.                    *)
Greatest ==
    \E s \in {0} \cup {row[d].sequence : d \in IDs} : \A d \in IDs : row[d].sequence <= s

Begins(list) == list # {} => \E r \in list : \A s \in list : s.sequence <= r.sequence

Contents == ReadyHasFile /\ PointerNamesRow /\ DamageSound /\ Greatest /\ NewestSound

SavesSound == \A c \in IDs : SaveSound(c)

ListsSound == Begins(restore.list) /\ Begins(join.list)

SaveSteps == {"unused", "create", "write", "rename", "mark", "complete", "delete", "done"}
RowStates == {"absent", "creating", "ready", "partial", "corrupt"}
Files     == {"absent", "partial", "whole", "damaged"}

LEMMA Parts ==
    CheckpointSound <=>
        TypeOK /\ Contents /\ SavesSound /\ DoomedSound /\ ListsSound /\ ReadersSound
BY DEF CheckpointSound, Contents, SavesSound, ListsSound, OrderSound, Greatest, Begins

LEMMA PartsNext ==
    ASSUME TypeOK', Contents', SavesSound', DoomedSound', ListsSound', ReadersSound'
    PROVE  CheckpointSound'
BY DEF CheckpointSound, Contents, SavesSound, ListsSound, OrderSound, Greatest, Begins

-----------------------------------------------------------------------------
(* Greatest elements.  A set need not be finite to have one, it is enough  *)
(* that its measure is bounded.                                            *)

LEMMA Maximum ==
    ASSUME NEW S, S # {}, NEW f \in [S -> Nat], NEW m \in Nat, \A x \in S : f[x] <= m
    PROVE  \E x \in S : \A y \in S : f[y] <= f[x]
<1> DEFINE Gaps == {g \in Nat : \E x \in S : f[x] + g = m}
<1>1. PICK x \in S : TRUE
  OBVIOUS
<1>2. f[x] \in Nat /\ f[x] <= m
  OBVIOUS
<1>3. m - f[x] \in Nat /\ f[x] + (m - f[x]) = m
  BY <1>2
<1>4. Gaps # {} /\ Gaps \subseteq Nat
  BY <1>3
<1>5. PICK g \in Gaps : \A h \in Gaps : ~(<<h, g>> \in OpToRel(<, Nat))
  <2> HIDE DEF Gaps
  <2> QED BY <1>4, WFMin, NatLessThanWellFounded
<1>6. PICK y \in S : f[y] + g = m
  OBVIOUS
<1>7. ASSUME NEW z \in S
      PROVE  f[z] <= f[y]
  <2>1. f[z] \in Nat /\ f[z] <= m /\ f[y] \in Nat /\ g \in Nat
    BY <1>7
  <2>2. m - f[z] \in Gaps
    BY <2>1, <1>7
  <2>3. ~(m - f[z] < g)
    <3>1. m - f[z] \in Nat
      BY <2>2
    <3> HIDE DEF Gaps
    <3> QED BY <2>1, <2>2, <3>1, <1>5 DEF OpToRel
  <2> QED BY <2>1, <2>3, <1>6
<1> QED BY <1>6, <1>7

(* In a bounded set of checkpoints one is the newest. *)
LEMMA NewestExists ==
    ASSUME TypeOK, Greatest, NEW S, S \subseteq IDs, S # {}
    PROVE  /\ NewestOf(S) \in S
           /\ \A d \in S : row[d].sequence <= row[NewestOf(S)].sequence
<1> DEFINE f == [x \in S |-> row[x].sequence]
<1>1. \A d \in IDs : row[d].sequence \in Nat
  BY DEF TypeOK, Rows
<1>2. PICK m \in {0} \cup {row[d].sequence : d \in IDs} : \A d \in IDs : row[d].sequence <= m
  BY DEF Greatest
<1>3. m \in Nat /\ f \in [S -> Nat] /\ \A x \in S : f[x] <= m
  BY <1>1, <1>2
<1>4. \E x \in S : \A y \in S : f[y] <= f[x]
  <2> HIDE DEF f
  <2> QED BY <1>3, Maximum
<1>5. \E x \in S : \A y \in S : row[y].sequence <= row[x].sequence
  BY <1>4
<1>6. \E x \in S : \A y \in S : ~Newer(y, x)
  BY <1>1, <1>5 DEF Newer
<1>7. NewestOf(S) \in S /\ \A d \in S : ~Newer(d, NewestOf(S))
  BY <1>6, Zenon DEF NewestOf
<1> QED BY <1>1, <1>7 DEF Newer

(* The first row of a list is in it, and none comes before it. *)
LEMMA FirstIsGreatest ==
    ASSUME NEW list, Begins(list), list # {}
    PROVE  First(list) \in list /\ \A s \in list : s.sequence <= First(list).sequence
<1>1. \E r \in list : \A s \in list : s.sequence <= r.sequence
  BY DEF Begins
<1> QED BY <1>1, Zenon DEF First

(* A list stays one when rows are taken from it. *)
LEMMA SublistBegins ==
    ASSUME NEW list \in Lists, Begins(list), NEW part, part \subseteq list
    PROVE  Begins(part)
<1> SUFFICES ASSUME part # {} PROVE \E r \in part : \A s \in part : s.sequence <= r.sequence
  BY DEF Begins
<1> DEFINE f == [x \in part |-> x.sequence]
<1>1. \A r \in list : r.sequence \in Nat
  BY DEF Lists
<1>2. PICK r \in list : \A s \in list : s.sequence <= r.sequence
  BY DEF Begins
<1>3. r.sequence \in Nat /\ f \in [part -> Nat] /\ \A x \in part : f[x] <= r.sequence
  BY <1>1, <1>2
<1>4. \E x \in part : \A y \in part : f[y] <= f[x]
  <2> HIDE DEF f
  <2> QED BY <1>3, Maximum
<1> QED BY <1>4

LEMMA ReadyRowsBegin ==
    ASSUME TypeOK, Greatest
    PROVE  ReadyRows \in Lists /\ Begins(ReadyRows)
<1>1. \A d \in IDs : row[d].sequence \in Nat
  BY DEF TypeOK, Rows
<1>2. Ready \subseteq IDs
  BY DEF Ready
<1>3. ReadyRows \in Lists
  BY <1>1, <1>2 DEF ReadyRows, Lists
<1>4. ASSUME ReadyRows # {}
      PROVE  \E r \in ReadyRows : \A s \in ReadyRows : s.sequence <= r.sequence
  <2>1. Ready # {}
    BY <1>4 DEF ReadyRows
  <2>2. PICK c \in Ready : \A d \in Ready : row[d].sequence <= row[c].sequence
    BY <1>2, <2>1, NewestExists
  <2>3. [id |-> c, sequence |-> row[c].sequence] \in ReadyRows
    BY DEF ReadyRows
  <2>4. \A s \in ReadyRows : s.sequence <= [id |-> c, sequence |-> row[c].sequence].sequence
    BY <2>2 DEF ReadyRows
  <2> QED BY <2>3, <2>4
<1> QED BY <1>3, <1>4 DEF Begins

-----------------------------------------------------------------------------
(* Records.                                                                *)

LEMMA Constants ==
    /\ NoRow \in Rows /\ NoRow.state = "absent" /\ NoRow.sequence = 0
    /\ Idle \in Restores /\ Idle \in Joins
    /\ Idle.step = "rest" /\ Idle.list = {} /\ Idle.epoch = 0
    /\ Resting \in [step : {"rest", "delete", "sweep"}, doomed : SUBSET IDs]
    /\ Resting.doomed = {}
    /\ MaxEpoch \in Nat /\ RetainLatest \in Nat /\ None \notin IDs
BY CheckpointAssumption DEF NoRow, Rows, Idle, Restores, Joins, Lists, Resting

LEMMA RowFields ==
    ASSUME TypeOK, NEW c \in IDs
    PROVE  /\ row[c] \in Rows /\ row[c].state \in RowStates /\ row[c].sequence \in Nat
           /\ save[c] \in Saves /\ save[c].step \in SaveSteps
           /\ save[c].epoch \in 0 .. MaxEpoch /\ save[c].epoch \in Nat
           /\ file[c] \in Files
BY DEF TypeOK, Rows, Saves, RowStates, SaveSteps, Files

LEMMA SessionFields ==
    ASSUME TypeOK
    PROVE  /\ session.state \in {"active", "recovering", "closed", "lost"}
           /\ session.epoch \in 0 .. MaxEpoch /\ session.epoch \in Nat
           /\ session.latest \in IDs \cup {None}
BY DEF TypeOK, Sessions

LEMMA ReaderFields ==
    ASSUME TypeOK
    PROVE  /\ restore.list \in Lists /\ restore.epoch \in 0 .. MaxEpoch /\ restore.epoch \in Nat
           /\ join.list \in Lists /\ join.epoch \in 0 .. MaxEpoch /\ join.epoch \in Nat
           /\ join.step \in {"rest", "boot", "open", "restored"}
BY DEF TypeOK, Restores, Joins

LEMMA GoToFacts ==
    ASSUME TypeOK, NEW c \in IDs, NEW s \in SaveSteps, GoTo(c, s)
    PROVE  /\ save' \in [IDs -> Saves]
           /\ save'[c].step = s /\ save'[c].epoch = save[c].epoch
           /\ \A d \in IDs \ {c} : save'[d] = save[d]
BY DEF TypeOK, Saves, SaveSteps, GoTo

LEMMA MarkFacts ==
    ASSUME TypeOK, NEW c \in IDs, NEW s \in RowStates, Mark(c, s)
    PROVE  /\ row' \in [IDs -> Rows]
           /\ \A d \in IDs : row'[d].sequence = row[d].sequence
           /\ \A d \in IDs \ {c} : row'[d] = row[d]
           /\ row'[c].state = IF row[c].state = "absent" THEN "absent" ELSE s
BY DEF TypeOK, Rows, RowStates, Mark, Present

LEMMA RemoveFacts ==
    ASSUME TypeOK, NEW c \in IDs, Remove(c)
    PROVE  /\ file' \in [IDs -> Files] /\ file'[c] = "absent"
           /\ \A d \in IDs \ {c} : file'[d] = file[d]
           /\ old' = old \ {c} /\ old' \subseteq {d \in IDs : file'[d] # "absent"}
BY DEF TypeOK, Files, Remove

-----------------------------------------------------------------------------
(* What keeps each part of the invariant.                                  *)

(* The session keeps its pointer, and stays ended once it is. *)
SessionKept == session'.latest = session.latest /\ (Ended => Ended')

LEMMA ContentsKept ==
    ASSUME CheckpointSound, TypeOK', SessionKept, UNCHANGED <<row, newest>>,
           damaged \subseteq damaged',
           \A c \in Ready : file'[c] = file[c] \/ file'[c] = "damaged",
           \A c \in IDs : file'[c] = "damaged" => file[c] = "damaged" \/ c \in damaged'
    PROVE  Contents'
<1>1. Contents
  BY Parts
<1>2. Ready' = Ready /\ Located' = Located /\ Ready \subseteq IDs
  BY DEF Ready, Located
<1>3. ReadyHasFile'
  BY <1>1, <1>2 DEF Contents, ReadyHasFile
<1>4. PointerNamesRow'
  BY <1>1, <1>2 DEF Contents, PointerNamesRow, SessionKept
<1>5. DamageSound'
  BY <1>1, <1>2 DEF Contents, DamageSound
<1>6. Greatest'
  BY <1>1 DEF Contents, Greatest
<1>7. NewestSound'
  <2>1. NewestSound
    BY <1>1 DEF Contents
  <2>2. \A c, d : Newer(c, d)' <=> Newer(c, d)
    BY DEF Newer
  <2> QED BY <1>2, <2>1, <2>2 DEF NewestSound, SessionKept
<1> QED BY <1>3, <1>4, <1>5, <1>6, <1>7 DEF Contents

LEMMA SavesKept ==
    ASSUME CheckpointSound, TypeOK', damaged' = damaged,
           session'.state = session.state, session'.epoch = session.epoch,
           old' \subseteq old,
           \A c \in IDs : row'[c].state \in {row[c].state, "absent"},
           \A c \in IDs : \/ save'[c] = save[c]
                          \/ save'[c].step = "done" /\ save'[c].epoch = save[c].epoch,
           \A c \in IDs : save[c].step = "complete" => file'[c] = file[c]
    PROVE  SavesSound'
<1> SUFFICES ASSUME NEW c \in IDs PROVE SaveSound(c)'
  BY DEF SavesSound
<1>1. SaveSound(c)
  BY DEF CheckpointSound
<1> QED BY <1>1 DEF SaveSound

LEMMA DoomedKept ==
    ASSUME CheckpointSound, TypeOK', gc'.doomed \subseteq gc.doomed,
           \A c \in IDs : save[c].step = "done" => /\ save'[c].step = "done"
                                                   /\ c \in Ready' => c \in Ready
    PROVE  DoomedSound'
<1>1. DoomedSound /\ gc.doomed \subseteq IDs
  BY DEF CheckpointSound, TypeOK
<1> QED BY <1>1 DEF DoomedSound

LEMMA ListsKept ==
    ASSUME CheckpointSound, restore'.list \subseteq restore.list, join'.list \subseteq join.list
    PROVE  ListsSound'
<1>1. ListsSound /\ TypeOK
  BY Parts
<1> QED BY <1>1, ReaderFields, SublistBegins DEF ListsSound

LEMMA ReadersKept ==
    ASSUME CheckpointSound, TypeOK', newest' = newest,
           session'.state = session.state, session'.epoch = session.epoch,
           restore'.list \subseteq restore.list, restore'.epoch \in {restore.epoch, 0},
           join' \in {join, Idle},
           \A c \in IDs : c \in Ready' => /\ c \in Ready
                                          /\ row'[c].sequence = row[c].sequence
                                          /\ file'[c] = "whole" => file[c] = "whole"
    PROVE  ReadersSound'
<1>1. ReadersSound /\ TypeOK
  BY Parts
<1>2. session.epoch \in Nat /\ restore'.epoch <= session.epoch /\ join'.epoch <= session.epoch
  BY <1>1, SessionFields, Constants DEF ReadersSound
<1>3. restore'.list # {} \/ join'.step # "rest" => newest # None
  BY <1>1, Constants DEF ReadersSound
<1>4. ASSUME join'.step \in {"open", "restored"}, Recovering(join'.epoch),
             NEW c \in Ready', file'[c] = "whole"
      PROVE  [id |-> c, sequence |-> row'[c].sequence] \in join'.list
  <2>1. join' = join
    BY <1>4, Constants
  <2>2. c \in IDs
    BY <1>4 DEF Ready
  <2>3. c \in Ready /\ row'[c].sequence = row[c].sequence /\ file[c] = "whole"
    BY <1>4, <2>2
  <2> QED BY <1>1, <1>4, <2>1, <2>3 DEF ReadersSound
<1>5. \A e : Recovering(e)' <=> Recovering(e)
  BY DEF Recovering
<1>6. join'.step \in {"open", "restored"} /\ Recovering(join'.epoch) =>
          \A c \in Ready' : file'[c] = "whole" =>
              [id |-> c, sequence |-> row'[c].sequence] \in join'.list
  BY <1>4
<1> QED BY <1>2, <1>3, <1>5, <1>6 DEF ReadersSound, Recovering

-----------------------------------------------------------------------------
(* saveCheckpoint.                                                         *)

(* A save touches only its own row, file and progress, and leaves the      *)
(* collector and the readers alone.                                        *)
LEMMA SaveFrame ==
    ASSUME CheckpointSound, TypeOK', NEW c \in IDs, save[c].step # "done",
           UNCHANGED <<gc, restore, join>>,
           \A d \in IDs \ {c} : save'[d] = save[d] /\ row'[d] = row[d] /\ file'[d] = file[d]
    PROVE  /\ DoomedSound' /\ ListsSound'
           /\ session' = session /\ newest' = newest /\ c \notin Ready' => ReadersSound'
<1>1. DoomedSound'
  BY DoomedKept DEF Ready
<1>2. ListsSound'
  BY ListsKept
<1>3. session' = session /\ newest' = newest /\ c \notin Ready' => ReadersSound'
  BY ReadersKept DEF Ready
<1> QED BY <1>1, <1>2, <1>3

(* The invariant of one save that is in progress, when its session stays   *)
(* as it is, is enough.                                                    *)
LEMMA OtherSaves ==
    ASSUME CheckpointSound, TypeOK', NEW c \in IDs,
           session'.state = session.state, session'.epoch = session.epoch,
           damaged' = damaged, old' \subseteq old,
           \A d \in IDs \ {c} : save'[d] = save[d] /\ row'[d] = row[d] /\ file'[d] = file[d],
           SaveSound(c)'
    PROVE  SavesSound'
<1> SUFFICES ASSUME NEW d \in IDs, d # c PROVE SaveSound(d)'
  BY DEF SavesSound
<1>1. SaveSound(d)
  BY DEF CheckpointSound
<1> QED BY <1>1 DEF SaveSound

LEMMA NotReady ==
    ASSUME CheckpointSound, NEW c \in IDs, save[c].step # "done"
    PROVE  /\ c \notin Ready /\ c \notin Located /\ c \notin old /\ c \notin damaged
           /\ row[c].state \in {"absent", "creating"}
BY DEF CheckpointSound, SaveSound, Ready, Located

LEMMA SaveReadSound ==
    ASSUME CheckpointSound, NEW c \in IDs, SaveRead(c)
    PROVE  CheckpointSound'
<1>1. TypeOK /\ SaveSound(c)
  BY DEF CheckpointSound
<1>2. /\ UNCHANGED <<session, row, newest, file, old, gc, restore, join, expired, damaged>>
      /\ save[c].step = "unused" /\ session.state = "active"
      /\ save' = [save EXCEPT ![c] = [step |-> "create", epoch |-> session.epoch]]
  BY DEF SaveRead, Saving, Store, Disk, Time, Readers
<1>3. /\ save' \in [IDs -> Saves]
      /\ save'[c].step = "create" /\ save'[c].epoch = session.epoch
      /\ \A d \in IDs \ {c} : save'[d] = save[d]
  BY <1>1, <1>2, SessionFields DEF TypeOK, Saves
<1>4. TypeOK'
  BY <1>1, <1>2, <1>3 DEF TypeOK
<1>5. SaveSound(c)'
  BY <1>1, <1>2, <1>3, SessionFields DEF SaveSound
<1>6. Contents'
  BY <1>2, <1>4, ContentsKept DEF SessionKept, Ended
<1>7. SavesSound'
  BY <1>2, <1>3, <1>4, <1>5, OtherSaves
<1>8. DoomedSound' /\ ListsSound' /\ ReadersSound'
  BY <1>2, <1>3, <1>4, SaveFrame, NotReady DEF Ready
<1> QED BY <1>4, <1>6, <1>7, <1>8, PartsNext

(* The sequence CreateCheckpoint gives is greater than every other.        *)
LEMMA SaveCreateSound ==
    ASSUME CheckpointSound, NEW c \in IDs, SaveCreate(c)
    PROVE  CheckpointSound'
<1>1. TypeOK /\ Contents /\ SaveSound(c)
  BY Parts DEF CheckpointSound
<1>2. /\ UNCHANGED <<session, newest, file, old, gc, restore, join, expired, damaged>>
      /\ save[c].step = "create"
  BY DEF SaveCreate, Saving, Disk, Time, Readers
<1>3. PICK s \in {"write", "done"} : GoTo(c, s)
  BY DEF SaveCreate
<1>4. /\ save' \in [IDs -> Saves]
      /\ save'[c].step = s /\ save'[c].epoch = save[c].epoch
      /\ \A d \in IDs \ {c} : save'[d] = save[d]
  BY <1>1, <1>3, GoToFacts DEF SaveSteps
<1>5. PICK m \in Nat : /\ \A d \in IDs : row[d].sequence <= m
                       /\ row' = row \/ row' = [row EXCEPT ![c] =
                            [state |-> "creating", epoch |-> save[c].epoch, sequence |-> 1 + m]]
  <2> DEFINE Sequences == {0} \cup {row[d].sequence : d \in IDs}
             m == CHOOSE q \in Sequences : \A d \in IDs : row[d].sequence <= q
  <2>1. \E q \in Sequences : \A d \in IDs : row[d].sequence <= q
    BY <1>1 DEF Contents, Greatest
  <2>2. m \in Sequences /\ \A d \in IDs : row[d].sequence <= m
    BY <2>1, Zenon
  <2>3. m \in Nat
    <3>1. Sequences \subseteq Nat
      BY <1>1, RowFields
    <3> HIDE DEF m, Sequences
    <3> QED BY <2>2, <3>1
  <2>4. row' = row \/ row' = [row EXCEPT ![c] =
                        [state |-> "creating", epoch |-> save[c].epoch, sequence |-> 1 + m]]
    BY DEF SaveCreate
  <2> HIDE DEF m
  <2> QED BY <2>2, <2>3, <2>4
<1>6. /\ row' \in [IDs -> Rows]
      /\ \A d \in IDs \ {c} : row'[d] = row[d]
      /\ row'[c].state \in {"absent", "creating"}
      /\ row' = row \/ row'[c].sequence = 1 + m
  <2>1. CASE row' = row
    BY <1>1, <1>2, <2>1, NotReady DEF TypeOK
  <2>2. CASE row' # row
    <3>1. row' = [row EXCEPT ![c] =
              [state |-> "creating", epoch |-> save[c].epoch, sequence |-> 1 + m]]
      BY <1>5, <2>2
    <3>2. [state |-> "creating", epoch |-> save[c].epoch, sequence |-> 1 + m] \in Rows
      BY <1>1, RowFields DEF Rows
    <3> QED BY <1>1, <3>1, <3>2 DEF TypeOK
  <2> QED BY <2>1, <2>2
<1>7. TypeOK'
  BY <1>1, <1>2, <1>4, <1>6 DEF TypeOK
<1>8. SaveSound(c)'
  BY <1>1, <1>2, <1>4, <1>6 DEF SaveSound
<1>9. SavesSound'
  BY <1>2, <1>4, <1>6, <1>7, <1>8, OtherSaves
<1>10. Ready' = Ready /\ Located' = Located /\ c \notin Located /\ c \notin Ready
  BY <1>2, <1>6, NotReady DEF Ready, Located
<1>11. DoomedSound' /\ ListsSound' /\ ReadersSound'
  BY <1>2, <1>4, <1>6, <1>7, <1>10, SaveFrame
<1>12. Contents'
  <2>1. ReadyHasFile' /\ PointerNamesRow' /\ DamageSound'
    BY <1>1, <1>2, <1>10 DEF Contents, ReadyHasFile, PointerNamesRow, DamageSound
  <2>2. Greatest'
    <3>1. CASE row' = row
      BY <1>1, <3>1 DEF Contents, Greatest
    <3>2. CASE row'[c].sequence = 1 + m
      <4>1. \A d \in IDs : row'[d].sequence <= 1 + m
        BY <1>1, <1>5, <1>6, <3>2, RowFields
      <4> QED BY <3>2, <4>1 DEF Greatest
    <3> QED BY <1>6, <3>1, <3>2
  <2>3. NewestSound'
    <3>1. NewestSound
      BY <1>1 DEF Contents
    <3>2. \A d, e \in Ready : Newer(d, e)' <=> Newer(d, e)
      BY <1>6, <1>10 DEF Newer, Ready
    <3> QED BY <1>2, <1>10, <3>1, <3>2 DEF NewestSound, Ended
  <2> QED BY <2>1, <2>2, <2>3 DEF Contents
<1> QED BY <1>7, <1>9, <1>11, <1>12, PartsNext

(* Filesystem.Save, which no row names yet. *)
LEMMA SaveFileSound ==
    ASSUME CheckpointSound, NEW c \in IDs, SaveWrite(c) \/ SaveRename(c)
    PROVE  CheckpointSound'
<1>1. TypeOK /\ SaveSound(c)
  BY DEF CheckpointSound
<1>2. /\ UNCHANGED <<session, row, newest, old, gc, restore, join, expired, damaged>>
      /\ save[c].step \in {"write", "rename"}
  BY DEF SaveWrite, SaveRename, Saving, Store, Time, Readers
<1>3. PICK s \in {"rename", "complete", "mark"}, k \in {"absent", "partial", "whole"} :
        /\ GoTo(c, s) /\ (s = "complete" => k = "whole")
        /\ file' = file \/ file' = [file EXCEPT ![c] = k]
        /\ s = "complete" => file' = [file EXCEPT ![c] = k]
  BY DEF SaveWrite, SaveRename
<1>4. /\ save' \in [IDs -> Saves]
      /\ save'[c].step = s /\ save'[c].epoch = save[c].epoch
      /\ \A d \in IDs \ {c} : save'[d] = save[d]
  BY <1>1, <1>3, GoToFacts DEF SaveSteps
<1>5. /\ file' \in [IDs -> Files]
      /\ \A d \in IDs \ {c} : file'[d] = file[d]
      /\ file'[c] \in {file[c], "absent", "partial", "whole"}
      /\ s = "complete" => file'[c] = "whole"
  BY <1>1, <1>3 DEF TypeOK, Files
<1>6. c \notin Ready /\ c \notin old /\ c \notin damaged
  BY <1>2, NotReady
<1>7. TypeOK'
  <2>1. old' \subseteq {d \in IDs : file'[d] # "absent"}
    BY <1>1, <1>2, <1>5, <1>6 DEF TypeOK
  <2> QED BY <1>1, <1>2, <1>4, <1>5, <2>1 DEF TypeOK, Files
<1>8. SaveSound(c)'
  BY <1>1, <1>2, <1>3, <1>4, <1>5, <1>6 DEF SaveSound
<1>9. SavesSound'
  BY <1>2, <1>4, <1>5, <1>7, <1>8, OtherSaves
<1>10. DoomedSound' /\ ListsSound' /\ ReadersSound'
  BY <1>2, <1>4, <1>5, <1>6, <1>7, SaveFrame DEF Ready
<1>11. Contents'
  BY <1>2, <1>5, <1>6, <1>7, ContentsKept DEF SessionKept, Ended, Ready
<1> QED BY <1>7, <1>9, <1>10, <1>11, PartsNext

(* MarkCheckpoint after a failed write. *)
LEMMA SaveMarkSound ==
    ASSUME CheckpointSound, NEW c \in IDs, SaveMark(c)
    PROVE  CheckpointSound'
<1>1. TypeOK /\ Contents /\ SaveSound(c)
  BY Parts DEF CheckpointSound
<1>2. /\ UNCHANGED <<session, newest, file, old, gc, restore, join, expired, damaged>>
      /\ save[c].step = "mark" /\ Mark(c, "partial") /\ GoTo(c, "done")
  BY DEF SaveMark, Saving, Disk, Time, Readers
<1>3. /\ save' \in [IDs -> Saves]
      /\ save'[c].step = "done" /\ save'[c].epoch = save[c].epoch
      /\ \A d \in IDs \ {c} : save'[d] = save[d]
  BY <1>1, <1>2, GoToFacts DEF SaveSteps
<1>4. /\ row' \in [IDs -> Rows]
      /\ \A d \in IDs : row'[d].sequence = row[d].sequence
      /\ \A d \in IDs \ {c} : row'[d] = row[d]
      /\ row'[c].state \in {"absent", "partial"}
  BY <1>1, <1>2, MarkFacts DEF RowStates
<1>5. Ready' = Ready /\ Located' = Located /\ c \notin Ready
  BY <1>2, <1>4, NotReady DEF Ready, Located
<1>6. TypeOK'
  BY <1>1, <1>2, <1>3, <1>4 DEF TypeOK
<1>7. SaveSound(c)'
  BY <1>1, <1>2, <1>3 DEF SaveSound
<1>8. SavesSound'
  BY <1>2, <1>3, <1>4, <1>6, <1>7, OtherSaves
<1>9. DoomedSound' /\ ListsSound' /\ ReadersSound'
  BY <1>2, <1>3, <1>4, <1>5, <1>6, SaveFrame
<1>10. Contents'
  <2>1. ReadyHasFile' /\ PointerNamesRow' /\ DamageSound'
    BY <1>1, <1>2, <1>5 DEF Contents, ReadyHasFile, PointerNamesRow, DamageSound
  <2>2. Greatest'
    BY <1>1, <1>4 DEF Contents, Greatest
  <2>3. NewestSound'
    <3>1. NewestSound
      BY <1>1 DEF Contents
    <3>2. \A d, e \in Ready : Newer(d, e)' <=> Newer(d, e)
      BY <1>4 DEF Newer, Ready
    <3> QED BY <1>2, <1>5, <3>1, <3>2 DEF NewestSound, Ended
  <2> QED BY <2>1, <2>2, <2>3 DEF Contents
<1> QED BY <1>6, <1>8, <1>9, <1>10, PartsNext

(* CompleteCheckpoint that finds its row and its epoch.  The session does  *)
(* not recover, or the save would be of an earlier epoch.                  *)
LEMMA CompletesSound ==
    ASSUME CheckpointSound, NEW c \in IDs, SaveComplete(c), Completable(c)
    PROVE  CheckpointSound'
<1>1. TypeOK /\ Contents /\ SaveSound(c)
  BY Parts DEF CheckpointSound
<1>2. /\ UNCHANGED <<file, old, gc, restore, join, expired, damaged>>
      /\ save[c].step = "complete" /\ GoTo(c, "done")
      /\ row' = [row EXCEPT ![c].state = "ready"]
      /\ session' = [session EXCEPT !.latest = c]
      /\ newest' = NewestOf(Located \cup {c})
  BY DEF SaveComplete, Saving, Disk, Time, Readers
<1>3. /\ save' \in [IDs -> Saves]
      /\ save'[c].step = "done" /\ save'[c].epoch = save[c].epoch
      /\ \A d \in IDs \ {c} : save'[d] = save[d]
  BY <1>1, <1>2, GoToFacts DEF SaveSteps
<1>4. /\ row' \in [IDs -> Rows]
      /\ \A d \in IDs : row'[d].sequence = row[d].sequence
      /\ \A d \in IDs \ {c} : row'[d] = row[d]
      /\ row'[c].state = "ready"
  BY <1>1, <1>2 DEF TypeOK, Rows
<1>5. /\ session' \in Sessions /\ session'.state = session.state
      /\ session'.epoch = session.epoch /\ session'.latest = c
  BY <1>1, <1>2 DEF TypeOK, Sessions
<1>6. /\ Ready' = Ready \cup {c} /\ Located' = Located \cup {c}
      /\ Ready \subseteq Located /\ Located \subseteq IDs
  BY <1>4 DEF Ready, Located
<1>7. /\ newest' \in Located \cup {c}
      /\ \A d \in Located \cup {c} : row[d].sequence <= row[newest'].sequence
  BY <1>1, <1>2, <1>6, NewestExists DEF Contents
<1>8. session.state # "recovering"
  BY <1>1, <1>2, SessionFields DEF Completable, SaveSound
<1>9. TypeOK'
  BY <1>1, <1>2, <1>3, <1>4, <1>5, <1>6, <1>7 DEF TypeOK
<1>10. SavesSound'
  <2>1. SaveSound(c)'
    BY <1>1, <1>2, <1>3, <1>5 DEF SaveSound
  <2> QED BY <1>2, <1>3, <1>4, <1>5, <1>9, <2>1, OtherSaves
<1>11. DoomedSound' /\ ListsSound'
  BY <1>2, <1>3, <1>4, <1>9, SaveFrame
<1>12. newest' \in IDs /\ newest' # None
  BY <1>6, <1>7, Constants
<1>13. ReadersSound'
  <2>1. ReadersSound
    BY Parts
  <2> QED BY <1>2, <1>5, <1>8, <1>12, <2>1 DEF ReadersSound, Recovering
<1>14. Contents'
  <2>1. ReadyHasFile'
    BY <1>1, <1>2, <1>6 DEF Contents, ReadyHasFile, SaveSound
  <2>2. PointerNamesRow'
    BY <1>5, <1>6 DEF PointerNamesRow
  <2>3. DamageSound'
    BY <1>1, <1>2, <1>6 DEF Contents, DamageSound
  <2>4. Greatest'
    BY <1>1, <1>4 DEF Contents, Greatest
  <2>5. NewestSound'
    <3>1. newest' \in IDs \ damaged => newest' \in Ready'
      BY <1>1, <1>6, <1>7 DEF Contents, DamageSound
    <3>2. \A d \in Ready' : ~(row'[d].sequence > row'[newest'].sequence)
      BY <1>1, <1>4, <1>6, <1>7, <1>12, RowFields
    <3>3. \A d \in Ready' : ~Newer(d, newest)'
      BY <3>2 DEF Newer
    <3> QED BY <1>2, <1>12, <3>1, <3>3 DEF NewestSound
  <2> QED BY <2>1, <2>2, <2>3, <2>4, <2>5 DEF Contents
<1> QED BY <1>9, <1>10, <1>11, <1>13, <1>14, PartsNext

(* The steps that end a save without a checkpoint, and the one that finds  *)
(* out that there will be none.                                            *)
LEMMA SaveEndsSound ==
    ASSUME CheckpointSound, NEW c \in IDs,
           \/ SaveComplete(c) /\ ~Completable(c)
           \/ SaveDelete(c) \/ SaveCanceled(c)
    PROVE  CheckpointSound'
<1>1. TypeOK /\ SaveSound(c)
  BY DEF CheckpointSound
<1>2. /\ UNCHANGED <<session, row, newest, gc, restore, join, expired, damaged>>
      /\ save[c].step \notin {"unused", "done"}
  BY DEF SaveComplete, SaveDelete, SaveCanceled, Saving, Store, Time, Readers
<1>3. PICK s \in {"delete", "done"} : GoTo(c, s)
  BY DEF SaveComplete, SaveDelete, SaveCanceled
<1>4. /\ save' \in [IDs -> Saves]
      /\ save'[c].step = s /\ save'[c].epoch = save[c].epoch
      /\ \A d \in IDs \ {c} : save'[d] = save[d]
  BY <1>1, <1>3, GoToFacts DEF SaveSteps
<1>5. UNCHANGED <<file, old>> \/ Remove(c)
  BY DEF SaveComplete, SaveDelete, SaveCanceled, Disk
<1>6. /\ file' \in [IDs -> Files] /\ file'[c] \in {file[c], "absent"}
      /\ \A d \in IDs \ {c} : file'[d] = file[d]
      /\ old' \subseteq old /\ old' \subseteq {d \in IDs : file'[d] # "absent"}
  <2>1. CASE UNCHANGED <<file, old>>
    BY <1>1, <2>1 DEF TypeOK, Files
  <2>2. CASE Remove(c)
    BY <1>1, <2>2, RemoveFacts
  <2> QED BY <1>5, <2>1, <2>2
<1>7. c \notin Ready /\ c \notin damaged /\ c \notin old
  BY <1>2, NotReady
<1>8. TypeOK'
  BY <1>1, <1>2, <1>4, <1>6 DEF TypeOK, Files
<1>9. SavesSound'
  <2>1. SaveSound(c)'
    BY <1>1, <1>2, <1>4, <1>6, <1>7 DEF SaveSound
  <2> QED BY <1>2, <1>4, <1>6, <1>8, <2>1, OtherSaves
<1>10. DoomedSound' /\ ListsSound' /\ ReadersSound'
  BY <1>2, <1>4, <1>6, <1>7, <1>8, SaveFrame DEF Ready
<1>11. Contents'
  BY <1>2, <1>6, <1>7, <1>8, ContentsKept DEF SessionKept, Ended, Ready
<1> QED BY <1>8, <1>9, <1>10, <1>11, PartsNext

-----------------------------------------------------------------------------
(* CheckpointGC.                                                           *)

LEMMA GreatestKept ==
    ASSUME TypeOK, Greatest, TypeOK',
           \A d \in IDs : row'[d].sequence <= row[d].sequence
    PROVE  Greatest'
<1> DEFINE f == [d \in IDs |-> row'[d].sequence]
<1>1. \A d \in IDs : row[d].sequence \in Nat /\ row'[d].sequence \in Nat
  BY DEF TypeOK, Rows
<1>2. PICK m \in {0} \cup {row[d].sequence : d \in IDs} : \A d \in IDs : row[d].sequence <= m
  BY DEF Greatest
<1>3. m \in Nat /\ f \in [IDs -> Nat] /\ \A d \in IDs : f[d] <= m
  BY <1>1, <1>2
<1>4. CASE IDs = {}
  BY <1>4 DEF Greatest
<1>5. CASE IDs # {}
  <2>1. \E c \in IDs : \A d \in IDs : f[d] <= f[c]
    <3> HIDE DEF f
    <3> QED BY <1>3, <1>5, Maximum
  <2>2. PICK c \in IDs : \A d \in IDs : row'[d].sequence <= row'[c].sequence
    BY <2>1
  <2> QED BY <2>2 DEF Greatest
<1> QED BY <1>4, <1>5

(* The newest checkpoint has rank 0, so it is retained. *)
LEMMA NewestNotDoomed ==
    ASSUME CheckpointSound, newest \in IDs \ damaged, RetainLatest > 0,
           ~(DeleteOnClose /\ Ended)
    PROVE  newest \notin Doomed /\ newest \in Ready /\ \A d \in Ready : ~Newer(d, newest)
<1>1. newest \in Ready /\ \A d \in Ready : ~Newer(d, newest)
  BY DEF CheckpointSound, NewestSound
<1>2. {d \in Ready : Newer(d, newest)} = {}
  BY <1>1
<1>3. Cardinality({d \in Ready : Newer(d, newest)}) = 0
  BY <1>2, FS_EmptySet
<1>4. Retained(newest)
  BY <1>3, Constants DEF Retained
<1> QED BY <1>1, <1>4 DEF Doomed, Ready

LEMMA CollectSound ==
    ASSUME CheckpointSound, Collect
    PROVE  CheckpointSound'
<1>1. TypeOK /\ Contents /\ Greatest
  BY Parts DEF Contents
<1>2. /\ UNCHANGED <<newest, file, old, save, restore, join, expired, damaged>>
      /\ row' = [c \in IDs |-> IF c \in Doomed THEN NoRow ELSE row[c]]
      /\ gc' = [step |-> "delete", doomed |-> Doomed \cap Located]
      /\ Doomed \subseteq IDs /\ Ready \subseteq IDs /\ Located \subseteq IDs
  BY DEF Collect, Collecting, Disk, Time, Readers, Doomed, Ready, Located
<1>3. /\ row' \in [IDs -> Rows]
      /\ \A c \in IDs \ Doomed : row'[c] = row[c]
      /\ \A c \in IDs \cap Doomed : row'[c].state = "absent" /\ row'[c].sequence = 0
  BY <1>1, <1>2, Constants DEF TypeOK
<1>4. PICK p \in IDs \cup {None} :
        /\ session' \in {session, [session EXCEPT !.latest = p]}
        /\ Doomed # {} => session' = [session EXCEPT !.latest = p]
        /\ p # None => p \in Ready \ Doomed
  <2>1. CASE Ready \ Doomed = {}
    BY <2>1 DEF Collect
  <2>2. CASE Ready \ Doomed # {}
    <3>1. NewestOf(Ready \ Doomed) \in Ready \ Doomed
      BY <1>1, <1>2, <2>2, NewestExists
    <3>2. /\ session' \in {session, [session EXCEPT !.latest = NewestOf(Ready \ Doomed)]}
          /\ Doomed # {} => session' = [session EXCEPT !.latest = NewestOf(Ready \ Doomed)]
      BY <2>2 DEF Collect
    <3> QED BY <1>2, <3>1, <3>2
  <2> QED BY <2>1, <2>2
<1>5. /\ session' \in Sessions /\ session'.state = session.state
      /\ session'.epoch = session.epoch
      /\ Doomed # {} => session'.latest = p
      /\ Doomed = {} => session'.latest \in {session.latest, p}
  BY <1>1, <1>4 DEF TypeOK, Sessions
<1>6. Ready' = Ready \ Doomed /\ Located' = Located \ Doomed /\ Ready \subseteq Located
  BY <1>2, <1>3 DEF Ready, Located
<1>7. gc' \in [step : {"rest", "delete", "sweep"}, doomed : SUBSET IDs]
  BY <1>2
<1>8. TypeOK'
  BY <1>1, <1>2, <1>3, <1>5, <1>7 DEF TypeOK
<1>9. SavesSound'
  BY <1>2, <1>3, <1>5, <1>8, SavesKept
<1>10. DoomedSound'
  <2>1. gc'.doomed = Doomed \cap Located
    BY <1>2
  <2> QED BY <1>2, <1>6, <2>1, NotReady DEF DoomedSound
<1>11. ListsSound'
  BY <1>2, ListsKept
<1>12. ReadersSound'
  BY <1>2, <1>3, <1>5, <1>6, <1>8, ReadersKept
<1>13. Contents'
  <2>1. ReadyHasFile'
    BY <1>1, <1>2, <1>6 DEF Contents, ReadyHasFile
  <2>2. PointerNamesRow'
    BY <1>1, <1>4, <1>5, <1>6 DEF Contents, PointerNamesRow
  <2>3. DamageSound'
    BY <1>1, <1>2, <1>6 DEF Contents, DamageSound
  <2>4. Greatest'
    <3>1. \A d \in IDs : row'[d].sequence <= row[d].sequence
      BY <1>1, <1>3, RowFields
    <3> QED BY <1>1, <1>8, <3>1, GreatestKept
  <2>5. NewestSound'
    <3>1. newest' = None => Located' = {}
      BY <1>1, <1>2, <1>6 DEF Contents, NewestSound
    <3>2. ASSUME newest \in IDs \ damaged, RetainLatest > 0, ~(DeleteOnClose /\ Ended)
          PROVE  newest \in Ready' /\ \A d \in Ready' : ~Newer(d, newest)'
      <4>1. newest \notin Doomed /\ newest \in Ready /\ \A d \in Ready : ~Newer(d, newest)
        BY <3>2, NewestNotDoomed
      <4>2. row'[newest] = row[newest] /\ \A d \in Ready' : row'[d] = row[d] /\ d \in Ready
        BY <1>2, <1>3, <1>6, <4>1
      <4> QED BY <1>2, <1>6, <4>1, <4>2 DEF Newer
    <3>3. Ended' <=> Ended
      BY <1>5 DEF Ended
    <3> QED BY <1>2, <3>1, <3>2, <3>3 DEF NewestSound
  <2> QED BY <2>1, <2>2, <2>3, <2>4, <2>5 DEF Contents
<1> QED BY <1>8, <1>9, <1>10, <1>11, <1>12, <1>13, PartsNext

(* What the collector removes from the disk no ready row names, and no     *)
(* save is about to complete.                                              *)
LEMMA FileRemovedSound ==
    ASSUME CheckpointSound, NEW c \in IDs, DeleteFile(c) \/ SweepFile(c)
    PROVE  CheckpointSound'
<1>1. TypeOK /\ DoomedSound
  BY DEF CheckpointSound
<1>2. /\ UNCHANGED <<session, row, newest, save, restore, join, expired, damaged>>
      /\ c \in gc.doomed /\ Remove(c)
      /\ gc' \in {Resting, [gc EXCEPT !.doomed = @ \ {c}]}
  BY DEF DeleteFile, SweepFile, Collecting, Store, Time, Readers
<1>3. /\ gc' \in [step : {"rest", "delete", "sweep"}, doomed : SUBSET IDs]
      /\ gc'.doomed \subseteq gc.doomed
  BY <1>1, <1>2, Constants DEF TypeOK
<1>4. /\ file' \in [IDs -> Files] /\ file'[c] = "absent"
      /\ \A d \in IDs \ {c} : file'[d] = file[d]
      /\ old' = old \ {c} /\ old' \subseteq {d \in IDs : file'[d] # "absent"}
  BY <1>1, <1>2, RemoveFacts
<1>5. save[c].step = "done" /\ c \notin Ready
  BY <1>1, <1>2 DEF DoomedSound
<1>6. TypeOK'
  BY <1>1, <1>2, <1>3, <1>4 DEF TypeOK, Files
<1>7. SavesSound'
  BY <1>2, <1>4, <1>5, <1>6, SavesKept
<1>8. DoomedSound' /\ ListsSound'
  BY <1>2, <1>3, <1>6, DoomedKept, ListsKept DEF Ready
<1>9. ReadersSound'
  BY <1>2, <1>4, <1>5, <1>6, ReadersKept DEF Ready
<1>10. Contents'
  BY <1>2, <1>4, <1>5, <1>6, ContentsKept DEF SessionKept, Ended, Ready
<1> QED BY <1>6, <1>7, <1>8, <1>9, <1>10, PartsNext

(* An orphan is old, so its save has ended, and no ready row names it.     *)
LEMMA RoundSound ==
    ASSUME CheckpointSound, ListOrphans \/ RoundFails
    PROVE  CheckpointSound'
<1>1. TypeOK /\ DoomedSound /\ ReadyHasFile
  BY DEF CheckpointSound
<1>2. UNCHANGED <<session, row, newest, file, old, save, restore, join, expired, damaged>>
  BY DEF ListOrphans, RoundFails, Collecting, Store, Disk, Time, Readers
<1>3. gc' \in {Resting, [step |-> "sweep", doomed |-> Orphans]}
  BY DEF ListOrphans, RoundFails
<1>4. \A c \in Orphans : c \in IDs /\ save[c].step = "done" /\ c \notin Ready
  <2>1. \A c \in Orphans : c \in old /\ c \in IDs
    BY <1>1 DEF Orphans, TypeOK
  <2>2. \A c \in Orphans : c \notin Ready
    BY <1>1, <2>1 DEF Orphans, ReadyHasFile, Ready, Located
  <2> QED BY <2>1, <2>2, NotReady
<1>5. /\ gc' \in [step : {"rest", "delete", "sweep"}, doomed : SUBSET IDs]
      /\ gc'.doomed \subseteq Orphans
  BY <1>3, <1>4, Constants
<1>6. TypeOK'
  BY <1>1, <1>2, <1>5 DEF TypeOK
<1>7. DoomedSound'
  BY <1>2, <1>4, <1>5 DEF DoomedSound, Ready
<1>8. SavesSound' /\ ListsSound'
  BY <1>2, <1>6, SavesKept, ListsKept
<1>9. ReadersSound'
  BY <1>2, <1>6, ReadersKept DEF Ready
<1>10. Contents'
  BY <1>2, <1>6, ContentsKept DEF SessionKept, Ended, Ready
<1> QED BY <1>6, <1>7, <1>8, <1>9, <1>10, PartsNext

-----------------------------------------------------------------------------
(* A recovery reads checkpoints.                                           *)

(* Readers change no row but one whose file is damaged. *)
LEMMA ReaderFrame ==
    ASSUME CheckpointSound, TypeOK', Reading, UNCHANGED row
    PROVE  Contents' /\ SavesSound' /\ DoomedSound'
<1>1. UNCHANGED <<session, newest, file, old, save, gc, expired, damaged>>
  BY DEF Reading, Disk, Time
<1>2. Contents'
  BY <1>1, ContentsKept DEF SessionKept, Ended, Ready
<1>3. SavesSound' /\ DoomedSound'
  BY <1>1, SavesKept, DoomedKept DEF Ready
<1> QED BY <1>2, <1>3

LEMMA RestoreListSound ==
    ASSUME CheckpointSound, RestoreList
    PROVE  CheckpointSound'
<1>1. TypeOK /\ Contents /\ ListsSound /\ ReadersSound /\ Greatest
  BY Parts DEF Contents
<1>2. /\ Reading /\ UNCHANGED <<row, join>>
      /\ UNCHANGED <<session, newest, file, old, save, gc, expired, damaged>>
      /\ restore' = [step |-> "open", list |-> ReadyRows, epoch |-> session.epoch]
  BY DEF RestoreList, Reading, Disk, Time
<1>3. ReadyRows \in Lists /\ Begins(ReadyRows)
  BY <1>1, ReadyRowsBegin
<1>4. /\ restore' \in Restores /\ restore'.list = ReadyRows /\ restore'.epoch = session.epoch
  BY <1>1, <1>2, <1>3, SessionFields DEF Restores
<1>5. TypeOK'
  BY <1>1, <1>2, <1>4 DEF TypeOK
<1>6. ListsSound'
  BY <1>1, <1>2, <1>3, <1>4 DEF ListsSound
<1>7. ReadyRows # {} => newest # None
  BY <1>1 DEF Contents, NewestSound, ReadyRows, Ready, Located
<1>8. ReadersSound'
  BY <1>1, <1>2, <1>4, <1>7, SessionFields DEF ReadersSound, Recovering, Ready
<1> QED BY <1>2, <1>5, <1>6, <1>8, ReaderFrame, PartsNext

(* usableCheckpoint marks a checkpoint that is damaged and passes over it. *)
LEMMA PassedOverSound ==
    ASSUME CheckpointSound, RestoreOpen, Opened(restore.list) = "damaged"
    PROVE  CheckpointSound'
<1>1. TypeOK /\ Contents /\ ListsSound /\ ReadersSound
  BY Parts
<1>2. /\ UNCHANGED <<join, session, newest, file, old, save, gc, expired, damaged>>
      /\ restore' = [restore EXCEPT !.list = @ \ {First(@)}]
      /\ Mark(First(restore.list).id, "corrupt")
  BY DEF RestoreOpen, Reading, Disk, Time
<1>3. restore.list # {} /\ file[First(restore.list).id] = "damaged"
  BY DEF Opened
<1>4. PICK c \in IDs : c = First(restore.list).id
  <2>1. First(restore.list) \in restore.list
    BY <1>1, <1>3, FirstIsGreatest DEF ListsSound
  <2>2. restore.list \subseteq [id : IDs, sequence : Nat]
    BY <1>1, ReaderFields DEF Lists
  <2> QED BY <2>1, <2>2
<1>5. c \in damaged /\ save[c].step = "done"
  BY <1>1, <1>3, <1>4, NotReady DEF Contents, DamageSound
<1>6. newest # None
  BY <1>1, <1>3 DEF ReadersSound
<1>7. /\ row' \in [IDs -> Rows]
      /\ \A d \in IDs : row'[d].sequence = row[d].sequence
      /\ \A d \in IDs \ {c} : row'[d] = row[d]
      /\ row'[c].state = IF row[c].state = "absent" THEN "absent" ELSE "corrupt"
  BY <1>1, <1>2, <1>4, MarkFacts DEF RowStates
<1>8. restore' \in Restores /\ restore'.list \subseteq restore.list /\ restore'.epoch = restore.epoch
  BY <1>1, <1>2 DEF TypeOK, Restores, Lists
<1>9. /\ Ready' = Ready \ {c} /\ Located \subseteq Located' /\ Located' \subseteq Located \cup {c}
      /\ Ready \subseteq IDs
  BY <1>7 DEF Ready, Located
<1>10. TypeOK'
  BY <1>1, <1>2, <1>7, <1>8 DEF TypeOK
<1>11. SavesSound'
  <2>1. SaveSound(c)'
    <3>1. SaveSound(c)
      BY DEF CheckpointSound
    <3> QED BY <1>2, <1>5, <3>1 DEF SaveSound
  <2> QED BY <1>2, <1>7, <1>10, <2>1, OtherSaves
<1>12. DoomedSound' /\ ListsSound'
  BY <1>2, <1>8, <1>9, <1>10, DoomedKept, ListsKept
<1>13. ReadersSound'
  BY <1>2, <1>7, <1>8, <1>9, <1>10, ReadersKept
<1>14. Contents'
  <2>1. ReadyHasFile'
    BY <1>1, <1>2, <1>9 DEF Contents, ReadyHasFile
  <2>2. PointerNamesRow'
    BY <1>1, <1>2, <1>9 DEF Contents, PointerNamesRow
  <2>3. DamageSound'
    BY <1>1, <1>2, <1>5, <1>9 DEF Contents, DamageSound
  <2>4. Greatest'
    BY <1>1, <1>7 DEF Contents, Greatest
  <2>5. NewestSound'
    <3>1. NewestSound
      BY <1>1 DEF Contents
    <3>2. \A d, e \in Ready : Newer(d, e)' <=> Newer(d, e)
      BY <1>7, <1>9 DEF Newer
    <3> QED BY <1>2, <1>5, <1>6, <1>9, <3>1, <3>2 DEF NewestSound, Ended
  <2> QED BY <2>1, <2>2, <2>3, <2>4, <2>5 DEF Contents
<1> QED BY <1>10, <1>11, <1>12, <1>13, <1>14, PartsNext

(* The controller goes on to launch, or stops. *)
LEMMA RestoreEndsSound ==
    ASSUME CheckpointSound,
           \/ RestoreOpen /\ Opened(restore.list) # "damaged"
           \/ RestoreFails
    PROVE  CheckpointSound'
<1>1. TypeOK
  BY DEF CheckpointSound
<1>2. /\ Reading /\ UNCHANGED <<row, join>>
      /\ UNCHANGED <<session, newest, file, old, save, gc, expired, damaged>>
      /\ restore' \in {Idle, [restore EXCEPT !.step = "launch"]}
  BY DEF RestoreOpen, RestoreFails, Reading, Disk, Time
<1>3. /\ restore' \in Restores /\ restore'.list \subseteq restore.list
      /\ restore'.epoch \in {restore.epoch, 0}
  BY <1>1, <1>2, Constants DEF TypeOK, Restores
<1>4. TypeOK'
  BY <1>1, <1>2, <1>3 DEF TypeOK
<1>5. ReadersSound'
  BY <1>2, <1>3, <1>4, ReadersKept DEF Ready
<1>6. ListsSound'
  BY <1>2, <1>3, ListsKept
<1> QED BY <1>2, <1>4, <1>5, <1>6, ReaderFrame, PartsNext

LEMMA RestoreLaunchSound ==
    ASSUME CheckpointSound, RestoreLaunch
    PROVE  CheckpointSound'
<1>1. TypeOK /\ ReadersSound
  BY DEF CheckpointSound
<1>2. /\ Reading /\ UNCHANGED row
      /\ UNCHANGED <<session, newest, file, old, save, gc, expired, damaged>>
      /\ restore' = Idle
      /\ \/ join' = join
         \/ /\ Opened(restore.list) = "whole"
            /\ join' = [step |-> "boot", list |-> {}, epoch |-> restore.epoch]
  BY DEF RestoreLaunch, Reading, Disk, Time
<1>3. CASE join' = join
  <2>1. TypeOK'
    BY <1>1, <1>2, <1>3, Constants DEF TypeOK
  <2>2. restore'.list \subseteq restore.list /\ restore'.epoch = 0
    BY <1>2, Constants
  <2>3. ReadersSound' /\ ListsSound'
    BY <1>2, <1>3, <2>1, <2>2, ReadersKept, ListsKept DEF Ready
  <2> QED BY <1>2, <2>1, <2>3, ReaderFrame, PartsNext
<1>4. CASE Opened(restore.list) = "whole" /\ join' = [step |-> "boot", list |-> {}, epoch |-> restore.epoch]
  <2>1. restore.list # {}
    BY <1>4 DEF Opened
  <2>2. newest # None
    BY <1>1, <2>1 DEF ReadersSound
  <2>3. join' \in Joins /\ join'.step = "boot" /\ join'.list = {} /\ join'.epoch = restore.epoch
    BY <1>1, <1>4, ReaderFields DEF Joins, Lists
  <2>4. TypeOK'
    BY <1>1, <1>2, <2>3, Constants DEF TypeOK
  <2>5. restore'.list = {} /\ restore'.epoch = 0
    BY <1>2, Constants
  <2>6. ListsSound'
    BY <2>3, <2>5 DEF ListsSound, Begins
  <2>7. ReadersSound'
    <3>1. 0 <= session.epoch /\ restore.epoch <= session.epoch
      BY <1>1, SessionFields DEF ReadersSound
    <3> QED BY <1>2, <2>2, <2>3, <2>5, <3>1 DEF ReadersSound
  <2> QED BY <1>2, <2>4, <2>6, <2>7, ReaderFrame, PartsNext
<1> QED BY <1>2, <1>3, <1>4

LEMMA JoinListSound ==
    ASSUME CheckpointSound, JoinList
    PROVE  CheckpointSound'
<1>1. TypeOK /\ Contents /\ ListsSound /\ ReadersSound /\ Greatest
  BY Parts DEF Contents
<1>2. /\ Reading /\ UNCHANGED <<row, restore>>
      /\ UNCHANGED <<session, newest, file, old, save, gc, expired, damaged>>
      /\ join.step = "boot"
      /\ join' = [join EXCEPT !.step = "open", !.list = ReadyRows]
  BY DEF JoinList, Reading, Disk, Time
<1>3. ReadyRows \in Lists /\ Begins(ReadyRows)
  BY <1>1, ReadyRowsBegin
<1>4. join' \in Joins /\ join'.list = ReadyRows /\ join'.epoch = join.epoch
  BY <1>1, <1>2, <1>3 DEF TypeOK, Joins
<1>5. TypeOK'
  BY <1>1, <1>2, <1>4 DEF TypeOK
<1>6. ListsSound'
  BY <1>1, <1>2, <1>3, <1>4 DEF ListsSound
<1>7. \A c \in Ready : [id |-> c, sequence |-> row[c].sequence] \in ReadyRows
  BY DEF ReadyRows
<1>8. \A c \in Ready' : [id |-> c, sequence |-> row'[c].sequence] \in join'.list
  BY <1>2, <1>4, <1>7 DEF Ready
<1>9. ReadersSound'
  BY <1>1, <1>2, <1>4, <1>8 DEF ReadersSound
<1> QED BY <1>2, <1>5, <1>6, <1>9, ReaderFrame, PartsNext

(* registerWorker drops a row only when its file does not open, so every   *)
(* whole checkpoint stays in the list.                                     *)
LEMMA JoinOpenSound ==
    ASSUME CheckpointSound, JoinOpen
    PROVE  CheckpointSound'
<1>1. TypeOK /\ Contents /\ ListsSound /\ ReadersSound
  BY Parts DEF Contents
<1>2. /\ Reading /\ UNCHANGED <<row, restore>>
      /\ UNCHANGED <<session, newest, file, old, save, gc, expired, damaged>>
      /\ join.step = "open"
      /\ \/ join' = [join EXCEPT !.step = "restored"]
         \/ /\ Opened(join.list) \notin {"none", "whole"}
            /\ join' = [join EXCEPT !.list = @ \ {First(@)}]
  BY DEF JoinOpen, Reading, Disk, Time
<1>3. /\ join' \in Joins /\ join'.list \subseteq join.list /\ join'.epoch = join.epoch
      /\ \A r \in join.list : file[r.id] = "whole" => r \in join'.list
  <2>1. CASE join' = [join EXCEPT !.step = "restored"]
    BY <1>1, <2>1 DEF TypeOK, Joins
  <2>2. CASE /\ Opened(join.list) \notin {"none", "whole"}
             /\ join' = [join EXCEPT !.list = @ \ {First(@)}]
    <3>1. file[First(join.list).id] # "whole"
      BY <2>2 DEF Opened
    <3>2. /\ join' \in Joins /\ join'.list = join.list \ {First(join.list)}
          /\ join'.epoch = join.epoch
      BY <1>1, <2>2 DEF TypeOK, Joins, Lists
    <3> QED BY <3>1, <3>2
  <2> QED BY <1>2, <2>1, <2>2
<1>4. TypeOK'
  BY <1>1, <1>2, <1>3 DEF TypeOK
<1>5. ListsSound'
  BY <1>2, <1>3, ListsKept
<1>6. ReadersSound'
  <2>1. ASSUME Recovering(join.epoch), NEW c \in Ready, file[c] = "whole"
        PROVE  [id |-> c, sequence |-> row[c].sequence] \in join'.list
    <3>1. [id |-> c, sequence |-> row[c].sequence] \in join.list
      BY <1>1, <1>2, <2>1 DEF ReadersSound
    <3> QED BY <1>3, <2>1, <3>1
  <2>2. /\ \A c : c \in Ready' <=> c \in Ready
        /\ Recovering(join.epoch)' <=> Recovering(join.epoch)
    BY <1>2, <1>3 DEF Ready, Recovering
  <2> QED BY <1>1, <1>2, <1>3, <2>1, <2>2 DEF ReadersSound
<1> QED BY <1>2, <1>4, <1>5, <1>6, ReaderFrame, PartsNext

-----------------------------------------------------------------------------
(* The session, time and the disk.                                         *)

(* A recovery leaves every save and every reader behind; an end of the     *)
(* recovery, or of the session, asks nothing of them.                      *)
LEMMA SessionSound ==
    ASSUME CheckpointSound,
           \/ RequestRecovery \/ CompleteRecovery \/ JoinEnds
           \/ \E how \in {"closed", "lost"} : EndSession(how)
    PROVE  CheckpointSound'
<1>1. TypeOK /\ ReadersSound
  BY DEF CheckpointSound
<1>2. UNCHANGED <<row, newest, file, old, save, gc, restore, expired, damaged>>
  BY DEF RequestRecovery, CompleteRecovery, JoinEnds, EndSession, SessionMoves, Disk, Time
<1>3. join' \in {join, Idle}
  BY DEF RequestRecovery, CompleteRecovery, JoinEnds, EndSession
<1>4. /\ session' \in Sessions /\ session'.latest = session.latest
      /\ \/ session' = session
         \/ /\ session'.state = "recovering" /\ session'.epoch = session.epoch + 1
            /\ session.state \in {"active", "recovering"}
         \/ /\ session'.state = "active" /\ session'.epoch = session.epoch
            /\ session.state = "recovering"
         \/ /\ session'.state \in {"closed", "lost"} /\ session'.epoch = session.epoch
  <2>0. session \in Sessions
    BY <1>1 DEF TypeOK
  <2>1. CASE RequestRecovery
    <3>1. session.epoch + 1 \in 1 .. MaxEpoch
      BY <1>1, <2>1, SessionFields, Constants DEF RequestRecovery
    <3>2. session' = [session EXCEPT !.state = "recovering", !.epoch = session.epoch + 1]
      BY <2>1 DEF RequestRecovery
    <3>3. session.state \in {"active", "recovering"}
      BY <2>1 DEF RequestRecovery
    <3> QED BY <2>0, <3>1, <3>2, <3>3 DEF Sessions
  <2>2. CASE CompleteRecovery
    BY <2>0, <2>2 DEF CompleteRecovery, Recovering, Sessions
  <2>3. CASE JoinEnds
    BY <2>0, <2>3 DEF JoinEnds
  <2>4. ASSUME NEW how \in {"closed", "lost"}, EndSession(how)
        PROVE  /\ session' \in Sessions /\ session'.latest = session.latest
               /\ session'.state = how /\ session'.epoch = session.epoch
    BY <2>0, <2>4 DEF EndSession, Sessions
  <2> QED BY <2>0, <2>1, <2>2, <2>3, <2>4
<1>5. TypeOK'
  BY <1>1, <1>2, <1>3, <1>4, Constants DEF TypeOK
<1>6. SessionKept
  BY <1>4 DEF SessionKept, Ended
<1>7. Contents'
  BY <1>2, <1>5, <1>6, ContentsKept
<1>8. SavesSound'
  <2> SUFFICES ASSUME NEW c \in IDs PROVE SaveSound(c)'
    BY DEF SavesSound
  <2>1. SaveSound(c) /\ save[c].epoch \in Nat /\ session.epoch \in Nat
    BY <1>1, RowFields, SessionFields DEF CheckpointSound
  <2> QED BY <1>2, <1>4, <2>1 DEF SaveSound
<1>9. DoomedSound' /\ ListsSound'
  BY <1>2, <1>3, <1>5, Constants, DoomedKept, ListsKept DEF Ready
<1>10. ReadersSound'
  <2>1. CASE session' = session
    BY <1>2, <1>3, <1>5, <2>1, ReadersKept DEF Ready
  <2>2. CASE session' # session
    <3>1. /\ session.epoch \in Nat /\ restore.epoch \in Nat /\ join'.epoch \in Nat
          /\ join'.epoch <= session.epoch /\ restore.epoch <= session.epoch
          /\ session'.epoch \in {session.epoch, session.epoch + 1}
          /\ session'.state = "recovering" => session'.epoch = session.epoch + 1
      <4>1. /\ session.epoch \in Nat /\ restore.epoch \in Nat /\ join.epoch \in Nat
            /\ join.epoch <= session.epoch /\ restore.epoch <= session.epoch
        BY <1>1, SessionFields, ReaderFields DEF ReadersSound
      <4>2. join'.epoch \in {join.epoch, 0}
        BY <1>3, Constants
      <4>3. /\ session'.epoch \in {session.epoch, session.epoch + 1}
            /\ session'.state = "recovering" => session'.epoch = session.epoch + 1
        BY <1>4, <2>2
      <4> QED BY <4>1, <4>2, <4>3
    <3>2. ~(session'.state = "recovering" /\ session'.epoch = join'.epoch)
      BY <3>1
    <3>3. restore'.list # {} \/ join'.step # "rest" => newest' # None
      BY <1>1, <1>2, <1>3, Constants DEF ReadersSound
    <3>4. restore'.epoch <= session'.epoch /\ join'.epoch <= session'.epoch
      BY <1>2, <3>1
    <3> QED BY <3>2, <3>3, <3>4 DEF ReadersSound, Recovering
  <2> QED BY <2>1, <2>2
<1> QED BY <1>5, <1>7, <1>8, <1>9, <1>10, PartsNext

LEMMA TimeSound ==
    ASSUME CheckpointSound, NEW c \in IDs, Expire(c) \/ Age(c) \/ Damage(c)
    PROVE  CheckpointSound'
<1>1. TypeOK
  BY DEF CheckpointSound
<1>2. UNCHANGED <<session, row, newest, save, gc, restore, join>>
  BY DEF Expire, Age, Damage, Store, Readers
<1>3. /\ expired' \subseteq IDs
      /\ \/ UNCHANGED <<file, old, damaged>>
         \/ /\ UNCHANGED <<file, damaged>> /\ old' = old \cup {c}
            /\ file[c] # "absent" /\ save[c].step = "done"
         \/ /\ file' = [file EXCEPT ![c] = "damaged"] /\ damaged' = damaged \cup {c}
            /\ old' = old /\ save[c].step = "done"
  BY <1>1 DEF Expire, Age, Damage, Disk, Time, TypeOK
<1>4. /\ file' \in [IDs -> Files]
      /\ \A d \in IDs \ {c} : file'[d] = file[d]
      /\ file'[c] = file[c] \/ (file'[c] = "damaged" /\ c \in damaged' /\ save[c].step = "done")
      /\ damaged \subseteq damaged' /\ damaged' \subseteq IDs
      /\ old' \subseteq {d \in IDs : file'[d] # "absent"}
      /\ \A d \in IDs : d \in old' \cup damaged' => d \in old \cup damaged \/ save[d].step = "done"
  BY <1>1, <1>3 DEF TypeOK, Files
<1>5. TypeOK'
  BY <1>1, <1>2, <1>3, <1>4 DEF TypeOK, Files
<1>6. Contents'
  BY <1>2, <1>4, <1>5, ContentsKept DEF SessionKept, Ended, Ready
<1>7. SavesSound'
  <2> SUFFICES ASSUME NEW d \in IDs PROVE SaveSound(d)'
    BY DEF SavesSound
  <2>1. SaveSound(d)
    BY DEF CheckpointSound
  <2> QED BY <1>2, <1>4, <2>1 DEF SaveSound
<1>8. DoomedSound' /\ ListsSound'
  BY <1>2, <1>5, DoomedKept, ListsKept DEF Ready
<1>9. ReadersSound'
  BY <1>2, <1>4, <1>5, ReadersKept DEF Ready
<1> QED BY <1>5, <1>6, <1>7, <1>8, <1>9, PartsNext

-----------------------------------------------------------------------------
(* The theorems.                                                           *)

LEMMA InitSound == Init => CheckpointSound
<1> SUFFICES ASSUME Init PROVE CheckpointSound
  OBVIOUS
<1>1. /\ \A c \in IDs : /\ row[c].state = "absent" /\ row[c].sequence = 0
                        /\ file[c] = "absent"
                        /\ save[c].step = "unused" /\ save[c].epoch = 0
      /\ session.state = "active" /\ session.epoch = 1 /\ session.latest = None
      /\ gc = Resting /\ restore = Idle /\ join = Idle /\ newest = None
      /\ old = {} /\ damaged = {}
  BY DEF Init, NoRow, Unused
<1>2. TypeOK
  <2>1. session \in Sessions
    BY CheckpointAssumption DEF Init, Sessions
  <2>2. row \in [IDs -> Rows]
    BY Constants DEF Init
  <2>3. save \in [IDs -> Saves]
    BY Constants DEF Init, Saves, Unused
  <2> QED BY <2>1, <2>2, <2>3, Constants DEF Init, TypeOK
<1>3. Ready = {} /\ Located = {}
  BY <1>1 DEF Ready, Located
<1>4. ReadyHasFile /\ PointerNamesRow /\ DamageSound /\ NewestSound
  BY <1>1, <1>3, Constants DEF ReadyHasFile, PointerNamesRow, DamageSound, NewestSound
<1>5. Greatest
  BY <1>1 DEF Greatest
<1>6. SavesSound
  BY <1>1 DEF SavesSound, SaveSound
<1>7. DoomedSound
  BY <1>1, Constants DEF DoomedSound
<1>8. ListsSound
  BY <1>1, Constants DEF ListsSound, Begins
<1>9. ReadersSound
  <2>1. 0 <= session.epoch
    BY <1>1
  <2> QED BY <1>1, <1>3, <2>1, Constants DEF ReadersSound
<1> QED BY <1>2, <1>4, <1>5, <1>6, <1>7, <1>8, <1>9, Parts DEF Contents

LEMMA NextSound ==
    ASSUME CheckpointSound, [Next]_vars
    PROVE  CheckpointSound'
<1>1. CASE UNCHANGED vars
  <2>1. UNCHANGED <<session, row, expired, file, old, save, gc, restore, join, newest,
                    damaged>>
    BY <1>1 DEF vars
  <2>2. TypeOK'
    BY <2>1 DEF CheckpointSound, TypeOK
  <2>3. Contents'
    BY <2>1, <2>2, ContentsKept DEF SessionKept, Ended, Ready
  <2>4. SavesSound' /\ ListsSound'
    BY <2>1, <2>2, SavesKept, ListsKept
  <2>5. DoomedSound' /\ ReadersSound'
    BY <2>1, <2>2, DoomedKept, ReadersKept DEF Ready
  <2> QED BY <2>2, <2>3, <2>4, <2>5, PartsNext
<1>2. ASSUME NEW c \in IDs, SaveRead(c) \/ SaveStep(c) \/ SaveCanceled(c)
      PROVE  CheckpointSound'
  BY <1>2, SaveReadSound, SaveCreateSound, SaveFileSound, SaveMarkSound, CompletesSound,
     SaveEndsSound DEF SaveStep
<1>3. CASE GCStep \/ RoundFails
  BY <1>3, CollectSound, FileRemovedSound, RoundSound DEF GCStep
<1>4. CASE RestoreList \/ RestoreOpen \/ RestoreLaunch \/ RestoreFails \/ JoinList \/ JoinOpen
  BY <1>4, RestoreListSound, PassedOverSound, RestoreEndsSound, RestoreLaunchSound,
     JoinListSound, JoinOpenSound
<1>5. CASE RequestRecovery \/ CompleteRecovery \/ JoinEnds
             \/ \E how \in {"closed", "lost"} : EndSession(how)
  BY <1>5, SessionSound
<1>6. ASSUME NEW c \in IDs, Expire(c) \/ Age(c) \/ Damage(c)
      PROVE  CheckpointSound'
  BY <1>6, TimeSound
<1> QED BY <1>1, <1>2, <1>3, <1>4, <1>5, <1>6 DEF Next

(* CheckpointSound holds in every state: rows, files and the three parties *)
(* that work on them (saveCheckpoint, CheckpointGC, the readers of a       *)
(* recovery) stay in step however their steps interleave or stop.          *)
THEOREM CheckpointsAreSound == Spec => []CheckpointSound
<1>1. Init => CheckpointSound
  BY InitSound
<1>2. CheckpointSound /\ [Next]_vars => CheckpointSound'
  BY NextSound
<1> QED BY <1>1, <1>2, PTL DEF Spec

(* A ready row always names a file that is there: CompleteCheckpoint comes *)
(* after the rename, and Delete after GarbageCollectCheckpoints.           *)
THEOREM ReadyRowsHaveFiles == Spec => []ReadyHasFile
<1>1. CheckpointSound => ReadyHasFile
  BY DEF CheckpointSound
<1> QED BY <1>1, CheckpointsAreSound, PTL

(* latest_checkpoint_id is empty or names a completed row, whatever        *)
(* GarbageCollectCheckpoints removes.                                      *)
THEOREM PointerIsRepaired == Spec => []PointerNamesRow
<1>1. CheckpointSound => PointerNamesRow
  BY DEF CheckpointSound
<1> QED BY <1>1, CheckpointsAreSound, PTL

(* The newest completed checkpoint is neither collected by                 *)
(* GarbageCollectCheckpoints nor swept by SweepOrphans.                    *)
THEOREM NewestIsKept == Spec => []NewestSurvives
<1>1. CheckpointSound => NewestSurvives
  BY DEF CheckpointSound, NewestSound, ReadyHasFile, DamageSound, NewestSurvives
<1> QED BY <1>1, CheckpointsAreSound, PTL

(* registerWorker hands out the newest intact checkpoint of a session that *)
(* recovers.                                                               *)
THEOREM RegistrationRestoresNewest == Spec => RestoresNewest
<1> DEFINE Handed ==
      join.step = "open" /\ join'.step = "restored" /\ Recovering(join.epoch) =>
          \A c \in Ready : file[c] = "whole" =>
              join'.list # {} /\ row[c].sequence <= First(join'.list).sequence
<1>1. ASSUME CheckpointSound, [Next]_vars
      PROVE  [Handed]_vars
  <2> SUFFICES ASSUME join.step = "open", join'.step = "restored", Recovering(join.epoch),
                      NEW c \in Ready, file[c] = "whole"
               PROVE  join'.list # {} /\ row[c].sequence <= First(join'.list).sequence
    OBVIOUS
  <2>1. TypeOK /\ ListsSound /\ ReadersSound
    BY <1>1, Parts
  <2>2. [id |-> c, sequence |-> row[c].sequence] \in join.list
    BY <2>1 DEF ReadersSound
  <2>3. join'.list = join.list
    <3>1. JoinOpen
      BY <1>1, Constants
         DEF Next, vars, SaveRead, SaveStep, SaveCreate, SaveWrite, SaveRename, SaveMark,
             SaveComplete, SaveDelete, SaveCanceled, Saving, Readers, GCStep, Collect,
             ListOrphans, DeleteFile, SweepFile, Collecting, RoundFails, RestoreList,
             RestoreOpen, RestoreLaunch, RestoreFails, JoinList, RequestRecovery,
             CompleteRecovery, EndSession, JoinEnds, Expire, Age, Damage
    <3>2. join \in Joins
      BY <2>1 DEF TypeOK
    <3> QED BY <3>1, <3>2 DEF JoinOpen, Joins
  <2>4. \A s \in join.list : s.sequence <= First(join.list).sequence
    BY <2>1, <2>2, FirstIsGreatest DEF ListsSound
  <2>5. [id |-> c, sequence |-> row[c].sequence].sequence <= First(join.list).sequence
    BY <2>2, <2>4
  <2> QED BY <2>2, <2>3, <2>5
<1>2. CheckpointSound /\ [Next]_vars => [Handed]_vars
  BY <1>1
<1> QED BY <1>2, CheckpointsAreSound, PTL DEF Spec, RestoresNewest

(* CompleteRecovery finds a checkpoint restored, although registerWorker   *)
(* goes on without one, unless a file was damaged or none is retained.     *)
THEOREM RecoveryIsNotEmpty == Spec => RestoredUnlessDamaged
<1> DEFINE Restored ==
      /\ session.state = "recovering" /\ session'.state = "active"
      /\ damaged = {} /\ RetainLatest > 0
      => join.list # {}
<1>1. ASSUME CheckpointSound, [Next]_vars
      PROVE  [Restored]_vars
  <2> SUFFICES ASSUME session.state = "recovering", session'.state = "active",
                      damaged = {}, RetainLatest > 0
               PROVE  join.list # {}
    OBVIOUS
  <2>1. TypeOK /\ ReadersSound /\ NewestSound /\ ReadyHasFile /\ DamageSound
    BY <1>1 DEF CheckpointSound
  <2>2. join.step = "restored" /\ Recovering(join.epoch)
    <3>1. session \in Sessions
      BY <2>1 DEF TypeOK
    <3>2. session'.state = session.state \/ CompleteRecovery
      BY <1>1, <3>1
         DEF Next, vars, SaveRead, SaveStep, SaveCreate, SaveWrite, SaveRename, SaveMark,
             SaveComplete, SaveDelete, SaveCanceled, GCStep, Collect, ListOrphans, DeleteFile,
             SweepFile, RoundFails, RestoreList, RestoreOpen, RestoreLaunch, RestoreFails,
             JoinList, JoinOpen, Reading, RequestRecovery, EndSession, JoinEnds, Expire, Age,
             Damage, Store, Sessions
    <3> QED BY <3>2 DEF CompleteRecovery
  <2>3. newest \in IDs
    BY <2>1, <2>2 DEF ReadersSound, TypeOK
  <2>4. newest \in Ready /\ file[newest] = "whole"
    BY <2>1, <2>3 DEF NewestSound, Ended, ReadyHasFile, DamageSound
  <2> QED BY <2>1, <2>2, <2>4 DEF ReadersSound
<1>2. CheckpointSound /\ [Next]_vars => [Restored]_vars
  BY <1>1
<1> QED BY <1>2, CheckpointsAreSound, PTL DEF Spec, RestoredUnlessDamaged
=============================================================================
