----------------------------- MODULE Checkpoints -----------------------------
(***************************************************************************)
(* The checkpoints of one session: the rows of session_checkpoints         *)
(* (internal/store/sqlite/sessions.go), the files of the Filesystem        *)
(* adapter (internal/checkpoint/checkpoint.go), the requests that save     *)
(* them (saveCheckpoint, internal/httpapi/server.go), the CheckpointGC     *)
(* controller and the two readers of a recovery: usableCheckpoint of the   *)
(* recovery controller and registerWorker, which hands the replacement     *)
(* what it restores.                                                       *)
(*                                                                         *)
(* Database and directory do not change together.  Every transaction,      *)
(* every statement and every file operation is a step of its own, and a    *)
(* request, a round of a controller or all of them, when the control plane *)
(* crashes, may stop between any two.                                      *)
(*                                                                         *)
(* Of the session only state and epoch matter; they move as                *)
(* SessionLifecycle says, which SessionRecovery implements.  Time is seen  *)
(* through two sets: the checkpoints past their expires_at and the files   *)
(* older than the hour SweepOrphans leaves alone.  A save and a sweep are  *)
(* taken to last less than that hour.                                      *)
(***************************************************************************)
EXTENDS Naturals, FiniteSets

CONSTANTS
    IDs,            \* checkpoint ids, each used by one save
    None,           \* the empty latest_checkpoint_id
    RetainLatest,   \* recovery.retain_latest
    DeleteOnClose,  \* recovery.delete_on_close
    MaxEpoch,       \* bound on the epoch of the session
    MaxDamaged      \* how many files may lose their contents

ASSUME CheckpointAssumption ==
    /\ None \notin IDs
    /\ RetainLatest \in Nat
    /\ DeleteOnClose \in BOOLEAN
    /\ MaxEpoch \in Nat \ {0}
    /\ MaxDamaged \in Nat

VARIABLES
    session,   \* state, epoch and latest_checkpoint_id of the session row
    row,       \* session_checkpoints, state "absent" where there is no row
    expired,   \* the checkpoints past expires_at
    file,      \* the checkpoint directory
    old,       \* the files last modified more than an hour ago
    save,      \* where the request that saves a checkpoint is, and its epoch
    gc,        \* the round of CheckpointGC
    restore,   \* the recovery controller choosing a checkpoint
    join,      \* the registration of the replacement
    newest,    \* the newest of the completed checkpoints when one was last completed
    damaged    \* the files that lost their contents

vars == <<session, row, expired, file, old, save, gc, restore, join, newest,
          damaged>>

Store   == <<session, row, newest>>
Disk    == <<file, old>>
Time    == <<expired, damaged>>
Readers == <<restore, join>>

NoRow  == [state |-> "absent", epoch |-> 0, sequence |-> 0]
Unused == [step |-> "unused", epoch |-> 0]
Resting == [step |-> "rest", doomed |-> {}]
Idle   == [step |-> "rest", list |-> {}, epoch |-> 0]

Ended == session.state \in {"closed", "lost"}

Present(c) == row[c].state # "absent"

Ready == {c \in IDs : row[c].state = "ready"}

(* location is written when a save completes and stays in the row. *)
Located == {c \in IDs : row[c].state \in {"ready", "corrupt"}}

Newer(c, d) == row[c].sequence > row[d].sequence

(* The newest of a set of checkpoints; sequences of a session are distinct. *)
NewestOf(S) == CHOOSE c \in S : \A d \in S : ~Newer(d, c)

(* The ready rows, which is all the readers look at, as they are listed.   *)
ReadyRows == {[id |-> c, sequence |-> row[c].sequence] : c \in Ready}

(* ORDER BY sequence DESC: the row of a list that comes first. *)
First(list) == CHOOSE r \in list : \A s \in list : s.sequence <= r.sequence

Init ==
    /\ session = [state |-> "active", epoch |-> 1, latest |-> None]
    /\ row = [c \in IDs |-> NoRow]
    /\ expired = {}
    /\ file = [c \in IDs |-> "absent"]
    /\ old = {}
    /\ save = [c \in IDs |-> Unused]
    /\ gc = Resting
    /\ restore = Idle
    /\ join = Idle
    /\ newest = None
    /\ damaged = {}

-----------------------------------------------------------------------------
(* saveCheckpoint. *)

Saving(c, step) ==
    save[c].step = step /\ UNCHANGED <<gc, Readers, Time>>

GoTo(c, step) == save' = [save EXCEPT ![c].step = step]

(* The session is read once; the caller's epoch is the one it reads. *)
SaveRead(c) ==
    /\ Saving(c, "unused")
    /\ session.state = "active"
    /\ save' = [save EXCEPT ![c] = [step |-> "create", epoch |-> session.epoch]]
    /\ UNCHANGED <<Store, Disk>>

(* CreateCheckpoint *)
SaveCreate(c) ==
    /\ Saving(c, "create")
    /\ IF session.epoch = save[c].epoch
       THEN /\ row' = [row EXCEPT ![c] =
                 [state |-> "creating", epoch |-> save[c].epoch,
                  sequence |-> 1 + CHOOSE s \in {0} \cup {row[d].sequence : d \in IDs} :
                                      \A d \in IDs : row[d].sequence <= s]]
            /\ GoTo(c, "write")
       ELSE GoTo(c, "done") /\ UNCHANGED row
    /\ UNCHANGED <<session, newest, Disk>>

(* Filesystem.Save writes a .partial file and renames it. *)
SaveWrite(c) ==
    /\ Saving(c, "write")
    /\ \/ file' = [file EXCEPT ![c] = "partial"] /\ GoTo(c, "rename")
       \/ file' = file /\ GoTo(c, "mark")
    /\ UNCHANGED <<Store, old>>

SaveRename(c) ==
    /\ Saving(c, "rename")
    /\ \/ file' = [file EXCEPT ![c] = "whole"] /\ GoTo(c, "complete")
       \/ file' = [file EXCEPT ![c] = "absent"] /\ GoTo(c, "mark")
    /\ UNCHANGED <<Store, old>>

(* MarkCheckpoint changes a row in any state, and none that is gone. *)
Mark(c, state) ==
    row' = IF Present(c) THEN [row EXCEPT ![c].state = state] ELSE row

SaveMark(c) ==
    /\ Saving(c, "mark")
    /\ Mark(c, "partial")
    /\ GoTo(c, "done")
    /\ UNCHANGED <<session, newest, Disk>>

(* Mutant: the epoch of the session is not looked at again. *)
CompletableOnce(c) == row[c].state = "creating" /\ row[c].epoch = save[c].epoch

(* What the two UPDATEs of CompleteCheckpoint ask for. *)
Completable(c) ==
    /\ row[c].state = "creating" /\ row[c].epoch = save[c].epoch
    /\ session.epoch = save[c].epoch

(* CompleteCheckpoint.  The pointer moves to this checkpoint even if a     *)
(* newer one is complete already.                                          *)
SaveComplete(c) ==
    /\ Saving(c, "complete")
    /\ IF Completable(c)
       THEN /\ row' = [row EXCEPT ![c].state = "ready"]
            /\ session' = [session EXCEPT !.latest = c]
            /\ newest' = NewestOf(Located \cup {c})
            /\ GoTo(c, "done")
       ELSE GoTo(c, "delete") /\ UNCHANGED Store
    /\ UNCHANGED Disk

Remove(c) ==
    /\ file' = [file EXCEPT ![c] = "absent"]
    /\ old' = old \ {c}

SaveDelete(c) ==
    /\ Saving(c, "delete")
    /\ Remove(c)
    /\ GoTo(c, "done")
    /\ UNCHANGED Store

(* The request is canceled: whatever it would still do, on success or on   *)
(* failure, uses the same context and does not happen.                     *)
SaveCanceled(c) ==
    /\ save[c].step \notin {"unused", "done"}
    /\ GoTo(c, "done")
    /\ UNCHANGED <<Store, Disk, Time, gc, Readers>>

SaveStep(c) ==
    \/ SaveCreate(c) \/ SaveWrite(c) \/ SaveRename(c)
    \/ SaveMark(c) \/ SaveComplete(c) \/ SaveDelete(c)

-----------------------------------------------------------------------------
(* CheckpointGC. *)

Collecting(step) == gc.step = step /\ UNCHANGED <<save, Readers, Time>>

(* Mutant: retain_latest counts from zero. *)
RetainedOneLess(c) ==
    Cardinality({d \in Ready : Newer(d, c)}) + 1 < RetainLatest

(* Among the newest retain_latest ready rows. *)
Retained(c) == Cardinality({d \in Ready : Newer(d, c)}) < RetainLatest

(* Mutant: a lost session keeps its checkpoints. *)
DoomedWhenClosed ==
    {c \in IDs : /\ Present(c)
                 /\ \/ DeleteOnClose /\ session.state = "closed"
                    \/ row[c].state \in {"corrupt", "partial"}
                    \/ c \in expired /\ (c \in Ready => ~Retained(c))}

(* The rows GarbageCollectCheckpoints removes. *)
Doomed ==
    {c \in IDs : /\ Present(c)
                 /\ \/ DeleteOnClose /\ Ended
                    \/ row[c].state \in {"corrupt", "partial"}
                    \/ c \in expired /\ (c \in Ready => ~Retained(c))}

(* Mutant: the pointer of the session is left alone. *)
CollectWithoutRepair ==
    /\ Collecting("rest")
    /\ row' = [c \in IDs |-> IF c \in Doomed THEN NoRow ELSE row[c]]
    /\ gc' = [step |-> "delete", doomed |-> Doomed \cap Located]
    /\ UNCHANGED <<session, newest, Disk>>

(* The transaction: rows go, and the pointer is set to the newest row left *)
(* when any went.                                                          *)
Collect ==
    /\ Collecting("rest")
    /\ row' = [c \in IDs |-> IF c \in Doomed THEN NoRow ELSE row[c]]
    /\ session' = IF Doomed = {} THEN session
                  ELSE [session EXCEPT !.latest =
                          IF Ready \ Doomed = {} THEN None
                          ELSE NewestOf(Ready \ Doomed)]
    /\ gc' = [step |-> "delete", doomed |-> Doomed \cap Located]
    /\ UNCHANGED <<newest, Disk>>

DeleteFile(c) ==
    /\ Collecting("delete")
    /\ c \in gc.doomed
    /\ Remove(c)
    /\ gc' = [gc EXCEPT !.doomed = @ \ {c}]
    /\ UNCHANGED Store

(* Mutant: a file is an orphan however young it is. *)
OrphansOfAnyAge == {c \in IDs : file[c] # "absent"} \ Located

(* Mutant: interrupted writes are not looked for. *)
OrphansWritten == {c \in old : file[c] \in {"whole", "damaged"}} \ Located

(* Files that no row names, old enough.  A .partial file has a path of its *)
(* own, which no row ever names.                                           *)
Orphans ==
    {c \in old : file[c] # "absent"} \ {c \in Located : file[c] # "partial"}

(* ListAllCheckpoints, and the cutoff that is computed with it. *)
ListOrphans ==
    /\ Collecting("delete")
    /\ gc.doomed = {}
    /\ gc' = IF Orphans = {} THEN Resting ELSE [step |-> "sweep", doomed |-> Orphans]
    /\ UNCHANGED <<Store, Disk>>

SweepFile(c) ==
    /\ Collecting("sweep")
    /\ c \in gc.doomed
    /\ Remove(c)
    /\ gc' = IF gc.doomed = {c} THEN Resting ELSE [gc EXCEPT !.doomed = @ \ {c}]
    /\ UNCHANGED Store

(* A file operation fails and ends the round. *)
RoundFails ==
    /\ gc.step # "rest" /\ gc.doomed # {}
    /\ gc' = Resting
    /\ UNCHANGED <<Store, Disk, save, Readers, Time>>

GCStep ==
    \/ Collect \/ ListOrphans
    \/ \E c \in IDs : DeleteFile(c) \/ SweepFile(c)

-----------------------------------------------------------------------------
(* A recovery reads checkpoints. *)

Recovering(epoch) == session.state = "recovering" /\ session.epoch = epoch

Reading == UNCHANGED <<session, newest, Disk, save, gc, Time>>

(* usableCheckpoint lists the rows for a recovery the controller claimed. *)
RestoreList ==
    /\ restore.step = "rest" /\ session.state = "recovering" /\ join.epoch # session.epoch
    /\ restore' = [step |-> "open", list |-> ReadyRows, epoch |-> session.epoch]
    /\ UNCHANGED join /\ Reading /\ UNCHANGED row

(* Filesystem.Open of the first checkpoint in a list, if there is one. *)
Opened(list) == IF list = {} THEN "none" ELSE file[First(list).id]

(* It opens them in turn: one with a wrong checksum is marked and passed   *)
(* over, any other error ends this attempt at recovery.                    *)
RestoreOpen ==
    /\ restore.step = "open"
    /\ \/ /\ Opened(restore.list) = "whole"
          /\ restore' = [restore EXCEPT !.step = "launch"]
          /\ UNCHANGED row
       \/ /\ Opened(restore.list) = "damaged"
          /\ restore' = [restore EXCEPT !.list = @ \ {First(@)}]
          /\ Mark(First(restore.list).id, "corrupt")
       \/ /\ Opened(restore.list) \in {"none", "absent", "partial"}
          /\ restore' = Idle
          /\ UNCHANGED row
    /\ UNCHANGED join /\ Reading

(* The chosen checkpoint is opened a second time and the sandbox created.  *)
RestoreLaunch ==
    /\ restore.step = "launch"
    /\ join' = IF Opened(restore.list) = "whole" /\ join.step = "rest"
               THEN [step |-> "boot", list |-> {}, epoch |-> restore.epoch]
               ELSE join
    /\ restore' = Idle
    /\ Reading /\ UNCHANGED row

(* The controller stops, or fails before it has created the sandbox. *)
RestoreFails ==
    /\ restore.step # "rest"
    /\ restore' = Idle
    /\ UNCHANGED join /\ Reading /\ UNCHANGED row

(* registerWorker lists the rows for a session that is still recovering.   *)
JoinList ==
    /\ join.step = "boot" /\ Recovering(join.epoch)
    /\ join' = [join EXCEPT !.step = "open", !.list = ReadyRows]
    /\ UNCHANGED restore /\ Reading /\ UNCHANGED row

(* The replacement gets the first one that opens; with none left it gets   *)
(* none, and registers all the same.                                       *)
JoinOpen ==
    /\ join.step = "open"
    /\ join' = IF Opened(join.list) \in {"none", "whole"}
               THEN [join EXCEPT !.step = "restored"]
               ELSE [join EXCEPT !.list = @ \ {First(@)}]
    /\ UNCHANGED restore /\ Reading /\ UNCHANGED row

-----------------------------------------------------------------------------
(* The session. *)

SessionMoves == UNCHANGED <<row, newest, Disk, save, gc, restore, Time>>

RequestRecovery ==
    /\ session.epoch < MaxEpoch
    /\ session.state \in {"active", "recovering"}
    /\ session' = [session EXCEPT !.state = "recovering", !.epoch = @ + 1]
    /\ UNCHANGED join /\ SessionMoves

(* Once its worker has acknowledged what it restored. *)
CompleteRecovery ==
    /\ join.step = "restored" /\ Recovering(join.epoch)
    /\ session' = [session EXCEPT !.state = "active"]
    /\ join' = Idle
    /\ SessionMoves

EndSession(how) ==
    /\ ~Ended
    /\ session' = [session EXCEPT !.state = how]
    /\ UNCHANGED join /\ SessionMoves

(* A replacement that is no longer wanted is reaped. *)
JoinEnds ==
    /\ join.step # "rest"
    /\ join' = Idle
    /\ UNCHANGED session /\ SessionMoves

-----------------------------------------------------------------------------
(* Time and the disk. *)

Expire(c) ==
    /\ Present(c) /\ c \notin expired
    /\ expired' = expired \cup {c}
    /\ UNCHANGED <<Store, Disk, save, gc, Readers, damaged>>

Age(c) ==
    /\ file[c] # "absent" /\ save[c].step = "done"
    /\ c \notin old
    /\ old' = old \cup {c}
    /\ UNCHANGED <<Store, file, save, gc, Readers, Time>>

Damage(c) ==
    /\ file[c] = "whole" /\ save[c].step = "done" /\ Cardinality(damaged) < MaxDamaged
    /\ file' = [file EXCEPT ![c] = "damaged"]
    /\ damaged' = damaged \cup {c}
    /\ UNCHANGED <<Store, old, save, gc, Readers, expired>>

-----------------------------------------------------------------------------
Next ==
    \/ \E c \in IDs : SaveRead(c) \/ SaveStep(c) \/ SaveCanceled(c)
    \/ GCStep \/ RoundFails
    \/ RestoreList \/ RestoreOpen \/ RestoreLaunch \/ RestoreFails
    \/ JoinList \/ JoinOpen
    \/ RequestRecovery \/ CompleteRecovery \/ JoinEnds
    \/ \E how \in {"closed", "lost"} : EndSession(how)
    \/ \E c \in IDs : Expire(c) \/ Age(c) \/ Damage(c)

Spec == Init /\ [][Next]_vars

(* Requests end, the collector runs on a timer, time passes, and file      *)
(* operations do not fail for ever.                                        *)
Fairness ==
    /\ \A c \in IDs : WF_vars(SaveStep(c)) /\ WF_vars(Age(c)) /\ SF_vars(SweepFile(c))
    /\ WF_vars(GCStep)

FairSpec == Spec /\ Fairness

-----------------------------------------------------------------------------
(* Correctness. *)

Sessions == [state : {"active", "recovering", "closed", "lost"}, epoch : 1 .. MaxEpoch,
             latest : IDs \cup {None}]
Rows     == [state : {"absent", "creating", "ready", "partial", "corrupt"},
             epoch : 0 .. MaxEpoch, sequence : Nat]
Saves    == [step : {"unused", "create", "write", "rename", "mark", "complete", "delete", "done"},
             epoch : 0 .. MaxEpoch]
Lists    == SUBSET [id : IDs, sequence : Nat]
Restores == [step : {"rest", "open", "launch"}, list : Lists, epoch : 0 .. MaxEpoch]
Joins    == [step : {"rest", "boot", "open", "restored"}, list : Lists, epoch : 0 .. MaxEpoch]

(* Every variable holds a value of its type; in particular only files that *)
(* are there have an age, which SweepOrphans and Delete see to.            *)
TypeOK ==
    /\ session \in Sessions
    /\ row \in [IDs -> Rows]
    /\ expired \subseteq IDs
    /\ file \in [IDs -> {"absent", "partial", "whole", "damaged"}]
    /\ old \subseteq {c \in IDs : file[c] # "absent"}
    /\ save \in [IDs -> Saves]
    /\ gc \in [step : {"rest", "delete", "sweep"}, doomed : SUBSET IDs]
    /\ restore \in Restores
    /\ join \in Joins
    /\ newest \in IDs \cup {None}
    /\ damaged \subseteq IDs

(* A ready row names a file that is there, although files are written      *)
(* before and removed after the rows that name them, by other parties.     *)
ReadyHasFile == \A c \in Ready : file[c] \in {"whole", "damaged"}

(* The pointer of the session is empty or names a row that was completed   *)
(* and still exists, whatever the collector has removed.                   *)
PointerNamesRow == session.latest # None => session.latest \in Located

(* The newest completed checkpoint outlives every collection, sweep, crash *)
(* and recovery: it is removed only from an ended session or for damage.   *)
NewestSurvives ==
    newest \in IDs \ damaged /\ RetainLatest > 0 /\ ~(DeleteOnClose /\ Ended) =>
        newest \in Ready /\ file[newest] = "whole"

(* A save that is under way has completed nothing, its file is nobody      *)
(* else's, and it cannot complete once the session recovers.               *)
SaveSound(c) ==
    /\ save[c].step # "done" => /\ row[c].state \in {"absent", "creating"}
                                /\ c \notin old /\ c \notin damaged
    /\ save[c].step = "complete" => file[c] = "whole"
    /\ save[c].epoch <= session.epoch
    /\ save[c].step \notin {"unused", "done"} /\ session.state = "recovering" =>
          save[c].epoch < session.epoch

(* What the collector still removes, nobody will complete. *)
DoomedSound == \A c \in gc.doomed : save[c].step = "done" /\ c \notin Ready

(* Rows and files fail together, and only by damage. *)
DamageSound ==
    \A c \in IDs : /\ file[c] = "damaged" => c \in damaged
                   /\ c \in Located \ damaged => c \in Ready

(* The MAX(sequence) of CreateCheckpoint, and the row a list begins with.  *)
OrderSound ==
    /\ \E s \in {0} \cup {row[d].sequence : d \in IDs} : \A d \in IDs : row[d].sequence <= s
    /\ \A list \in {restore.list, join.list} :
          list # {} => \E r \in list : \A s \in list : s.sequence <= r.sequence

(* The checkpoint that must survive is the first in every list. *)
NewestSound ==
    /\ newest = None => Located = {}
    /\ newest \in IDs \ damaged /\ RetainLatest > 0 /\ ~(DeleteOnClose /\ Ended) =>
          newest \in Ready /\ \A d \in Ready : ~Newer(d, newest)

(* What a recovery reads stays true while that recovery goes on. *)
ReadersSound ==
    /\ restore.epoch <= session.epoch /\ join.epoch <= session.epoch
    /\ restore.list # {} \/ join.step # "rest" => newest # None
    /\ join.step \in {"open", "restored"} /\ Recovering(join.epoch) =>
          \A c \in Ready : file[c] = "whole" =>
              [id |-> c, sequence |-> row[c].sequence] \in join.list

(* Why nothing that a recovery needs is lost between database and disk:    *)
(* a checkpoint is completed by the save that wrote its file, is removed   *)
(* only after its row, and is read by a recovery that no save can reach.   *)
CheckpointSound ==
    /\ TypeOK /\ ReadyHasFile /\ PointerNamesRow
    /\ \A c \in IDs : SaveSound(c)
    /\ DoomedSound /\ DamageSound /\ OrderSound /\ NewestSound /\ ReadersSound

(* While a session recovers, the replacement is handed a checkpoint at     *)
(* least as new as every intact one there is, and none only if there is    *)
(* none: nothing becomes ready behind the back of a recovery.              *)
RestoresNewest ==
    [][join.step = "open" /\ join'.step = "restored" /\ Recovering(join.epoch) =>
          \A c \in Ready : file[c] = "whole" =>
              join'.list # {} /\ row[c].sequence <= First(join'.list).sequence]_vars

(* A session whose files keep their contents never resumes empty: what the *)
(* controller found usable is still there when the replacement registers,  *)
(* although the collector runs in between and registration goes on without *)
(* a checkpoint.                                                           *)
RestoredUnlessDamaged ==
    [][/\ session.state = "recovering" /\ session'.state = "active"
       /\ damaged = {} /\ RetainLatest > 0
       => join.list # {}]_vars

(* With delete_on_close nothing of an ended session remains, neither rows  *)
(* nor files, whenever its saves were interrupted.                         *)
EndedLeavesNothing ==
    DeleteOnClose /\ Ended ~> \A c \in IDs : ~Present(c) /\ file[c] = "absent"

(* A file no row names does not stay.                                      *)
OrphansAreSwept ==
    \A c \in IDs :
        file[c] # "absent" /\ c \notin Located /\ save[c].step = "done"
        ~> file[c] = "absent"
=============================================================================
