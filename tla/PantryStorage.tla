---------------------------- MODULE PantryStorage ----------------------------
(***************************************************************************)
(* The pantry of one scope as the tabs of a browser keep it                *)
(* (frontend/src/storage/pantryStorage.ts, the transactions of             *)
(* indexedDb.ts it runs, and localPantryStore.ts): a canonical row in      *)
(* IndexedDB, a mirror of it in localStorage, both numbered by a revision, *)
(* and, once two tabs disagree, a backup of the copies and a marker that   *)
(* pause the pantry until the user chooses one.                            *)
(*                                                                         *)
(* A snapshot is the set of the edits it was built with.  The scope is an  *)
(* account's or a house's, every stored snapshot carries a revision, the   *)
(* tabs share a clock that does not go back, and IndexedDB, localStorage   *)
(* and Web Locks exist although a write to the first two may fail.  A tab  *)
(* reads the storage it needs for one decision in one step.  The writes of *)
(* a synchronization and of a dinner are left out.                         *)
(***************************************************************************)
EXTENDS Naturals, Sequences, FiniteSets

CONSTANTS
  Tab,
  None,        \* no row, no mirror, no copy, no holder, nothing to retry
  Unset,       \* this tab has not observed the row
  MaxEdits,
  MaxReads,    \* bound on the times a tab reads the pantry into its store
  MaxEvents,   \* bound on the writes that fail, the tabs that close, the
               \* copies chosen, the conflicts reopened and the moves of the
               \* clock, together
  Stride       \* how far the clock moves at a time

(* A snapshot with its revision: in the row, in the mirror or as a copy of *)
(* a conflict.                                                             *)
Snapshot == SUBSET (1 .. MaxEdits)
Row  == [snap : Snapshot, rev : Nat, obsolete : BOOLEAN]
Copy == [snap : Snapshot, rev : Nat]

ASSUME BoundsTyped   == {MaxEdits, MaxReads, MaxEvents, Stride} \subseteq Nat
ASSUME NamesDistinct == None \notin Row /\ None \notin Copy /\ None \notin Tab

VARIABLES
  canonical,   \* keyValue[pantry]: a snapshot, its revision, mirrorObsolete
  mirror,      \* localStorage[ikuck-pantry-v1]: a snapshot and its revision
  marker,      \* localStorage[...-conflict]
  backup,      \* keyValue[ikuck-pantry-conflict-backup-v1], or NoBackup
  archive,     \* keyValue[ikuck-pantry-conflict-archive-v1]
  lock,        \* the tab that holds the Web Lock between two steps
  tab,         \* the memory of each tab
  clock,       \* Date.now()
  \* history
  edits, reads, events,
  ids,         \* backups created: their random identities
  opened,      \* the tabs that were ever opened
  saved,       \* the edits a tab reported as saved
  lost         \* the edits overwritten by a tab whose store did not show them

stored   == <<canonical, mirror, marker, backup, archive>>
counters == <<clock, edits, reads, events>>
history  == <<saved, lost>>
vars     == <<stored, lock, tab, counters, ids, opened, history>>

Idle == [pc |-> "idle"]

Closed == [open |-> FALSE, state |-> {}, observed |-> Unset, latest |-> 0,
           active |-> None, queue |-> <<>>, job |-> Idle, retry |-> None,
           blind |-> FALSE]

(* Tab t has this memory from now on.                                      *)
Set(t, memory) == tab' = [tab EXCEPT ![t] = memory]

(* A write that fails, a tab that closes, a decision of the user.          *)
Counted == events < MaxEvents /\ events' = events + 1 /\ UNCHANGED <<edits, reads>>
Event   == Counted /\ UNCHANGED clock

SnapOf(r) == IF r = None THEN {} ELSE r.snap
RevOf(r)  == IF r = None THEN 0 ELSE r.rev
Larger(a, b) == IF a > b THEN a ELSE b

(* nextPantryRevision, asked twice: not below the clock and above what     *)
(* this tab and the mirror know, and then above the row as well.           *)
NextRevision(t) ==
  1 + Larger(Larger(clock, 1 + Larger(tab[t].latest, RevOf(mirror))), RevOf(canonical))

(***************************************************************************)
(* Reading.  The newest revision wins; two contents under one revision     *)
(* cannot be ordered.                                                      *)
(***************************************************************************)
(* Mutant: contents that differ are ambiguous under any two revisions.     *)
Differ == canonical # None /\ mirror # None /\ canonical.snap # mirror.snap

Ambiguous == /\ canonical # None /\ mirror # None
             /\ canonical.rev = mirror.rev /\ canonical.snap # mirror.snap

Selected == IF mirror # None /\ mirror.rev > RevOf(canonical) THEN mirror.snap
            ELSE SnapOf(canonical)

(***************************************************************************)
(* The pause (throwIfPantryConflictActive and what it calls).  A backup    *)
(* without a choice pauses the pantry, and so does the marker, which also  *)
(* brings a resolved backup back.                                          *)
(***************************************************************************)
NoBackup   == [id |-> 0, copies |-> {}, resolved |-> TRUE, chosen |-> None]
Unresolved == ~backup.resolved
Paused     == Unresolved \/ marker

(* The copies a tab finds behind the pause, if any.                        *)
Copies(t) == IF backup # NoBackup THEN backup.copies ELSE tab[t].active

(* What the gate leaves in the tab and in the marker.                      *)
GateActive(t) == IF Paused THEN Copies(t) ELSE None
GateMarks     == marker' = Paused

(* isPantrySnapshotConflictActive: what an edit can ask without waiting.   *)
Blocked(t) == tab[t].active # None \/ marker

(* uniqueConflictCopies: a content is kept once, under its first revision.  *)
CopyOf(r)   == [snap |-> SnapOf(r), rev |-> RevOf(r)]
Joined(old, new) == old \cup {c \in new : \A d \in old : d.snap # c.snap}

(* Mutant: a conflict replaces the copies of the one before it.            *)
PreservedAlone(copies) ==
  [id |-> ids + 1, copies |-> copies, resolved |-> FALSE, chosen |-> None]

(* createConflictBackup: copies join a backup that awaits a choice.        *)
Preserved(copies) ==
  IF Unresolved THEN [backup EXCEPT !.copies = Joined(@, copies)]
  ELSE [id |-> ids + 1, copies |-> copies, resolved |-> FALSE, chosen |-> None]

Preserve(copies) ==
  /\ backup' = Preserved(copies)
  /\ ids' = IF Unresolved THEN ids ELSE ids + 1

(* A conflict a tab announces: its copies are stored, the pantry pauses.   *)
Conflict(t, first, others, memory) ==
  /\ Preserve(Joined(first, others))
  /\ marker' = TRUE
  /\ Set(t, [memory EXCEPT !.active = backup'.copies])

(***************************************************************************)
(* A tab opens, or its store reads the pantry again (hydratePantryStore).  *)
(* Zustand then writes back what the store holds.                          *)
(***************************************************************************)
Soft(snap) == [snap |-> snap, hard |-> FALSE]
Hard(snap) == [snap |-> snap, hard |-> TRUE]
Rehydrate  == [kind |-> "hydrate"]
WriteAgain(snap) == [kind |-> "write", snap |-> snap]

At(t, pc) == tab[t].job.pc = pc
Quiet(t)  == At(t, "idle") /\ tab[t].queue = <<>>

(* With nothing stored the store keeps what it has.                        *)
Shown(t) == IF canonical = None /\ mirror = None THEN tab[t].state ELSE Selected

Hydrate(t) ==
  /\ reads < MaxReads /\ reads' = reads + 1
  /\ LET keeps  == [tab[t] EXCEPT !.open = TRUE, !.retry = Rehydrate,
                                  !.blind = ~tab[t].open \/ @,
                                  !.queue = Append(@, Soft(tab[t].state))]
         latest == Larger(tab[t].latest, RevOf(canonical))
     IN CASE Paused ->
               /\ Set(t, [keeps EXCEPT !.active = Copies(t)])
               /\ GateMarks /\ UNCHANGED <<backup, ids>>
          [] ~Paused /\ Ambiguous ->
               Conflict(t, {CopyOf(canonical)}, {CopyOf(mirror)},
                        [keeps EXCEPT !.observed = canonical, !.latest = latest])
          [] OTHER ->
               /\ Set(t, [tab[t] EXCEPT !.open = TRUE, !.state = Shown(t), !.observed = canonical,
                                        !.latest = latest, !.active = None, !.retry = None,
                                        !.blind = FALSE, !.queue = Append(@, Soft(Shown(t)))])
               /\ GateMarks /\ UNCHANGED <<backup, ids>>
  /\ UNCHANGED <<canonical, mirror, archive, lock, clock, edits, events, history>>
  /\ opened' = opened \cup {t}

Open(t) == ~tab[t].open /\ Hydrate(t)

(* The tab is closed between any two steps; the browser frees its lock.    *)
Close(t) ==
  /\ tab[t].open /\ Event
  /\ tab' = [tab EXCEPT ![t] = Closed]
  /\ lock' = IF lock = t THEN None ELSE lock
  /\ UNCHANGED <<stored, ids, opened, history>>

(* Every operation of the store: it changes the state, which Zustand       *)
(* writes, and writes the same snapshot itself to tell the user.           *)
Edit(t) ==
  /\ tab[t].open /\ ~Blocked(t)
  /\ edits < MaxEdits /\ edits' = edits + 1
  /\ LET snap == tab[t].state \cup {edits'}
     IN Set(t, [tab[t] EXCEPT !.state = snap, !.retry = None,
                              !.queue = @ \o <<Soft(snap), Hard(snap)>>])
  /\ UNCHANGED <<stored, lock, clock, reads, events, ids, opened, history>>

(* The retry of a status that says "memory only", pressed while no write   *)
(* of the tab is under way.                                                *)
Retry(t) ==
  /\ tab[t].open /\ Quiet(t) /\ tab[t].retry # None
  /\ \/ tab[t].retry.kind = "hydrate" /\ Hydrate(t)
     \/ /\ tab[t].retry.kind = "write"
        /\ Set(t, [tab[t] EXCEPT !.retry = None, !.queue = <<Hard(tab[t].retry.snap)>>])
        /\ UNCHANGED <<stored, lock, counters, ids, opened, history>>

(* A synchronization or a queued mutation asks whether the pantry is       *)
(* paused (assertPantrySyncAvailable), and may find that it no longer is.  *)
AskPause(t) ==
  /\ tab[t].open /\ (tab[t].active # GateActive(t) \/ marker # Paused)
  /\ Set(t, [tab[t] EXCEPT !.active = GateActive(t)]) /\ GateMarks
  /\ UNCHANGED <<canonical, mirror, backup, archive, lock, counters, ids, opened, history>>

(***************************************************************************)
(* A write (persistPantrySnapshotWithCrossTabCheck).  The writes of a tab  *)
(* run one after the other.                                                *)
(***************************************************************************)
(* How a write that threw leaves the status the user sees.                 *)
RetryOf(w) == IF w.hard THEN WriteAgain(w.snap) ELSE Rehydrate

(* The memory of tab t once its write, or its recovery, is over: in one    *)
(* way or another, or with an error, or well.                              *)
Ended(t)     == [tab[t] EXCEPT !.job = Idle]
Throws(t, w) == [tab[t] EXCEPT !.job = Idle, !.retry = RetryOf(w)]
Done(t, w)   == [tab[t] EXCEPT !.job = Idle, !.retry = IF w.hard THEN None ELSE @]

(* A write ends without an error: only the second one says "saved".        *)
Succeeds(t, w) ==
  /\ saved' = IF w.hard THEN saved \cup w.snap ELSE saved
  /\ UNCHANGED lost

Attempt(w) == [snap |-> w.snap, rev |-> w.rev, obsolete |-> TRUE]
InMirror(w) == [snap |-> w.snap, rev |-> w.rev]

(* Mutant: the write expects the row it has just read.                     *)
ExpectsWhatIsStored(t) == canonical

(* The row this write may replace: the one the tab observed.               *)
Expected(t) == IF canonical # None /\ tab[t].observed # Unset
               THEN tab[t].observed ELSE canonical

Prepare(t) ==
  /\ tab[t].open /\ At(t, "idle") /\ tab[t].queue # <<>>
  /\ LET w     == Head(tab[t].queue)
         fails == [tab[t] EXCEPT !.queue = Tail(@), !.retry = RetryOf(w)]
         job   == [pc |-> "compare", read |-> canonical, expects |-> Expected(t),
                   expectsMirror |-> mirror, rev |-> NextRevision(t),
                   snap |-> w.snap, hard |-> w.hard]
     IN CASE Paused ->
               /\ Set(t, [fails EXCEPT !.active = Copies(t)])
               /\ GateMarks /\ UNCHANGED <<backup, ids>>
          [] ~Paused /\ Ambiguous ->
               Conflict(t, {CopyOf(canonical)}, {CopyOf(mirror)},
                        [fails EXCEPT !.latest = NextRevision(t)])
          [] OTHER ->
               /\ Set(t, [tab[t] EXCEPT !.active = None, !.queue = Tail(@), !.job = job,
                                        !.latest = NextRevision(t)])
               /\ GateMarks /\ UNCHANGED <<backup, ids>>
  /\ UNCHANGED <<canonical, mirror, archive, lock, counters, opened, history>>

(* Mutant: the row is replaced whatever it holds by then.                  *)
AnyRow(w) == TRUE

(* The row is still the one the write may replace.                         *)
SameRow(w) == canonical = w.expects

(* writeKeyValue with a compareAndWrite: one transaction of IndexedDB.     *)
Compare(t) ==
  LET w == tab[t].job
  IN /\ At(t, "compare")
     /\ IF SameRow(w)
        THEN /\ canonical' = Attempt(w)
             /\ Set(t, [tab[t] EXCEPT !.observed = Attempt(w), !.job.pc = "mirror"])
             /\ lost' = IF tab[t].blind THEN lost \cup (SnapOf(canonical) \ w.snap) ELSE lost
             /\ UNCHANGED <<marker, backup, ids>>
        ELSE /\ Conflict(t, {CopyOf(canonical)}, {CopyOf(w)}, Throws(t, w))
             /\ UNCHANGED <<canonical, lost>>
     /\ UNCHANGED <<mirror, archive, lock, counters, opened, saved>>

(* The marker is set while the transaction that stores the copies runs:    *)
(* a tab closed before it commits leaves the marker alone.                 *)
CloseInConflict(t) ==
  /\ At(t, "compare") /\ ~SameRow(tab[t].job) /\ Event
  /\ marker' = TRUE
  /\ tab' = [tab EXCEPT ![t] = Closed]
  /\ UNCHANGED <<canonical, mirror, backup, archive, lock, ids, opened, history>>

CompareFails(t) ==
  /\ At(t, "compare") /\ Event
  /\ Set(t, [tab[t] EXCEPT !.job.pc = "fallback"])
  /\ UNCHANGED <<stored, lock, ids, opened, history>>

(* persistLocalStorageSnapshotWithCrossTabCheck finds another mirror than  *)
(* the write was prepared with.  The conflict is stored; only a backup     *)
(* that already awaits a choice also sets the marker.                      *)
MirrorChanged(t) ==
  LET w == tab[t].job
      both == {CopyOf(mirror), CopyOf(w)}
  IN IF mirror = None
     THEN /\ Set(t, IF w.hard THEN Throws(t, w) ELSE Ended(t))
          /\ UNCHANGED <<marker, backup, ids>>
     ELSE /\ Preserve(IF Unresolved THEN Joined({CopyOf(mirror)}, {CopyOf(w)}) ELSE both)
          /\ marker' = (marker \/ Unresolved)
          /\ Set(t, [Throws(t, w) EXCEPT !.active = IF Unresolved THEN backup'.copies ELSE @])

(* After a failed IndexedDB write: the mirror alone, under the lock.  The  *)
(* tab then counts the row it read as observed.                            *)
Fallback(t) ==
  LET w == tab[t].job
  IN /\ At(t, "fallback") /\ lock = None
     /\ IF mirror = w.expectsMirror
        THEN LET blind == tab[t].blind \/ w.read # w.expects
             IN /\ mirror' = InMirror(w)
                /\ Set(t, [tab[t] EXCEPT !.observed = w.read, !.blind = blind, !.job = Idle,
                                         !.retry = IF w.hard THEN WriteAgain(w.snap) ELSE @])
                /\ lost' = IF blind THEN lost \cup (Selected \ w.snap) ELSE lost
                /\ UNCHANGED <<marker, backup, ids>>
        ELSE MirrorChanged(t) /\ UNCHANGED <<mirror, lost>>
     /\ UNCHANGED <<canonical, archive, lock, counters, opened, saved>>

(* The mirror follows the row.                                             *)
Mirror(t) ==
  LET w == tab[t].job
  IN /\ At(t, "mirror") /\ lock = None
     /\ IF mirror = w.expectsMirror
        THEN /\ mirror' = InMirror(w)
             /\ Set(t, [tab[t] EXCEPT !.job.pc = "refresh"])
             /\ UNCHANGED <<marker, backup, ids>>
        ELSE MirrorChanged(t) /\ UNCHANGED mirror
     /\ UNCHANGED <<canonical, archive, lock, counters, opened, history>>

(* localStorage refuses the value: the stale mirror is removed.            *)
MirrorDenied(t) ==
  LET w == tab[t].job
  IN /\ At(t, "mirror") /\ lock = None /\ mirror = w.expectsMirror /\ Event
     /\ mirror' = None
     /\ Set(t, Done(t, w))
     /\ Succeeds(t, w)
     /\ UNCHANGED <<canonical, marker, backup, archive, lock, ids, opened>>

(* The row says that its mirror is fresh.                                  *)
Refresh(t) ==
  LET w == tab[t].job
  IN /\ At(t, "refresh")
     /\ \/ /\ canonical = Attempt(w)
           /\ canonical' = [canonical EXCEPT !.obsolete = FALSE]
           /\ Set(t, [Done(t, w) EXCEPT !.observed = canonical'])
           /\ Succeeds(t, w)
           /\ UNCHANGED <<marker, backup, ids, counters>>
        \/ /\ canonical # Attempt(w)
           /\ Conflict(t, {CopyOf(canonical)}, {CopyOf(w)}, Throws(t, w))
           /\ UNCHANGED <<canonical, history, counters>>
        \/ /\ Event
           /\ Set(t, Done(t, w)) /\ Succeeds(t, w)
           /\ UNCHANGED <<canonical, marker, backup, ids>>
     /\ UNCHANGED <<mirror, archive, lock, opened>>

(* The copies the device keeps of its conflicts.                           *)
Kept == backup.copies \cup UNION {a.copies : a \in archive}
KeptEdits == UNION {c.snap : c \in Kept}

(***************************************************************************)
(* The user chooses a copy (recoverPantrySnapshot), holding the lock.      *)
(***************************************************************************)
(* The backup the recovery works on, and stores when it is not stored or   *)
(* is a resolved one that the marker brought back.                         *)
Recoverable(t) ==
  IF Unresolved THEN backup
  ELSE IF backup # NoBackup THEN [backup EXCEPT !.resolved = FALSE, !.chosen = None]
  ELSE [id |-> ids + 1, copies |-> tab[t].active, resolved |-> FALSE, chosen |-> None]

RecoveryRevision(t, copy) ==
  Larger(clock, 1 + Larger(copy.rev, Larger(tab[t].latest, RevOf(canonical))))

Choose(t, copy) ==
  /\ tab[t].open /\ Quiet(t) /\ lock = None
  /\ Paused /\ Event
  /\ backup' = Recoverable(t)
  /\ ids' = IF backup = NoBackup THEN ids + 1 ELSE ids
  /\ lock' = t
  /\ LET job == [pc |-> "commit", id |-> backup'.id, copies |-> backup'.copies, copy |-> copy,
                 rev |-> RecoveryRevision(t, copy)]
     IN Set(t, [tab[t] EXCEPT !.active = IF Unresolved THEN @ ELSE backup'.copies,
                              !.job = job])
  /\ UNCHANGED <<canonical, mirror, marker, archive, opened, history>>

Entry(w) == [id |-> w.id, chosen |-> w.copy, copies |-> w.copies, resolved |-> FALSE]
Chosen(w) == [snap |-> w.copy.snap, rev |-> w.rev, obsolete |-> TRUE]

(* A recovery that is refused or fails frees the lock; the pause remains.  *)
GivesUp(t) == Set(t, [Ended(t) EXCEPT !.active = Copies(t)]) /\ lock' = None

(* The archive with this recovery's entry in it.                           *)
Archived(w) == {a \in archive : ~(a.id = w.id /\ a.chosen = w.copy)} \cup {Entry(w)}

(* commitPantryRecoverySnapshot: refused when the backup changed or an     *)
(* earlier recovery of it chose another copy.                              *)
Commit(t) ==
  LET w == tab[t].job
  IN /\ At(t, "commit")
     /\ IF /\ backup.id = w.id /\ ~backup.resolved /\ backup.copies = w.copies
           /\ backup.chosen \in {None, w.copy}
        THEN /\ archive' = Archived(w)
             /\ backup' = [backup EXCEPT !.chosen = w.copy]
             /\ canonical' = Chosen(w)
             /\ Set(t, [tab[t] EXCEPT !.observed = Chosen(w), !.latest = w.rev, !.job.pc = "copy"])
             /\ lost' = lost \cup (SnapOf(canonical) \ KeptEdits)
             /\ UNCHANGED lock
        ELSE GivesUp(t) /\ UNCHANGED <<archive, backup, canonical, lost>>
     /\ UNCHANGED <<mirror, marker, counters, ids, opened, saved>>

CopyToMirror(t) ==
  LET w == tab[t].job
  IN /\ At(t, "copy")
     /\ \/ /\ mirror' = InMirror(Chosen(w))
           /\ Set(t, [tab[t] EXCEPT !.job.pc = "finalize"])
           /\ UNCHANGED <<lock, counters>>
        \/ Event /\ GivesUp(t) /\ UNCHANGED mirror
     /\ UNCHANGED <<canonical, marker, backup, archive, ids, opened, history>>

(* finalizePantryRecoverySnapshot: refused when copies joined the backup   *)
(* since the commit.                                                       *)
Finalize(t) ==
  LET w == tab[t].job
  IN /\ At(t, "finalize")
     /\ IF /\ backup.id = w.id /\ backup.chosen = w.copy /\ backup.copies = w.copies
           /\ canonical = Chosen(w) /\ Entry(w) \in archive
        THEN /\ archive' = (archive \ {Entry(w)}) \cup {[Entry(w) EXCEPT !.resolved = TRUE]}
             /\ canonical' = [canonical EXCEPT !.obsolete = FALSE]
             /\ backup' = [backup EXCEPT !.resolved = TRUE]
             /\ Set(t, [tab[t] EXCEPT !.observed = canonical', !.job.pc = "clear"])
             /\ UNCHANGED lock
        ELSE GivesUp(t) /\ UNCHANGED <<archive, canonical, backup>>
     /\ UNCHANGED <<mirror, marker, counters, ids, opened, history>>

(* The marker goes and the store shows the chosen copy, even if an edit    *)
(* made during the recovery is still to be written.                        *)
ClearPause(t) ==
  LET w == tab[t].job
  IN /\ At(t, "clear")
     /\ marker' = FALSE /\ lock' = None
     /\ Set(t, [Ended(t) EXCEPT !.state = w.copy.snap, !.active = None, !.retry = None,
                                !.blind = tab[t].queue # <<>>])
     /\ UNCHANGED <<canonical, mirror, backup, archive, counters, ids, opened, history>>

(* reopenPantryArchivedConflict: the copies of a past choice and what is   *)
(* stored now are to be chosen from again.                                 *)
Reopen(t, a) ==
  /\ tab[t].open /\ Quiet(t) /\ lock = None
  /\ ~Paused /\ ~Ambiguous /\ a.resolved
  /\ Event
  /\ Conflict(t, a.copies, {[snap |-> Selected, rev |-> 0]}, [tab[t] EXCEPT !.observed = canonical])
  /\ UNCHANGED <<canonical, mirror, archive, lock, opened, history>>

(* Time passes.                                                            *)
ClockMoves ==
  /\ Counted /\ clock' = clock + Stride
  /\ UNCHANGED <<stored, lock, tab, ids, opened, history>>

-----------------------------------------------------------------------------
Init ==
  /\ canonical = None /\ mirror = None /\ marker = FALSE /\ backup = NoBackup
  /\ archive = {} /\ lock = None
  /\ tab = [t \in Tab |-> Closed]
  /\ clock = 0 /\ edits = 0 /\ reads = 0 /\ events = 0 /\ ids = 0
  /\ opened = {} /\ saved = {} /\ lost = {}

Write(t) == \/ Prepare(t) \/ Compare(t) \/ CompareFails(t) \/ Fallback(t)
            \/ Mirror(t) \/ MirrorDenied(t) \/ Refresh(t)

Recovery(t) == \/ Commit(t) \/ CopyToMirror(t) \/ Finalize(t) \/ ClearPause(t)

Next ==
  \/ ClockMoves
  \/ \E t \in Tab :
       \/ Open(t) \/ Close(t) \/ CloseInConflict(t)
       \/ Edit(t) \/ Retry(t) \/ AskPause(t)
       \/ Write(t) \/ Recovery(t)
       \/ Copies(t) # None /\ \E copy \in Copies(t) : Choose(t, copy)
       \/ \E a \in archive : Reopen(t, a)

Spec == Init /\ [][Next]_vars

-----------------------------------------------------------------------------
(* Every variable holds values of its kind, and a tab does its own steps.  *)
Entered  == [snap : Snapshot, hard : BOOLEAN]
Backup   == [id : Nat, copies : SUBSET Copy, resolved : BOOLEAN, chosen : Copy \cup {None}]

WriteJob ==
  [pc : {"compare", "fallback", "mirror", "refresh"}, read : Row \cup {None},
   expects : Row \cup {None}, expectsMirror : Copy \cup {None}, rev : Nat,
   snap : Snapshot, hard : BOOLEAN]

RecoveryJob == [pc : {"commit", "copy", "finalize", "clear"}, id : Nat,
                copies : SUBSET Copy, copy : Copy, rev : Nat]

Memory ==
  [open : BOOLEAN, state : Snapshot, observed : Row \cup {None, Unset}, latest : Nat,
   active : (SUBSET Copy) \cup {None}, queue : Seq(Entered),
   job : {Idle} \cup WriteJob \cup RecoveryJob,
   retry : {None, Rehydrate} \cup [kind : {"write"}, snap : Snapshot], blind : BOOLEAN]

TypeOK ==
  /\ canonical \in Row \cup {None} /\ mirror \in Copy \cup {None}
  /\ marker \in BOOLEAN /\ backup \in Backup
  /\ archive \subseteq [id : Nat, chosen : Copy, copies : SUBSET Copy, resolved : BOOLEAN]
  /\ lock \in Tab \cup {None}
  /\ tab \in [Tab -> Memory] /\ clock \in Nat
  /\ edits \in 0 .. MaxEdits /\ reads \in Nat /\ events \in Nat /\ ids \in Nat
  /\ opened \subseteq Tab /\ saved \subseteq 1 .. MaxEdits /\ lost \subseteq 1 .. MaxEdits

(* AcknowledgedKept: an edit whose write was reported as saved             *)
(* (trackPersistence) is in what a reader selects, or in a copy that the   *)
(* conflict backup or the archive keeps, however the tabs' writes, their   *)
(* failures, closings and recoveries interleave.  Excepted is what a tab   *)
(* overwrote that had opened during a pause, that had edited during its    *)
(* own recovery, or that after a failed write took a row it had only       *)
(* compared for one it had read, and the row that a recovery replaced      *)
(* without a copy of it (SavedIsKept and SavedSurvivesRecovery are the     *)
(* same without these).                                                    *)
AcknowledgedKept == saved \ lost \subseteq Selected \cup KeptEdits

(* CopiesKept: a copy of a conflict never disappears: it stays in the      *)
(* backup or moves to the archive, whatever conflicts and recoveries       *)
(* follow.                                                                 *)
CopiesKept == [][{c.snap : c \in Kept} \subseteq {c.snap : c \in Kept'}]_vars

(* ChosenIsRead: a recovery leaves a reader with the copy the user chose,  *)
(* and until it has ended only a write that was prepared after it changes  *)
(* what is read, although other tabs held writes prepared before.          *)
ChosenIsRead ==
  [][\A t \in Tab :
       /\ At(t, "finalize") /\ tab'[t].job.pc = "clear" => Selected' = tab[t].job.copy.snap
       /\ At(t, "clear") /\ Selected' # Selected
            => \E u \in Tab \ {t} :
                 At(u, "compare") /\ RevOf(tab[u].job.read) >= tab[t].job.rev]_vars

(* OneTabNeverPaused: a browser in which only one tab was ever opened      *)
(* never meets a conflict, whatever writes failed and whenever it closed.  *)
OneTabNeverPaused == Cardinality(opened) = 1 => ~Paused /\ backup = NoBackup

(* SavedIsKept: a saved edit is kept, "instead of losing the first edit".  *)
SavedIsKept == saved \subseteq Selected \cup KeptEdits

(* SavedSurvivesRecovery: as "both copies are preserved and writes are     *)
(* paused pending explicit recovery", a recovery replaces no saved edit    *)
(* that none of the copies holds.                                          *)
SavedSurvivesRecovery ==
  [][\A t \in Tab : tab[t].job.pc = "commit" /\ canonical' # canonical
       => saved \cap SnapOf(canonical) \subseteq KeptEdits']_vars

(* EditsWaitForRecovery: no tab edits while it recovers a copy, as         *)
(* "writes are paused pending explicit recovery".                          *)
EditsWaitForRecovery ==
  [][\A t \in Tab : tab[t].job.pc \in {"commit", "copy", "finalize", "clear"}
       => tab'[t].queue = tab[t].queue \/ ~tab'[t].open]_vars
=============================================================================
