----------------------------- MODULE PantryProofs -----------------------------
(***************************************************************************)
(* The pantry, in two parts.  As the tabs of a browser store it            *)
(* (PantryStorage): no conflict and no recovery drops a copy, a recovery   *)
(* leaves what was chosen, and a browser with one tab never meets a        *)
(* conflict and keeps what it has saved.  As the dinners take from it      *)
(* (DinnerConsumption): a dinner is taken once, its receipt goes where it  *)
(* goes, and a device keeps nothing of a house it has lost.                *)
(*                                                                         *)
(* The two specifications share no variable; the names of the second one   *)
(* that would clash with the first begin with DC.                          *)
(***************************************************************************)
EXTENDS PantryStorage, DinnerConsumption, FiniteSetTheorems, SequenceTheorems, TLAPS

(* The backup is a record with a number for its random identity.           *)
BackupTyped ==
  /\ backup = [id |-> backup.id, copies |-> backup.copies,
               resolved |-> backup.resolved, chosen |-> backup.chosen]
  /\ backup.id \in Nat /\ backup.resolved \in BOOLEAN

(* An identity is given to one backup only.                                *)
Numbered ==
  /\ ids \in Nat /\ backup.id <= ids
  /\ \A a \in archive : a.id \in Nat /\ a.id <= ids

Holds(copies, s) == \E c \in copies : c.snap = s

(* A backup only grows: it has what was archived under its identity.       *)
Grows == \A a \in archive : a.id = backup.id
           => \A s : Holds(a.copies, s) => Holds(backup.copies, s)

(* A backup that may be replaced, because it is resolved, is archived.     *)
ResolvedArchived == ~Unresolved
  => \A s : Holds(backup.copies, s) => \E a \in archive : Holds(a.copies, s)

Inv == BackupTyped /\ Numbered /\ Grows /\ ResolvedArchived

-----------------------------------------------------------------------------
(* What a step does to the backup and the archive.                         *)
Untouched == UNCHANGED <<backup, archive, ids>>
Preserves == \E copies : Preserve(copies) /\ UNCHANGED archive

Starts ==
  /\ \E t \in Tab : backup' = Recoverable(t)
  /\ ids' = IF backup = NoBackup THEN ids + 1 ELSE ids
  /\ UNCHANGED archive

Commits == \E w :
  /\ backup.id = w.id /\ ~backup.resolved /\ backup.copies = w.copies
  /\ archive' = Archived(w)
  /\ backup' = [backup EXCEPT !.chosen = w.copy]
  /\ UNCHANGED ids

Finalizes == \E w :
  /\ backup.id = w.id /\ backup.copies = w.copies /\ Entry(w) \in archive
  /\ archive' = (archive \ {Entry(w)}) \cup {[Entry(w) EXCEPT !.resolved = TRUE]}
  /\ backup' = [backup EXCEPT !.resolved = TRUE]
  /\ UNCHANGED ids

LEMMA ConflictPreserves ==
  ASSUME NEW t, NEW first, NEW others, NEW memory, Conflict(t, first, others, memory)
  PROVE  Preserve(Joined(first, others))
BY DEF Conflict

LEMMA HydrateShape ==
  ASSUME NEW t, Hydrate(t)
  PROVE  Untouched \/ Preserves
<1>1. UNCHANGED archive
  BY DEF Hydrate
<1>2. CASE Paused
  BY <1>1, <1>2 DEF Hydrate, Untouched
<1>3. CASE ~Paused /\ Ambiguous
  <2>1. \E memory : Conflict(t, {CopyOf(canonical)}, {CopyOf(mirror)}, memory)
    BY <1>3 DEF Hydrate
  <2>2. Preserve(Joined({CopyOf(canonical)}, {CopyOf(mirror)}))
    BY <2>1, ConflictPreserves
  <2> QED
    BY <1>1, <2>2 DEF Preserves
<1>4. CASE ~Paused /\ ~Ambiguous
  BY <1>1, <1>4 DEF Hydrate, Untouched
<1> QED
  BY <1>2, <1>3, <1>4

LEMMA PrepareShape ==
  ASSUME NEW t, Prepare(t)
  PROVE  Untouched \/ Preserves
<1>1. UNCHANGED archive
  BY DEF Prepare
<1>2. CASE Paused
  BY <1>1, <1>2 DEF Prepare, Untouched
<1>3. CASE ~Paused /\ Ambiguous
  <2>1. \E memory : Conflict(t, {CopyOf(canonical)}, {CopyOf(mirror)}, memory)
    BY <1>3 DEF Prepare
  <2>2. Preserve(Joined({CopyOf(canonical)}, {CopyOf(mirror)}))
    BY <2>1, ConflictPreserves
  <2> QED
    BY <1>1, <2>2 DEF Preserves
<1>4. CASE ~Paused /\ ~Ambiguous
  BY <1>1, <1>4 DEF Prepare, Untouched
<1> QED
  BY <1>2, <1>3, <1>4

LEMMA WriteShape ==
  ASSUME NEW t, Write(t)
  PROVE  Untouched \/ Preserves
<1>1. CASE Prepare(t)
  BY <1>1, PrepareShape
<1>2. CASE Compare(t)
  <2>1. CASE SameRow(tab[t].job)
    BY <1>2, <2>1 DEF Compare, Untouched
  <2>2. CASE ~SameRow(tab[t].job)
    BY <1>2, <2>2, ConflictPreserves DEF Compare, Preserves
  <2> QED
    BY <2>1, <2>2
<1>3. CASE CompareFails(t) \/ MirrorDenied(t)
  BY <1>3 DEF CompareFails, MirrorDenied, Untouched, stored
<1>4. MirrorChanged(t) => UNCHANGED <<backup, ids>> \/ \E copies : Preserve(copies)
  BY DEF MirrorChanged
<1>5. CASE Fallback(t)
  BY <1>4, <1>5 DEF Fallback, Untouched, Preserves
<1>6. CASE Mirror(t)
  BY <1>4, <1>6 DEF Mirror, Untouched, Preserves
<1>7. CASE Refresh(t)
  BY <1>7, ConflictPreserves DEF Refresh, Untouched, Preserves
<1> QED
  BY <1>1, <1>2, <1>3, <1>5, <1>6, <1>7 DEF Write

LEMMA StepShape ==
  ASSUME [Next]_vars
  PROVE  Untouched \/ Preserves \/ Starts \/ Commits \/ Finalizes
<1>1. CASE UNCHANGED vars
  BY <1>1 DEF vars, stored, Untouched
<1>2. ASSUME NEW t \in Tab, Open(t) \/ Retry(t)
      PROVE  Untouched \/ Preserves
  BY <1>2, HydrateShape DEF Open, Retry, Untouched, stored
<1>3. ASSUME NEW t \in Tab, Close(t) \/ CloseInConflict(t) \/ Edit(t) \/ AskPause(t)
      PROVE  Untouched
  BY <1>3 DEF Close, CloseInConflict, Edit, AskPause, Untouched, stored
<1>4. ASSUME NEW t \in Tab, Write(t)
      PROVE  Untouched \/ Preserves
  BY <1>4, WriteShape
<1>5. ASSUME NEW t \in Tab, Recovery(t)
      PROVE  Untouched \/ Commits \/ Finalizes
  <2>1. CASE Commit(t)
    BY <2>1 DEF Commit, Untouched, Commits
  <2>2. CASE CopyToMirror(t) \/ ClearPause(t)
    BY <2>2 DEF CopyToMirror, ClearPause, Untouched
  <2>3. CASE Finalize(t)
    BY <2>3 DEF Finalize, Untouched, Finalizes
  <2> QED
    BY <1>5, <2>1, <2>2, <2>3 DEF Recovery
<1>6. ASSUME NEW t \in Tab, NEW copy, Choose(t, copy)
      PROVE  Starts
  BY <1>6 DEF Choose, Starts
<1>7. ASSUME NEW t \in Tab, NEW a, Reopen(t, a)
      PROVE  Preserves
  BY <1>7, ConflictPreserves DEF Reopen, Preserves
<1>8. CASE ClockMoves
  BY <1>8 DEF ClockMoves, stored, Untouched
<1> QED
  BY <1>1, <1>2, <1>3, <1>4, <1>5, <1>6, <1>7, <1>8 DEF Next

-----------------------------------------------------------------------------
(* Each of them keeps the invariant and the copies.                        *)
Kepts(s) == Holds(backup.copies, s) \/ \E a \in archive : Holds(a.copies, s)

LEMMA KeptsIsKept ==
  /\ \A s : Kepts(s) <=> Holds(Kept, s)
  /\ \A s : Kepts(s)' <=> Holds(Kept, s)'
<1>1. \A s : Kepts(s) <=> Holds(Kept, s)
  BY DEF Kepts, Holds, Kept
<1>2. \A s : Kepts(s)' <=> Holds(Kept, s)'
  BY DEF Kepts, Holds, Kept
<1> QED
  BY <1>1, <1>2

LEMMA JoinedHolds ==
  ASSUME NEW old, NEW new, NEW s, Holds(old, s)
  PROVE  Holds(Joined(old, new), s)
BY DEF Holds, Joined

LEMMA PreservesKeep ==
  ASSUME Inv, Preserves
  PROVE  Inv' /\ \A s : Kepts(s) => Kepts(s)'
<1> PICK copies : Preserve(copies) /\ UNCHANGED archive
  BY DEF Preserves
<1>1. CASE Unresolved
  <2>1. /\ backup' = [id |-> backup.id, copies |-> Joined(backup.copies, copies),
                      resolved |-> backup.resolved, chosen |-> backup.chosen]
        /\ ids' = ids
    BY <1>1 DEF Preserve, Preserved, Inv, BackupTyped
  <2>2. \A s : Holds(backup.copies, s) => Holds(backup'.copies, s)
    BY <2>1, JoinedHolds
  <2>3. BackupTyped' /\ Numbered' /\ Unresolved'
    BY <1>1, <2>1 DEF Inv, BackupTyped, Numbered, Unresolved
  <2>4. Grows'
    BY <2>1, <2>2 DEF Inv, Grows, Holds
  <2>5. ResolvedArchived' /\ \A s : Kepts(s) => Kepts(s)'
    BY <2>2, <2>3 DEF ResolvedArchived, Kepts, Holds
  <2> QED
    BY <2>3, <2>4, <2>5 DEF Inv
<1>2. CASE ~Unresolved
  <2>1. /\ backup' = [id |-> ids + 1, copies |-> copies, resolved |-> FALSE, chosen |-> None]
        /\ ids' = ids + 1
    BY <1>2 DEF Preserve, Preserved
  <2>2. BackupTyped' /\ Numbered' /\ Unresolved'
    BY <2>1 DEF Inv, BackupTyped, Numbered, Unresolved
  <2>3. Grows'
    BY <2>1 DEF Inv, Numbered, Grows
  <2>4. ResolvedArchived' /\ \A s : Kepts(s) => Kepts(s)'
    BY <1>2, <2>2 DEF Inv, ResolvedArchived, Kepts, Holds
  <2> QED
    BY <2>2, <2>3, <2>4 DEF Inv
<1> QED
  BY <1>1, <1>2

LEMMA StartsKeep ==
  ASSUME Inv, Starts
  PROVE  Inv' /\ \A s : Kepts(s) => Kepts(s)'
<1> PICK t \in Tab : backup' = Recoverable(t)
  BY DEF Starts
<1>1. CASE Unresolved
  <2>1. backup # NoBackup
    BY <1>1 DEF Unresolved, NoBackup
  <2> QED
    BY <1>1, <2>1 DEF Starts, Recoverable, Inv, BackupTyped, Numbered, Grows,
                      ResolvedArchived, Unresolved, Kepts, Holds
<1>2. CASE ~Unresolved /\ backup # NoBackup
  <2>1. /\ backup' = [id |-> backup.id, copies |-> backup.copies,
                      resolved |-> FALSE, chosen |-> None]
        /\ ids' = ids /\ archive' = archive
    BY <1>2 DEF Starts, Recoverable, Inv, BackupTyped
  <2>2. BackupTyped' /\ Numbered' /\ Unresolved'
    BY <2>1 DEF Inv, BackupTyped, Numbered, Unresolved
  <2>3. Grows' /\ ResolvedArchived' /\ \A s : Kepts(s) => Kepts(s)'
    BY <2>1, <2>2 DEF Inv, Grows, ResolvedArchived, Kepts, Holds
  <2> QED
    BY <2>2, <2>3 DEF Inv
<1>3. CASE backup = NoBackup
  <2>1. /\ backup' = [id |-> ids + 1, copies |-> tab[t].active,
                      resolved |-> FALSE, chosen |-> None]
        /\ ids' = ids + 1 /\ archive' = archive /\ backup.copies = {}
    BY <1>3 DEF Starts, Recoverable, Unresolved, NoBackup
  <2>2. BackupTyped' /\ Numbered' /\ Unresolved'
    BY <2>1 DEF Inv, BackupTyped, Numbered, Unresolved
  <2>3. Grows'
    BY <2>1 DEF Inv, Numbered, Grows
  <2>4. ResolvedArchived' /\ \A s : Kepts(s) => Kepts(s)'
    BY <2>1, <2>2 DEF ResolvedArchived, Kepts, Holds
  <2> QED
    BY <2>2, <2>3, <2>4 DEF Inv
<1> QED
  BY <1>1, <1>2, <1>3

LEMMA CommitsKeep ==
  ASSUME Inv, Commits
  PROVE  Inv' /\ \A s : Kepts(s) => Kepts(s)'
<1> PICK w : /\ backup.id = w.id /\ ~backup.resolved /\ backup.copies = w.copies
             /\ archive' = Archived(w)
             /\ backup' = [backup EXCEPT !.chosen = w.copy]
             /\ UNCHANGED ids
  BY DEF Commits
<1>1. /\ backup'.id = backup.id /\ backup'.copies = backup.copies
      /\ backup'.resolved = backup.resolved
      /\ backup' = [id |-> backup'.id, copies |-> backup'.copies,
                    resolved |-> backup'.resolved, chosen |-> backup'.chosen]
  BY DEF Inv, BackupTyped
<1>2. \A a \in archive' : a \in archive \/ (a.id = backup.id /\ a.copies = backup.copies)
  <2>1. Entry(w).id = backup.id /\ Entry(w).copies = backup.copies
    BY DEF Entry
  <2>2. \A a \in archive' : a \in archive \/ a = Entry(w)
    BY DEF Archived
  <2> QED
    BY <2>1, <2>2
<1>3. BackupTyped' /\ Numbered' /\ Unresolved'
  BY <1>1, <1>2 DEF Inv, BackupTyped, Numbered, Unresolved
<1>4. Grows' /\ ResolvedArchived'
  BY <1>1, <1>2, <1>3 DEF Inv, Grows, ResolvedArchived, Holds
<1>5. \A a \in archive : a \in archive' \/ a.id = backup.id
  BY DEF Archived
<1>6. ASSUME NEW s, Kepts(s)
      PROVE  Kepts(s)'
  BY <1>1, <1>5, <1>6 DEF Inv, Grows, Kepts, Holds
<1> QED
  BY <1>3, <1>4, <1>6 DEF Inv

LEMMA FinalizesKeep ==
  ASSUME Inv, Finalizes
  PROVE  Inv' /\ \A s : Kepts(s) => Kepts(s)'
<1> PICK w : /\ backup.id = w.id /\ backup.copies = w.copies /\ Entry(w) \in archive
             /\ archive' = (archive \ {Entry(w)}) \cup {[Entry(w) EXCEPT !.resolved = TRUE]}
             /\ backup' = [backup EXCEPT !.resolved = TRUE]
             /\ UNCHANGED ids
  BY DEF Finalizes
<1> DEFINE e == [Entry(w) EXCEPT !.resolved = TRUE]
<1>1. /\ backup'.id = backup.id /\ backup'.copies = backup.copies /\ backup'.resolved = TRUE
      /\ backup' = [id |-> backup'.id, copies |-> backup'.copies,
                    resolved |-> backup'.resolved, chosen |-> backup'.chosen]
  BY DEF Inv, BackupTyped
<1>2. /\ e \in archive' /\ e.id = backup.id /\ e.copies = backup.copies
      /\ Entry(w).copies = backup.copies
  BY DEF Entry
<1>3. \A a \in archive' : a \in archive \/ a = e
  OBVIOUS
<1>4. BackupTyped' /\ Numbered'
  BY <1>1, <1>2, <1>3 DEF Inv, BackupTyped, Numbered
<1> HIDE DEF e
<1>5. Grows'
  <2> SUFFICES ASSUME NEW a \in archive', a.id = backup'.id, NEW s, Holds(a.copies, s)
               PROVE  Holds(backup.copies, s)
    BY <1>1 DEF Grows, Holds
  <2> QED
    BY <1>1, <1>2, <1>3 DEF Inv, Grows
<1>6. ResolvedArchived'
  BY <1>1, <1>2 DEF ResolvedArchived
<1>7. ASSUME NEW s, Kepts(s)
      PROVE  Kepts(s)'
  BY <1>1, <1>2, <1>7 DEF Kepts, Holds
<1> QED
  BY <1>4, <1>5, <1>6, <1>7 DEF Inv

LEMMA StepKeeps ==
  ASSUME Inv, [Next]_vars
  PROVE  Inv' /\ \A s : Kepts(s) => Kepts(s)'
<1>1. CASE Untouched
  BY <1>1 DEF Untouched, Inv, BackupTyped, Numbered, Grows, ResolvedArchived, Unresolved,
              Kepts, Holds
<1> QED
  BY <1>1, StepShape, PreservesKeep, StartsKeep, CommitsKeep, FinalizesKeep

LEMMA InitInv == Init => Inv
BY DEF Init, NoBackup, Inv, BackupTyped, Numbered, Grows, ResolvedArchived, Unresolved, Holds

(* A copy of a conflict never disappears (createConflictBackup,            *)
(* commitPantryRecoverySnapshot, finalizePantryRecoverySnapshot).          *)
THEOREM CopiesKeptHolds == Spec => CopiesKept
<1>1. Inv /\ [Next]_vars => [{c.snap : c \in Kept} \subseteq {c.snap : c \in Kept'}]_vars
  <2> SUFFICES ASSUME Inv, [Next]_vars
               PROVE  {c.snap : c \in Kept} \subseteq {c.snap : c \in Kept'}
    OBVIOUS
  <2>1. \A s : Holds(Kept, s) => Holds(Kept, s)'
    BY StepKeeps, KeptsIsKept
  <2> QED
    BY <2>1 DEF Holds
<1>2. Inv /\ [Next]_vars => Inv'
  BY StepKeeps
<1> QED
  BY <1>1, <1>2, InitInv, PTL DEF Spec, CopiesKept

-----------------------------------------------------------------------------
(* Types.                                                                  *)

LEMMA SnapTyped ==
  ASSUME NEW r \in Row \cup Copy \cup {None}
  PROVE  SnapOf(r) \in Snapshot /\ RevOf(r) \in Nat /\ CopyOf(r) \in Copy
<1>1. {} \in Snapshot BY DEF Snapshot
<1>2. SnapOf(r) \in Snapshot /\ RevOf(r) \in Nat
  BY <1>1 DEF SnapOf, RevOf, Row, Copy
<1> QED BY <1>2 DEF CopyOf, Copy

LEMMA LargerTyped ==
  ASSUME NEW a \in Nat, NEW b \in Nat
  PROVE  Larger(a, b) \in Nat /\ Larger(a, b) >= a /\ Larger(a, b) >= b
BY DEF Larger

LEMMA JoinedTyped ==
  ASSUME NEW old \in SUBSET Copy, NEW new \in SUBSET Copy
  PROVE  Joined(old, new) \in SUBSET Copy
BY DEF Joined

LEMMA PreserveTyped ==
  ASSUME TypeOK, NEW copies \in SUBSET Copy, Preserve(copies)
  PROVE  backup' \in Backup /\ ids' \in Nat
<1>1. CASE Unresolved
  <2>1. backup' = [backup EXCEPT !.copies = Joined(@, copies)] /\ ids' = ids
    BY <1>1 DEF Preserve, Preserved
  <2>2. backup \in Backup /\ backup.copies \in SUBSET Copy BY DEF TypeOK, Backup
  <2>3. Joined(backup.copies, copies) \in SUBSET Copy BY <2>2, JoinedTyped
  <2> QED BY <2>1, <2>2, <2>3 DEF Backup, TypeOK
<1>2. CASE ~Unresolved
  BY <1>2 DEF Preserve, Preserved, Backup, TypeOK
<1> QED BY <1>1, <1>2

(* The memory of a tab, field by field.                                    *)
LEMMA MemoryFields ==
  ASSUME TypeOK, NEW t \in Tab
  PROVE  /\ tab[t] \in Memory /\ tab[t].open \in BOOLEAN /\ tab[t].state \in Snapshot
         /\ tab[t].observed \in Row \cup {None, Unset} /\ tab[t].latest \in Nat
         /\ tab[t].active \in (SUBSET Copy) \cup {None} /\ tab[t].queue \in Seq(Entered)
         /\ tab[t].blind \in BOOLEAN
BY DEF TypeOK, Memory

LEMMA JobTyped ==
  ASSUME TypeOK, NEW t \in Tab
  PROVE  /\ tab[t].job.pc \in {"compare", "fallback", "mirror", "refresh"} =>
              tab[t].job \in WriteJob
         /\ tab[t].job.pc \in {"commit", "copy", "finalize", "clear"} =>
              tab[t].job \in RecoveryJob
<1>1. tab[t].job \in {Idle} \cup WriteJob \cup RecoveryJob BY DEF TypeOK, Memory
<1>2. Idle.pc = "idle" BY DEF Idle
<1> QED BY <1>1, <1>2 DEF WriteJob, RecoveryJob

LEMMA SetTyped ==
  ASSUME TypeOK, NEW t \in Tab, NEW m \in Memory, Set(t, m)
  PROVE  tab' \in [Tab -> Memory]
BY DEF Set, TypeOK

LEMMA ClosedTyped == Closed \in Memory
<1>1. {} \in Snapshot BY DEF Snapshot
<1>2. <<>> \in Seq(Entered) OBVIOUS
<1> QED BY <1>1, <1>2 DEF Closed, Memory

LEMMA ConflictTyped ==
  ASSUME TypeOK, NEW t \in Tab, NEW first \in SUBSET Copy, NEW others \in SUBSET Copy,
         NEW m \in Memory, Conflict(t, first, others, m)
  PROVE  tab' \in [Tab -> Memory] /\ backup' \in Backup /\ ids' \in Nat /\ marker' \in BOOLEAN
<1>1. Joined(first, others) \in SUBSET Copy BY JoinedTyped
<1>2. backup' \in Backup /\ ids' \in Nat BY <1>1, PreserveTyped DEF Conflict
<1>3. backup'.copies \in SUBSET Copy BY <1>2 DEF Backup
<1>4. [m EXCEPT !.active = backup'.copies] \in Memory BY <1>3 DEF Memory
<1> QED BY <1>2, <1>4, SetTyped DEF Conflict

LEMMA CopiesTyped ==
  ASSUME TypeOK, NEW t \in Tab
  PROVE  /\ Copies(t) \in (SUBSET Copy) \cup {None} /\ GateActive(t) \in (SUBSET Copy) \cup {None}
         /\ Paused \in BOOLEAN
BY MemoryFields DEF Copies, GateActive, Paused, Unresolved, TypeOK, Backup

LEMMA SelectedTyped ==
  ASSUME TypeOK
  PROVE  Selected \in Snapshot
<1>1. SnapOf(canonical) \in Snapshot BY SnapTyped DEF TypeOK
<1>2. mirror # None => mirror.snap \in Snapshot BY DEF TypeOK, Copy
<1> QED BY <1>1, <1>2 DEF Selected

LEMMA ShownTyped ==
  ASSUME TypeOK, NEW t \in Tab
  PROVE  Shown(t) \in Snapshot
BY SelectedTyped, MemoryFields DEF Shown

(* An entry of the chain of writes.                                        *)
LEMMA EnteredTyped ==
  ASSUME NEW snap \in Snapshot
  PROVE  Soft(snap) \in Entered /\ Hard(snap) \in Entered
BY DEF Soft, Hard, Entered

LEMMA HydrateTyped ==
  ASSUME TypeOK, NEW t \in Tab, Hydrate(t)
  PROVE  TypeOK'
<1> DEFINE keeps  == [tab[t] EXCEPT !.open = TRUE, !.retry = Rehydrate,
                                    !.blind = ~tab[t].open \/ @,
                                    !.queue = Append(@, Soft(tab[t].state))]
           latest == Larger(tab[t].latest, RevOf(canonical))
           fresh  == [tab[t] EXCEPT !.open = TRUE, !.state = Shown(t), !.observed = canonical,
                                    !.latest = latest, !.active = None, !.retry = None,
                                    !.blind = FALSE, !.queue = Append(@, Soft(Shown(t)))]
<1>1. /\ CopyOf(canonical) \in Copy /\ CopyOf(mirror) \in Copy
      /\ RevOf(canonical) \in Nat /\ Shown(t) \in Snapshot
  BY SnapTyped, ShownTyped DEF TypeOK
<1>2. latest \in Nat BY <1>1, MemoryFields, LargerTyped
<1> HIDE DEF latest
<1>3. keeps \in Memory
  <2>1. Append(tab[t].queue, Soft(tab[t].state)) \in Seq(Entered)
    BY MemoryFields, EnteredTyped
  <2> QED BY <2>1, MemoryFields DEF Memory
<1>4. fresh \in Memory
  <2>1. Append(tab[t].queue, Soft(Shown(t))) \in Seq(Entered)
    BY <1>1, MemoryFields, EnteredTyped
  <2>2. canonical \in Row \cup {None} BY DEF TypeOK
  <2> QED BY <1>1, <1>2, <2>1, <2>2, MemoryFields DEF Memory
<1> HIDE DEF keeps, fresh
<1>5. tab' \in [Tab -> Memory] /\ backup' \in Backup /\ ids' \in Nat /\ marker' \in BOOLEAN
  <2>1. CASE Paused
    <3>1. Set(t, [keeps EXCEPT !.active = Copies(t)]) /\ GateMarks /\ UNCHANGED <<backup, ids>>
      BY <2>1 DEF Hydrate, keeps
    <3>2. [keeps EXCEPT !.active = Copies(t)] \in Memory BY <1>3, CopiesTyped DEF Memory
    <3> QED BY <3>1, <3>2, SetTyped, CopiesTyped DEF GateMarks, TypeOK
  <2>2. CASE ~Paused /\ Ambiguous
    <3>1. Conflict(t, {CopyOf(canonical)}, {CopyOf(mirror)},
                   [keeps EXCEPT !.observed = canonical, !.latest = latest])
      BY <2>2 DEF Hydrate, keeps, latest
    <3>2. [keeps EXCEPT !.observed = canonical, !.latest = latest] \in Memory
      BY <1>2, <1>3 DEF Memory, TypeOK
    <3> QED BY <1>1, <3>1, <3>2, ConflictTyped
  <2>3. CASE ~Paused /\ ~Ambiguous
    <3>1. Set(t, fresh) /\ GateMarks /\ UNCHANGED <<backup, ids>>
      BY <2>3 DEF Hydrate, fresh, latest
    <3> QED BY <1>4, <3>1, SetTyped, CopiesTyped DEF GateMarks, TypeOK
  <2> QED BY <2>1, <2>2, <2>3
<1> QED BY <1>5 DEF Hydrate, TypeOK, history

LEMMA RetryTyped ==
  ASSUME NEW w \in Entered \cup WriteJob
  PROVE  RetryOf(w) \in {Rehydrate} \cup [kind : {"write"}, snap : Snapshot]
BY DEF RetryOf, WriteAgain, Entered, WriteJob

LEMMA EndTyped ==
  ASSUME TypeOK, NEW t \in Tab
  PROVE  /\ Ended(t) \in Memory
         /\ \A w \in WriteJob : Throws(t, w) \in Memory /\ Done(t, w) \in Memory
<1>1. \A w \in WriteJob : RetryOf(w) \in {Rehydrate} \cup [kind : {"write"}, snap : Snapshot]
  BY RetryTyped
<1>2. Ended(t) \in Memory BY MemoryFields DEF Ended, Memory
<1>3. ASSUME NEW w \in WriteJob
      PROVE  Throws(t, w) \in Memory /\ Done(t, w) \in Memory
  BY <1>1, <1>3, MemoryFields DEF Throws, Done, Memory
<1> QED BY <1>2, <1>3

(* A write takes a revision above the mirror, the row and what its tab     *)
(* knows; a recovery takes one above the row.                              *)
LEMMA NextTyped ==
  ASSUME TypeOK, NEW t \in Tab
  PROVE  /\ NextRevision(t) \in Nat
         /\ NextRevision(t) > RevOf(mirror) /\ NextRevision(t) > RevOf(canonical)
         /\ NextRevision(t) > tab[t].latest
<1> DEFINE a == Larger(tab[t].latest, RevOf(mirror))
           b == Larger(clock, 1 + a)
           c == Larger(b, RevOf(canonical))
<1>1. RevOf(mirror) \in Nat /\ RevOf(canonical) \in Nat /\ tab[t].latest \in Nat /\ clock \in Nat
  BY SnapTyped, MemoryFields DEF TypeOK
<1>2. a \in Nat /\ a >= RevOf(mirror) /\ a >= tab[t].latest BY <1>1, LargerTyped
<1>3. NextRevision(t) = 1 + c BY DEF NextRevision
<1> HIDE DEF a
<1>4. b \in Nat /\ b >= 1 + a
  <2>1. 1 + a \in Nat BY <1>2
  <2> QED BY <1>1, <2>1, LargerTyped
<1> HIDE DEF b
<1>5. c \in Nat /\ c >= b /\ c >= RevOf(canonical) BY <1>1, <1>4, LargerTyped
<1> HIDE DEF c
<1> QED BY <1>1, <1>2, <1>3, <1>4, <1>5

LEMMA RecoveryNumber ==
  ASSUME TypeOK, NEW t \in Tab, NEW copy \in Copy
  PROVE  RecoveryRevision(t, copy) \in Nat /\ RecoveryRevision(t, copy) > RevOf(canonical)
<1> DEFINE a == Larger(tab[t].latest, RevOf(canonical))
           b == Larger(copy.rev, a)
<1>1. /\ RevOf(canonical) \in Nat /\ tab[t].latest \in Nat /\ clock \in Nat
      /\ copy.rev \in Nat
  BY SnapTyped, MemoryFields DEF TypeOK, Copy
<1>2. a \in Nat /\ a >= RevOf(canonical) BY <1>1, LargerTyped
<1>3. RecoveryRevision(t, copy) = Larger(clock, 1 + b) BY DEF RecoveryRevision
<1> HIDE DEF a
<1>4. b \in Nat /\ b >= a BY <1>1, <1>2, LargerTyped
<1> HIDE DEF b
<1>5. Larger(clock, 1 + b) \in Nat /\ Larger(clock, 1 + b) >= 1 + b
  <2>1. 1 + b \in Nat BY <1>4
  <2> QED BY <1>1, <2>1, LargerTyped
<1> QED BY <1>1, <1>2, <1>3, <1>4, <1>5

(* The row and the mirror that a write makes.                              *)
LEMMA MadeTyped ==
  ASSUME NEW w \in WriteJob
  PROVE  /\ Attempt(w) \in Row /\ InMirror(w) \in Copy /\ CopyOf(w) \in Copy
         /\ Attempt(w).rev = w.rev /\ Attempt(w).snap = w.snap
         /\ InMirror(w).rev = w.rev /\ InMirror(w).snap = w.snap
         /\ w # None => CopyOf(w) = InMirror(w)
<1>1. w.snap \in Snapshot /\ w.rev \in Nat BY DEF WriteJob
<1>2. {} \in Snapshot BY DEF Snapshot
<1> QED BY <1>1, <1>2 DEF Attempt, InMirror, CopyOf, SnapOf, RevOf, Row, Copy

LEMMA PrepareTyped ==
  ASSUME TypeOK, NEW t \in Tab, Prepare(t)
  PROVE  TypeOK'
<1> DEFINE w     == Head(tab[t].queue)
           fails == [tab[t] EXCEPT !.queue = Tail(@), !.retry = RetryOf(w)]
           job   == [pc |-> "compare", read |-> canonical, expects |-> Expected(t),
                     expectsMirror |-> mirror, rev |-> NextRevision(t),
                     snap |-> w.snap, hard |-> w.hard]
           goes  == [tab[t] EXCEPT !.active = None, !.queue = Tail(@), !.job = job,
                                   !.latest = NextRevision(t)]
<1>1. tab[t].queue \in Seq(Entered) /\ tab[t].queue # <<>> BY MemoryFields DEF Prepare
<1>2. w \in Entered /\ Tail(tab[t].queue) \in Seq(Entered)
  <2>1. \A q \in Seq(Entered) : q # <<>> => Head(q) \in Entered /\ Tail(q) \in Seq(Entered)
    OBVIOUS
  <2> QED BY <1>1, <2>1
<1>3. canonical \in Row \cup {None} /\ mirror \in Copy \cup {None} BY DEF TypeOK
<1> HIDE DEF w
<1>4. fails \in Memory
  <2>1. RetryOf(w) \in {Rehydrate} \cup [kind : {"write"}, snap : Snapshot]
    BY <1>2, RetryTyped
  <2> QED BY <1>2, <2>1, MemoryFields DEF Memory
<1>5. job \in WriteJob
  <2>1. Expected(t) \in Row \cup {None} BY <1>3, MemoryFields DEF Expected
  <2>2. NextRevision(t) \in Nat BY NextTyped
  <2>3. w.snap \in Snapshot /\ w.hard \in BOOLEAN BY <1>2 DEF Entered
  <2> QED BY <1>3, <2>1, <2>2, <2>3 DEF WriteJob
<1> HIDE DEF job
<1>6. goes \in Memory BY <1>2, <1>5, MemoryFields, NextTyped DEF Memory
<1> HIDE DEF fails, goes
<1>7. tab' \in [Tab -> Memory] /\ backup' \in Backup /\ ids' \in Nat /\ marker' \in BOOLEAN
  <2>1. CASE Paused
    <3>1. Set(t, [fails EXCEPT !.active = Copies(t)]) /\ GateMarks /\ UNCHANGED <<backup, ids>>
      BY <2>1 DEF Prepare, fails, w
    <3>2. [fails EXCEPT !.active = Copies(t)] \in Memory BY <1>4, CopiesTyped DEF Memory
    <3> QED BY <3>1, <3>2, SetTyped, CopiesTyped DEF GateMarks, TypeOK
  <2>2. CASE ~Paused /\ Ambiguous
    <3>1. Conflict(t, {CopyOf(canonical)}, {CopyOf(mirror)},
                   [fails EXCEPT !.latest = NextRevision(t)])
      BY <2>2 DEF Prepare, fails, w
    <3>2. CopyOf(canonical) \in Copy /\ CopyOf(mirror) \in Copy BY <1>3, SnapTyped
    <3>3. [fails EXCEPT !.latest = NextRevision(t)] \in Memory BY <1>4, NextTyped DEF Memory
    <3> QED BY <3>1, <3>2, <3>3, ConflictTyped
  <2>3. CASE ~Paused /\ ~Ambiguous
    <3>1. Set(t, goes) /\ GateMarks /\ UNCHANGED <<backup, ids>>
      BY <2>3 DEF Prepare, goes, job, w
    <3> QED BY <1>6, <3>1, SetTyped, CopiesTyped DEF GateMarks, TypeOK
  <2> QED BY <2>1, <2>2, <2>3
<1> QED BY <1>7 DEF Prepare, TypeOK, counters, history

LEMMA CompareTyped ==
  ASSUME TypeOK, NEW t \in Tab, Compare(t)
  PROVE  TypeOK'
<1>1. PICK w \in WriteJob : w = tab[t].job BY JobTyped DEF Compare, At
<1>2. Attempt(w) \in Row /\ CopyOf(w) \in Copy BY MadeTyped
<1>3. CASE SameRow(w)
  <2>1. [tab[t] EXCEPT !.observed = Attempt(w), !.job.pc = "mirror"] \in Memory
    <3>1. [w EXCEPT !.pc = "mirror"] \in WriteJob BY DEF WriteJob
    <3> QED BY <1>1, <1>2, <3>1, MemoryFields DEF Memory
  <2>2. lost' \subseteq 1 .. MaxEdits
    <3>1. SnapOf(canonical) \in Snapshot BY SnapTyped DEF TypeOK
    <3> QED BY <1>1, <1>3, <3>1 DEF Compare, TypeOK, Snapshot
  <2>3. tab' \in [Tab -> Memory] BY <1>1, <1>3, <2>1, SetTyped DEF Compare
  <2> QED BY <1>1, <1>2, <1>3, <2>2, <2>3 DEF Compare, TypeOK, counters
<1>4. CASE ~SameRow(w)
  <2>1. CopyOf(canonical) \in Copy BY SnapTyped DEF TypeOK
  <2>2. Throws(t, w) \in Memory BY EndTyped
  <2>3. Conflict(t, {CopyOf(canonical)}, {CopyOf(w)}, Throws(t, w)) BY <1>1, <1>4 DEF Compare
  <2>4. tab' \in [Tab -> Memory] /\ backup' \in Backup /\ ids' \in Nat /\ marker' \in BOOLEAN
    BY <1>2, <2>1, <2>2, <2>3, ConflictTyped
  <2> QED BY <1>1, <1>4, <2>4 DEF Compare, TypeOK, counters
<1> QED BY <1>3, <1>4

LEMMA MirrorChangedTyped ==
  ASSUME TypeOK, NEW t \in Tab, tab[t].job \in WriteJob, MirrorChanged(t)
  PROVE  tab' \in [Tab -> Memory] /\ backup' \in Backup /\ ids' \in Nat /\ marker' \in BOOLEAN
<1> DEFINE w == tab[t].job
<1>1. CopyOf(mirror) \in Copy /\ CopyOf(w) \in Copy BY MadeTyped, SnapTyped DEF TypeOK
<1>2. Throws(t, w) \in Memory /\ Ended(t) \in Memory BY EndTyped
<1>3. CASE mirror = None
  <2>1. Set(t, IF w.hard THEN Throws(t, w) ELSE Ended(t)) /\ UNCHANGED <<marker, backup, ids>>
    BY <1>3 DEF MirrorChanged
  <2>2. (IF w.hard THEN Throws(t, w) ELSE Ended(t)) \in Memory BY <1>2 DEF w
  <2> QED BY <2>1, <2>2, SetTyped DEF TypeOK
<1>4. CASE mirror # None
  <2> DEFINE copies == IF Unresolved THEN Joined({CopyOf(mirror)}, {CopyOf(w)})
                       ELSE {CopyOf(mirror), CopyOf(w)}
             m == [Throws(t, w) EXCEPT !.active = IF Unresolved THEN backup'.copies ELSE @]
  <2>1. Preserve(copies) /\ marker' = (marker \/ Unresolved) /\ Set(t, m)
    BY <1>4 DEF MirrorChanged
  <2>2. copies \in SUBSET Copy BY <1>1, JoinedTyped
  <2> HIDE DEF copies
  <2>3. backup' \in Backup /\ ids' \in Nat BY <2>1, <2>2, PreserveTyped
  <2>4. backup'.copies \in SUBSET Copy BY <2>3 DEF Backup
  <2>5. m \in Memory BY <1>2, <2>4 DEF Memory
  <2> HIDE DEF m
  <2> QED BY <2>1, <2>3, <2>5, SetTyped DEF TypeOK, Unresolved, Backup
<1> QED BY <1>3, <1>4

LEMMA FallbackTyped ==
  ASSUME TypeOK, NEW t \in Tab, Fallback(t)
  PROVE  TypeOK'
<1>1. PICK w \in WriteJob : w = tab[t].job BY JobTyped DEF Fallback, At
<1>2. InMirror(w) \in Copy BY MadeTyped
<1>3. CASE mirror = w.expectsMirror
  <2> DEFINE blind == tab[t].blind \/ w.read # w.expects
             m == [tab[t] EXCEPT !.observed = w.read, !.blind = blind, !.job = Idle,
                                 !.retry = IF w.hard THEN WriteAgain(w.snap) ELSE @]
  <2>1. /\ mirror' = InMirror(w) /\ Set(t, m) /\ UNCHANGED <<marker, backup, ids>>
        /\ lost' = IF blind THEN lost \cup (Selected \ w.snap) ELSE lost
    BY <1>1, <1>3 DEF Fallback
  <2>2. w.snap \in Snapshot /\ w.read \in Row \cup {None} BY DEF WriteJob
  <2>3. WriteAgain(w.snap) \in [kind : {"write"}, snap : Snapshot]
    BY <2>2 DEF WriteAgain
  <2>7. blind \in BOOLEAN BY MemoryFields
  <2> HIDE DEF blind
  <2>4. m \in Memory BY <2>2, <2>3, <2>7, MemoryFields DEF Memory
  <2> HIDE DEF m
  <2>5. lost' \subseteq 1 .. MaxEdits BY <2>1, SelectedTyped DEF TypeOK, Snapshot
  <2>6. tab' \in [Tab -> Memory] BY <2>1, <2>4, SetTyped
  <2> QED BY <1>2, <2>1, <2>5, <2>6 DEF Fallback, TypeOK, counters
<1>4. CASE mirror # w.expectsMirror
  <2>1. MirrorChanged(t) /\ UNCHANGED <<mirror, lost>> BY <1>1, <1>4 DEF Fallback
  <2> QED BY <1>1, <2>1, MirrorChangedTyped DEF Fallback, TypeOK, counters
<1> QED BY <1>3, <1>4

LEMMA MirrorTyped ==
  ASSUME TypeOK, NEW t \in Tab, Mirror(t) \/ MirrorDenied(t) \/ CompareFails(t)
  PROVE  TypeOK'
<1>1. PICK w \in WriteJob : w = tab[t].job
  BY JobTyped DEF Mirror, MirrorDenied, CompareFails, At
<1>2. InMirror(w) \in Copy BY MadeTyped
<1>3. ASSUME NEW pc \in {"fallback", "refresh"}
      PROVE  [tab[t] EXCEPT !.job.pc = pc] \in Memory
  <2>1. [w EXCEPT !.pc = pc] \in WriteJob BY DEF WriteJob
  <2> QED BY <1>1, <2>1, MemoryFields DEF Memory
<1>4. CASE Mirror(t) /\ mirror = w.expectsMirror
  <2>1. tab' \in [Tab -> Memory] BY <1>1, <1>3, <1>4, SetTyped DEF Mirror
  <2> QED BY <1>1, <1>2, <1>4, <2>1 DEF Mirror, TypeOK, counters, history
<1>5. CASE Mirror(t) /\ mirror # w.expectsMirror
  <2>1. MirrorChanged(t) /\ UNCHANGED mirror BY <1>1, <1>5 DEF Mirror
  <2> QED BY <1>1, <1>5, <2>1, MirrorChangedTyped DEF Mirror, TypeOK, counters, history
<1>6. CASE MirrorDenied(t)
  <2>1. Done(t, w) \in Memory BY EndTyped
  <2>2. Set(t, Done(t, w)) BY <1>1, <1>6 DEF MirrorDenied
  <2>3. tab' \in [Tab -> Memory] BY <2>1, <2>2, SetTyped
  <2>4. w.snap \in Snapshot BY DEF WriteJob
  <2>5. Succeeds(t, w) BY <1>1, <1>6 DEF MirrorDenied
  <2>6. saved' \subseteq 1 .. MaxEdits /\ lost' = lost
    BY <2>4, <2>5 DEF Succeeds, TypeOK, Snapshot
  <2> QED BY <1>6, <2>3, <2>6 DEF MirrorDenied, TypeOK, Event, Counted
<1>7. CASE CompareFails(t)
  <2>1. tab' \in [Tab -> Memory] BY <1>3, <1>7, SetTyped DEF CompareFails
  <2> QED BY <1>7, <2>1 DEF CompareFails, TypeOK, stored, Event, Counted, history
<1> QED BY <1>4, <1>5, <1>6, <1>7

LEMMA RefreshTyped ==
  ASSUME TypeOK, NEW t \in Tab, Refresh(t)
  PROVE  TypeOK'
<1>1. PICK w \in WriteJob : w = tab[t].job BY JobTyped DEF Refresh, At
<1>2. Attempt(w) \in Row /\ CopyOf(w) \in Copy BY MadeTyped
<1>3. Done(t, w) \in Memory /\ Throws(t, w) \in Memory BY EndTyped
<1>4. w.snap \in Snapshot BY DEF WriteJob
<1>5. ASSUME Succeeds(t, w) PROVE saved' \subseteq 1 .. MaxEdits /\ lost' = lost
  BY <1>4, <1>5 DEF Succeeds, TypeOK, Snapshot
<1>6. CASE /\ canonical = Attempt(w) /\ canonical' = [canonical EXCEPT !.obsolete = FALSE]
           /\ Set(t, [Done(t, w) EXCEPT !.observed = canonical']) /\ Succeeds(t, w)
           /\ UNCHANGED <<marker, backup, ids, counters>>
  <2>1. canonical' \in Row BY <1>2, <1>6 DEF Row
  <2>2. [Done(t, w) EXCEPT !.observed = canonical'] \in Memory BY <1>3, <2>1 DEF Memory
  <2>3. tab' \in [Tab -> Memory] BY <1>6, <2>2, SetTyped
  <2> QED BY <1>5, <1>6, <2>1, <2>3 DEF Refresh, TypeOK, counters
<1>7. CASE /\ Conflict(t, {CopyOf(canonical)}, {CopyOf(w)}, Throws(t, w))
           /\ UNCHANGED <<canonical, history, counters>>
  <2>1. CopyOf(canonical) \in Copy BY SnapTyped DEF TypeOK
  <2> QED
    BY <1>2, <1>3, <1>7, <2>1, ConflictTyped DEF Refresh, TypeOK, counters, history
<1>8. CASE /\ Event /\ Set(t, Done(t, w)) /\ Succeeds(t, w)
           /\ UNCHANGED <<canonical, marker, backup, ids>>
  BY <1>3, <1>5, <1>8, SetTyped DEF Refresh, TypeOK, Event, Counted
<1> QED BY <1>1, <1>6, <1>7, <1>8 DEF Refresh

LEMMA UserTyped ==
  ASSUME TypeOK, NEW t \in Tab,
         Close(t) \/ CloseInConflict(t) \/ Edit(t) \/ Retry(t) \/ AskPause(t)
  PROVE  TypeOK'
<1>1. CASE Close(t) \/ CloseInConflict(t)
  <2>1. tab' \in [Tab -> Memory]
    BY <1>1, ClosedTyped DEF Close, CloseInConflict, TypeOK
  <2>2. UNCHANGED <<canonical, mirror, backup, archive, ids, opened, clock, edits, reads, history>>
    BY <1>1 DEF Close, CloseInConflict, Event, Counted, stored
  <2>3. marker' \in BOOLEAN /\ lock' \in Tab \cup {None}
    BY <1>1 DEF Close, CloseInConflict, TypeOK, stored
  <2>4. events' \in Nat BY <1>1 DEF Close, CloseInConflict, TypeOK, Event, Counted
  <2> QED BY <2>1, <2>2, <2>3, <2>4 DEF TypeOK, history
<1>2. CASE Edit(t)
  <2> DEFINE snap == tab[t].state \cup {edits'}
             m == [tab[t] EXCEPT !.state = snap, !.retry = None,
                                 !.queue = @ \o <<Soft(snap), Hard(snap)>>]
  <2>1. Set(t, m) /\ edits' \in 1 .. MaxEdits BY <1>2, BoundsTyped DEF Edit, TypeOK
  <2>2. snap \in Snapshot BY <2>1, MemoryFields DEF Snapshot
  <2> HIDE DEF snap
  <2>3. <<Soft(snap), Hard(snap)>> \in Seq(Entered) BY <2>2, EnteredTyped
  <2>4. tab[t].queue \o <<Soft(snap), Hard(snap)>> \in Seq(Entered) BY <2>3, MemoryFields
  <2>5. m \in Memory BY <2>2, <2>4, MemoryFields DEF Memory
  <2> HIDE DEF m
  <2>6. tab' \in [Tab -> Memory] BY <2>1, <2>5, SetTyped
  <2> QED BY <1>2, <2>1, <2>6 DEF Edit, TypeOK, stored, history
<1>3. CASE Retry(t)
  <2>1. CASE Hydrate(t) BY <2>1, HydrateTyped
  <2>2. CASE /\ tab[t].retry.kind = "write"
             /\ Set(t, [tab[t] EXCEPT !.retry = None, !.queue = <<Hard(tab[t].retry.snap)>>])
             /\ UNCHANGED <<stored, lock, counters, ids, opened, history>>
    <3>1. tab[t].retry.snap \in Snapshot
      <4>1. tab[t].retry \in {None, Rehydrate} \cup [kind : {"write"}, snap : Snapshot]
        BY DEF TypeOK, Memory
      <4>2. Rehydrate.kind # "write" BY DEF Rehydrate
      <4> QED BY <1>3, <2>2, <4>1, <4>2 DEF Retry
    <3>2. <<Hard(tab[t].retry.snap)>> \in Seq(Entered) BY <3>1, EnteredTyped
    <3>3. [tab[t] EXCEPT !.retry = None, !.queue = <<Hard(tab[t].retry.snap)>>] \in Memory
      BY <3>2, MemoryFields DEF Memory
    <3> QED BY <2>2, <3>3, SetTyped DEF TypeOK, stored, counters, history
  <2> QED BY <1>3, <2>1, <2>2 DEF Retry
<1>4. CASE AskPause(t)
  <2>1. [tab[t] EXCEPT !.active = GateActive(t)] \in Memory
    BY CopiesTyped, MemoryFields DEF Memory
  <2> QED BY <1>4, <2>1, SetTyped, CopiesTyped DEF AskPause, GateMarks, TypeOK, counters, history
<1> QED BY <1>1, <1>2, <1>3, <1>4

LEMMA GivesUpTyped ==
  ASSUME TypeOK, NEW t \in Tab, GivesUp(t)
  PROVE  tab' \in [Tab -> Memory] /\ lock' \in Tab \cup {None}
<1>1. [Ended(t) EXCEPT !.active = Copies(t)] \in Memory BY EndTyped, CopiesTyped DEF Memory
<1> QED BY <1>1, SetTyped DEF GivesUp

LEMMA RecoveryTyped ==
  ASSUME TypeOK, NEW t \in Tab, Recovery(t)
  PROVE  TypeOK'
<1>1. PICK w \in RecoveryJob : w = tab[t].job
  BY JobTyped DEF Recovery, Commit, CopyToMirror, Finalize, ClearPause, At
<1>2. Chosen(w) \in Row /\ InMirror(Chosen(w)) \in Copy /\ w.copy \in Copy /\ w.rev \in Nat
  <2>1. w.copy \in Copy /\ w.rev \in Nat BY DEF RecoveryJob
  <2> QED BY <2>1 DEF Chosen, InMirror, Row, Copy
<1>3. /\ Entry(w) \in [id : Nat, chosen : Copy, copies : SUBSET Copy, resolved : BOOLEAN]
      /\ [Entry(w) EXCEPT !.resolved = TRUE]
           \in [id : Nat, chosen : Copy, copies : SUBSET Copy, resolved : BOOLEAN]
  BY DEF Entry, RecoveryJob
<1>4. \A pc \in {"copy", "finalize", "clear"} : [w EXCEPT !.pc = pc] \in RecoveryJob
  BY DEF RecoveryJob
<1>5. CASE Commit(t)
  <2>1. CASE GivesUp(t) /\ UNCHANGED <<archive, backup, canonical, lost>>
    BY <1>5, <2>1, GivesUpTyped DEF Commit, TypeOK, counters
  <2>2. CASE /\ archive' = Archived(w) /\ backup' = [backup EXCEPT !.chosen = w.copy]
             /\ canonical' = Chosen(w) /\ UNCHANGED lock
             /\ Set(t, [tab[t] EXCEPT !.observed = Chosen(w), !.latest = w.rev, !.job.pc = "copy"])
             /\ lost' = lost \cup (SnapOf(canonical) \ KeptEdits)
    <3>1. [tab[t] EXCEPT !.observed = Chosen(w), !.latest = w.rev, !.job.pc = "copy"] \in Memory
      BY <1>1, <1>2, <1>4, MemoryFields DEF Memory
    <3>2. tab' \in [Tab -> Memory] BY <2>2, <3>1, SetTyped
    <3>3. lost' \subseteq 1 .. MaxEdits
      <4>1. SnapOf(canonical) \in Snapshot BY SnapTyped DEF TypeOK
      <4> QED BY <2>2, <4>1 DEF TypeOK, Snapshot
    <3>4. backup' \in Backup BY <1>2, <2>2 DEF TypeOK, Backup
    <3>5. archive' \subseteq [id : Nat, chosen : Copy, copies : SUBSET Copy, resolved : BOOLEAN]
      BY <1>3, <2>2 DEF TypeOK, Archived
    <3> QED BY <1>2, <1>5, <2>2, <3>2, <3>3, <3>4, <3>5 DEF Commit, TypeOK, counters
  <2> QED BY <1>1, <1>5, <2>1, <2>2 DEF Commit
<1>6. CASE CopyToMirror(t)
  <2>1. CASE Event /\ GivesUp(t) /\ UNCHANGED mirror
    BY <1>6, <2>1, GivesUpTyped DEF CopyToMirror, TypeOK, Event, Counted, history
  <2>2. CASE /\ mirror' = InMirror(Chosen(w)) /\ Set(t, [tab[t] EXCEPT !.job.pc = "finalize"])
             /\ UNCHANGED <<lock, counters>>
    <3>1. [tab[t] EXCEPT !.job.pc = "finalize"] \in Memory
      BY <1>1, <1>4, MemoryFields DEF Memory
    <3>2. tab' \in [Tab -> Memory] BY <2>2, <3>1, SetTyped
    <3> QED BY <1>2, <1>6, <2>2, <3>2 DEF CopyToMirror, TypeOK, counters, history
  <2> QED BY <1>1, <1>6, <2>1, <2>2 DEF CopyToMirror
<1>7. CASE Finalize(t)
  <2>1. CASE GivesUp(t) /\ UNCHANGED <<archive, canonical, backup>>
    BY <1>7, <2>1, GivesUpTyped DEF Finalize, TypeOK, counters, history
  <2>2. CASE /\ archive' = (archive \ {Entry(w)}) \cup {[Entry(w) EXCEPT !.resolved = TRUE]}
             /\ canonical = Chosen(w) /\ canonical' = [canonical EXCEPT !.obsolete = FALSE]
             /\ backup' = [backup EXCEPT !.resolved = TRUE] /\ UNCHANGED lock
             /\ Set(t, [tab[t] EXCEPT !.observed = canonical', !.job.pc = "clear"])
    <3>1. canonical' \in Row BY <1>2, <2>2 DEF Row
    <3>2. [tab[t] EXCEPT !.observed = canonical', !.job.pc = "clear"] \in Memory
      BY <1>1, <1>4, <3>1, MemoryFields DEF Memory
    <3>3. tab' \in [Tab -> Memory] BY <2>2, <3>2, SetTyped
    <3>4. backup' \in Backup BY <2>2 DEF TypeOK, Backup
    <3>5. archive' \subseteq [id : Nat, chosen : Copy, copies : SUBSET Copy, resolved : BOOLEAN]
      BY <1>3, <2>2 DEF TypeOK
    <3> QED BY <1>7, <2>2, <3>1, <3>3, <3>4, <3>5 DEF Finalize, TypeOK, counters, history
  <2> QED BY <1>1, <1>7, <2>1, <2>2 DEF Finalize
<1>8. CASE ClearPause(t)
  <2>1. w.copy.snap \in Snapshot BY <1>2 DEF Copy
  <2>2. [Ended(t) EXCEPT !.state = w.copy.snap, !.active = None, !.retry = None,
                         !.blind = tab[t].queue # <<>>]
          \in Memory
    BY <2>1, EndTyped DEF Memory
  <2>3. tab' \in [Tab -> Memory] BY <1>1, <1>8, <2>2, SetTyped DEF ClearPause
  <2> QED BY <1>8, <2>3 DEF ClearPause, TypeOK, counters, history
<1> QED BY <1>5, <1>6, <1>7, <1>8 DEF Recovery

LEMMA ChooseTyped ==
  ASSUME TypeOK, NEW t \in Tab, Copies(t) # None, NEW copy \in Copies(t), Choose(t, copy)
  PROVE  TypeOK'
<1>1. Copies(t) \in SUBSET Copy /\ copy \in Copy BY CopiesTyped
<1>2. backup' \in Backup /\ ids' \in Nat
  <2>1. CASE Unresolved BY <2>1 DEF Choose, Recoverable, TypeOK
  <2>2. CASE ~Unresolved /\ backup # NoBackup
    <3>1. backup' = [backup EXCEPT !.resolved = FALSE, !.chosen = None]
      BY <2>2 DEF Choose, Recoverable
    <3> QED BY <2>2, <3>1 DEF Choose, TypeOK, Backup
  <2>3. CASE ~Unresolved /\ backup = NoBackup
    <3>1. tab[t].active \in SUBSET Copy BY <1>1, <2>3 DEF Copies
    <3>2. backup' = [id |-> ids + 1, copies |-> tab[t].active, resolved |-> FALSE, chosen |-> None]
      BY <2>3 DEF Choose, Recoverable
    <3> QED BY <2>3, <3>1, <3>2 DEF Choose, TypeOK, Backup
  <2>4. ids' \in Nat BY DEF Choose, TypeOK
  <2> QED BY <2>1, <2>2, <2>3, <2>4
<1> DEFINE n == RecoveryRevision(t, copy)
           job == [pc |-> "commit", id |-> backup'.id, copies |-> backup'.copies, copy |-> copy,
                   rev |-> n]
           m == [tab[t] EXCEPT !.active = IF Unresolved THEN @ ELSE backup'.copies, !.job = job]
<1>3. n \in Nat BY <1>1, RecoveryNumber
<1>4. Set(t, m) BY DEF Choose
<1> HIDE DEF n
<1>5. job \in RecoveryJob BY <1>1, <1>2, <1>3 DEF RecoveryJob, Backup
<1> HIDE DEF job
<1>8. backup'.copies \in SUBSET Copy BY <1>2 DEF Backup
<1>6. m \in Memory BY <1>5, <1>8, MemoryFields DEF Memory
<1> HIDE DEF m
<1>7. tab' \in [Tab -> Memory] BY <1>4, <1>6, SetTyped
<1> QED BY <1>2, <1>7 DEF Choose, TypeOK, Event, Counted, history

LEMMA ReopenTyped ==
  ASSUME TypeOK, NEW t \in Tab, NEW a \in archive, Reopen(t, a)
  PROVE  TypeOK'
<1>1. a.copies \in SUBSET Copy BY DEF TypeOK
<1>2. [snap |-> Selected, rev |-> 0] \in Copy BY SelectedTyped DEF Copy
<1>3. [tab[t] EXCEPT !.observed = canonical] \in Memory
  BY MemoryFields DEF Memory, TypeOK
<1>4. tab' \in [Tab -> Memory] /\ backup' \in Backup /\ ids' \in Nat /\ marker' \in BOOLEAN
  BY <1>1, <1>2, <1>3, ConflictTyped DEF Reopen
<1> QED BY <1>4 DEF Reopen, TypeOK, Event, Counted, history

LEMMA TypeNext == TypeOK /\ [Next]_vars => TypeOK'
<1> SUFFICES ASSUME TypeOK, [Next]_vars PROVE TypeOK' OBVIOUS
<1>1. CASE UNCHANGED vars BY <1>1 DEF vars, stored, counters, history, TypeOK
<1>2. ASSUME NEW t \in Tab, Write(t) PROVE TypeOK'
  BY <1>2, PrepareTyped, CompareTyped, FallbackTyped, MirrorTyped, RefreshTyped DEF Write
<1>3. CASE ClockMoves
  BY <1>3, BoundsTyped DEF ClockMoves, Counted, TypeOK, stored, history
<1> QED
  BY <1>1, <1>2, <1>3, HydrateTyped, UserTyped, RecoveryTyped, ChooseTyped, ReopenTyped
     DEF Next, Open

LEMMA TypeInit == Init => TypeOK
<1> SUFFICES ASSUME Init PROVE TypeOK OBVIOUS
<1>1. tab \in [Tab -> Memory] BY ClosedTyped DEF Init
<1>2. backup \in Backup BY DEF Init, NoBackup, Backup
<1>3. clock \in Nat /\ edits \in 0 .. MaxEdits /\ reads \in Nat /\ events \in Nat /\ ids \in Nat
  BY BoundsTyped DEF Init
<1> QED BY <1>1, <1>2, <1>3 DEF Init, TypeOK

(* Every variable keeps its kind, whatever the tabs, their failures and    *)
(* the user do.                                                            *)
THEOREM TypeCorrect == Spec => []TypeOK
BY TypeInit, TypeNext, PTL DEF Spec

-----------------------------------------------------------------------------
(* A browser with one tab.                                                 *)

(* What a write has read, and what it has written so far, while no other   *)
(* tab writes: it finds the row and the mirror as it expects them.         *)
Undisturbed(w) ==
  /\ w.pc \in {"idle", "compare", "fallback", "mirror", "refresh"}
  /\ w.pc \in {"compare", "fallback"} =>
       /\ w.read = canonical /\ w.expects = canonical
       /\ w.rev > RevOf(canonical) /\ w.rev > RevOf(mirror)
  /\ w.pc \in {"compare", "fallback", "mirror"} => w.expectsMirror = mirror
  /\ w.pc \in {"mirror", "refresh"} => canonical = Attempt(w)
  /\ w.pc = "refresh" => mirror = InMirror(w)

Alone(t) ==
  /\ ~marker /\ backup = NoBackup /\ archive = {} /\ ~Ambiguous
  /\ tab[t].observed \in {Unset, canonical}
  /\ Undisturbed(tab[t].job)

OneInv ==
  /\ opened \subseteq Tab /\ IsFiniteSet(opened)
  /\ \A u \in Tab \ opened : tab[u] = Closed
  /\ \A t \in Tab : opened \subseteq {t} => Alone(t)

LEMMA AloneUnpaused ==
  ASSUME NEW t \in Tab, Alone(t)
  PROVE  ~Paused /\ ~Unresolved
BY DEF Alone, Paused, Unresolved, NoBackup

(* A step of the tab that writes neither the row nor the mirror, and goes  *)
(* on with its write or has ended it.                                      *)
LEMMA AloneKept ==
  ASSUME NEW t \in Tab, Alone(t), UNCHANGED <<canonical, mirror, backup, archive>>, ~marker',
         tab'[t].job \in {tab[t].job, Idle}, tab'[t].observed \in {Unset, canonical}
  PROVE  Alone(t)'
<1>1. ~Ambiguous' BY DEF Alone, Ambiguous
<1>2. CASE tab'[t].job = tab[t].job BY <1>1, <1>2 DEF Alone, Undisturbed, RevOf, Attempt, InMirror
<1>3. CASE tab'[t].job = Idle BY <1>1, <1>3 DEF Alone, Undisturbed, Idle
<1> QED BY <1>2, <1>3

LEMMA AloneHydrate ==
  ASSUME TypeOK, NEW t \in Tab, Alone(t), Hydrate(t)
  PROVE  Alone(t)'
<1> DEFINE m == [tab[t] EXCEPT !.open = TRUE, !.state = Shown(t), !.observed = canonical,
                               !.latest = Larger(tab[t].latest, RevOf(canonical)),
                               !.active = None, !.retry = None, !.blind = FALSE,
                               !.queue = Append(@, Soft(Shown(t)))]
<1>1. ~Paused /\ ~Ambiguous BY AloneUnpaused DEF Alone
<1>2. Set(t, m) /\ GateMarks /\ UNCHANGED <<canonical, mirror, backup, archive>>
  BY <1>1 DEF Hydrate
<1>3. m.job = tab[t].job /\ m.observed = canonical BY MemoryFields DEF Memory
<1> HIDE DEF m
<1>4. tab'[t] = m BY <1>2 DEF Set, TypeOK
<1> QED BY <1>1, <1>2, <1>3, <1>4, AloneKept DEF GateMarks

LEMMA AloneUser ==
  ASSUME TypeOK, NEW t \in Tab, Alone(t), Close(t) \/ Edit(t) \/ Retry(t) \/ AskPause(t)
  PROVE  Alone(t)'
<1>1. CASE Hydrate(t) BY <1>1, AloneHydrate
<1>2. CASE ~Hydrate(t)
  <2>1. UNCHANGED <<canonical, mirror, backup, archive>>
    BY <1>2 DEF Close, Edit, Retry, AskPause, stored
  <2>2. ~marker' BY <1>2, AloneUnpaused DEF Close, Edit, Retry, AskPause, stored, GateMarks, Alone
  <2>3. tab'[t].job \in {tab[t].job, Idle} /\ tab'[t].observed \in {Unset, canonical}
    <3>1. tab[t].observed \in {Unset, canonical} BY DEF Alone
    <3>2. CASE Close(t) BY <3>2 DEF Close, Closed, TypeOK
    <3>3. CASE Edit(t) BY <3>1, <3>3, MemoryFields DEF Edit, Set, TypeOK, Memory
    <3>4. CASE Retry(t)
      <4> DEFINE m == [tab[t] EXCEPT !.retry = None, !.queue = <<Hard(tab[t].retry.snap)>>]
      <4>1. Set(t, m) BY <1>2, <3>4 DEF Retry
      <4>2. m.job = tab[t].job /\ m.observed = tab[t].observed BY MemoryFields DEF Memory
      <4> HIDE DEF m
      <4>3. tab'[t] = m BY <4>1 DEF Set, TypeOK
      <4> QED BY <3>1, <4>2, <4>3
    <3>5. CASE AskPause(t) BY <3>1, <3>5, MemoryFields DEF AskPause, Set, TypeOK, Memory
    <3> QED BY <3>2, <3>3, <3>4, <3>5
  <2> QED BY <2>1, <2>2, <2>3, AloneKept
<1> QED BY <1>1, <1>2

LEMMA AlonePrepare ==
  ASSUME TypeOK, NEW t \in Tab, Alone(t), Prepare(t)
  PROVE  Alone(t)'
<1> DEFINE w   == Head(tab[t].queue)
           job == [pc |-> "compare", read |-> canonical, expects |-> Expected(t),
                   expectsMirror |-> mirror, rev |-> NextRevision(t),
                   snap |-> w.snap, hard |-> w.hard]
           m   == [tab[t] EXCEPT !.active = None, !.queue = Tail(@), !.job = job,
                                 !.latest = NextRevision(t)]
<1>1. ~Paused /\ ~Ambiguous BY AloneUnpaused DEF Alone
<1>2. Set(t, m) /\ GateMarks /\ UNCHANGED <<canonical, mirror, backup, archive>>
  BY <1>1 DEF Prepare
<1>3. Expected(t) = canonical BY DEF Expected, Alone
<1>4. NextRevision(t) > RevOf(canonical) /\ NextRevision(t) > RevOf(mirror) BY NextTyped
<1>5. /\ job.pc = "compare" /\ job.read = canonical /\ job.expects = canonical
      /\ job.expectsMirror = mirror /\ job.rev > RevOf(canonical) /\ job.rev > RevOf(mirror)
  BY <1>3, <1>4
<1> HIDE DEF job
<1>6. m.job = job /\ m.observed = tab[t].observed BY MemoryFields DEF Memory
<1> HIDE DEF m
<1>7. tab'[t] = m BY <1>2 DEF Set, TypeOK
<1>8. Undisturbed(tab[t].job)' BY <1>2, <1>5, <1>6, <1>7 DEF Undisturbed, RevOf
<1> QED BY <1>1, <1>2, <1>6, <1>7, <1>8 DEF Alone, GateMarks, Ambiguous

(* The place of a write changes, its data do not.                          *)
LEMMA PlaceOnly ==
  ASSUME NEW w \in WriteJob, NEW pc \in {"fallback", "mirror", "refresh"}
  PROVE  LET v == [w EXCEPT !.pc = pc]
         IN /\ v.pc = pc /\ v.read = w.read /\ v.expects = w.expects /\ v.rev = w.rev
            /\ v.expectsMirror = w.expectsMirror
            /\ Attempt(v) = Attempt(w) /\ InMirror(v) = InMirror(w)
BY DEF WriteJob, Attempt, InMirror

LEMMA AloneCompare ==
  ASSUME TypeOK, NEW t \in Tab, Alone(t), Compare(t) \/ CompareFails(t)
  PROVE  Alone(t)'
<1>1. PICK w \in WriteJob : w = tab[t].job /\ w.pc = "compare"
  BY JobTyped DEF Compare, CompareFails, At
<1>2. /\ w.expects = canonical /\ w.expectsMirror = mirror /\ w.read = canonical
      /\ w.rev > RevOf(mirror) /\ w.rev > RevOf(canonical)
  BY <1>1 DEF Alone, Undisturbed
<1>3. Attempt(w) \in Row /\ Attempt(w).rev = w.rev BY MadeTyped
<1>4. ASSUME NEW pc \in {"fallback", "mirror"}
      PROVE  [tab[t] EXCEPT !.job.pc = pc].job = [w EXCEPT !.pc = pc]
  BY <1>1, MemoryFields DEF Memory
<1>5. CASE Compare(t)
  <2>1. /\ canonical' = Attempt(w) /\ UNCHANGED <<mirror, marker, backup, archive>>
        /\ Set(t, [tab[t] EXCEPT !.observed = Attempt(w), !.job.pc = "mirror"])
    BY <1>1, <1>2, <1>5 DEF Compare, SameRow
  <2>2. tab'[t].observed = Attempt(w) /\ tab'[t].job = [w EXCEPT !.pc = "mirror"]
    BY <1>1, <2>1, MemoryFields DEF Set, TypeOK, Memory
  <2> DEFINE v == [w EXCEPT !.pc = "mirror"]
  <2>5. v.pc = "mirror" /\ v.expectsMirror = mirror /\ Attempt(v) = Attempt(w)
    BY <1>2, PlaceOnly
  <2>6. tab'[t].job = v BY <2>2
  <2> HIDE DEF v
  <2>3. Undisturbed(tab[t].job)' BY <2>1, <2>5, <2>6 DEF Undisturbed, Attempt
  <2>4. ~Ambiguous'
    <3>1. mirror # None => mirror.rev \in Nat /\ RevOf(mirror) = mirror.rev
      BY DEF TypeOK, Copy, RevOf
    <3>2. w.rev \in Nat BY DEF WriteJob
    <3> QED BY <1>2, <1>3, <2>1, <3>1, <3>2 DEF Ambiguous
  <2> QED BY <2>1, <2>2, <2>3, <2>4 DEF Alone
<1>6. CASE CompareFails(t)
  <2>1. tab'[t].observed = tab[t].observed /\ tab'[t].job = [w EXCEPT !.pc = "fallback"]
    BY <1>1, <1>6, MemoryFields DEF CompareFails, Set, TypeOK, Memory
  <2>2. UNCHANGED stored BY <1>6 DEF CompareFails
  <2>3. Undisturbed(tab[t].job)' BY <1>2, <2>1, <2>2, PlaceOnly DEF Undisturbed, stored, RevOf
  <2> QED BY <2>1, <2>2, <2>3 DEF Alone, stored, Ambiguous
<1> QED BY <1>5, <1>6

LEMMA AloneFallback ==
  ASSUME TypeOK, NEW t \in Tab, Alone(t), Fallback(t)
  PROVE  Alone(t)'
<1>1. PICK w \in WriteJob : w = tab[t].job /\ w.pc = "fallback"
  BY JobTyped DEF Fallback, At
<1>2. w.expectsMirror = mirror /\ w.read = canonical /\ w.rev > RevOf(canonical)
  BY <1>1 DEF Alone, Undisturbed
<1>3. mirror' = InMirror(w) /\ UNCHANGED <<canonical, marker, backup, archive>>
  BY <1>1, <1>2 DEF Fallback
<1>4. tab'[t].job = Idle /\ tab'[t].observed = canonical
  <2> DEFINE m == [tab[t] EXCEPT !.observed = w.read, !.blind = tab[t].blind \/ w.read # w.expects,
                                 !.job = Idle,
                                 !.retry = IF w.hard THEN WriteAgain(w.snap) ELSE @]
  <2>1. Set(t, m) BY <1>1, <1>2 DEF Fallback
  <2>2. m.job = Idle /\ m.observed = canonical BY <1>2, MemoryFields DEF Memory
  <2> HIDE DEF m
  <2>3. tab'[t] = m BY <2>1 DEF Set, TypeOK
  <2> QED BY <2>2, <2>3
<1>5. ~Ambiguous'
  <2>1. canonical # None => canonical.rev \in Nat /\ RevOf(canonical) = canonical.rev
    BY DEF TypeOK, Row, RevOf
  <2>2. w.rev \in Nat /\ InMirror(w).rev = w.rev BY MadeTyped DEF WriteJob
  <2> QED BY <1>2, <1>3, <2>1, <2>2 DEF Ambiguous
<1> QED BY <1>3, <1>4, <1>5 DEF Alone, Undisturbed, Idle

LEMMA AloneMirror ==
  ASSUME TypeOK, NEW t \in Tab, Alone(t), Mirror(t) \/ MirrorDenied(t)
  PROVE  Alone(t)'
<1>1. PICK w \in WriteJob : w = tab[t].job /\ w.pc = "mirror"
  BY JobTyped DEF Mirror, MirrorDenied, At
<1>2. w.expectsMirror = mirror /\ canonical = Attempt(w) BY <1>1 DEF Alone, Undisturbed
<1>3. tab[t].observed \in {Unset, canonical} BY DEF Alone
<1>4. CASE Mirror(t)
  <2>1. mirror' = InMirror(w) /\ UNCHANGED <<canonical, marker, backup, archive>>
    BY <1>1, <1>2, <1>4 DEF Mirror
  <2>2. tab'[t].observed = tab[t].observed /\ tab'[t].job = [w EXCEPT !.pc = "refresh"]
    <3> DEFINE m == [tab[t] EXCEPT !.job.pc = "refresh"]
    <3>1. Set(t, m) BY <1>1, <1>2, <1>4 DEF Mirror
    <3>2. m.job = [w EXCEPT !.pc = "refresh"] /\ m.observed = tab[t].observed
      BY <1>1, MemoryFields DEF Memory
    <3> HIDE DEF m
    <3>3. tab'[t] = m BY <3>1 DEF Set, TypeOK
    <3> QED BY <3>2, <3>3
  <2> DEFINE v == [w EXCEPT !.pc = "refresh"]
  <2>5. v.pc = "refresh" /\ Attempt(v) = Attempt(w) /\ InMirror(v) = InMirror(w)
    BY PlaceOnly
  <2>6. tab'[t].job = v BY <2>2
  <2> HIDE DEF v
  <2>3. Undisturbed(tab[t].job)'
    BY <1>2, <2>1, <2>5, <2>6 DEF Undisturbed, Attempt, InMirror
  <2>4. ~Ambiguous' BY <1>2, <2>1, MadeTyped DEF Ambiguous
  <2> QED BY <1>3, <2>1, <2>2, <2>3, <2>4 DEF Alone
<1>5. CASE MirrorDenied(t)
  <2>1. mirror' = None /\ UNCHANGED <<canonical, marker, backup, archive>>
    BY <1>5 DEF MirrorDenied
  <2>2. tab'[t].observed = tab[t].observed /\ tab'[t].job = Idle
    BY <1>1, <1>5, MemoryFields DEF MirrorDenied, Set, Done, TypeOK, Memory
  <2>3. ~Ambiguous' BY <2>1 DEF Ambiguous
  <2> QED BY <1>3, <2>1, <2>2, <2>3 DEF Alone, Undisturbed, Idle
<1> QED BY <1>4, <1>5

LEMMA AloneRefresh ==
  ASSUME TypeOK, NEW t \in Tab, Alone(t), Refresh(t)
  PROVE  Alone(t)'
<1>1. PICK w \in WriteJob : w = tab[t].job /\ w.pc = "refresh"
  BY JobTyped DEF Refresh, At
<1>2. canonical = Attempt(w) /\ mirror = InMirror(w) BY <1>1 DEF Alone, Undisturbed
<1>3. Done(t, w).job = Idle /\ Done(t, w).observed = tab[t].observed
  BY MemoryFields DEF Done, Memory
<1>4. UNCHANGED <<mirror, marker, backup, archive>> BY <1>1, <1>2 DEF Refresh
<1>5. CASE UNCHANGED canonical /\ Set(t, Done(t, w))
  <2>1. tab'[t] = Done(t, w) BY <1>5 DEF Set, TypeOK
  <2> QED BY <1>3, <1>4, <1>5, <2>1, AloneKept DEF Alone
<1>6. CASE /\ canonical' = [canonical EXCEPT !.obsolete = FALSE]
           /\ Set(t, [Done(t, w) EXCEPT !.observed = canonical'])
  <2>1. Done(t, w) \in Memory BY EndTyped
  <2>2. [Done(t, w) EXCEPT !.observed = canonical'].observed = canonical'
        /\ [Done(t, w) EXCEPT !.observed = canonical'].job = Done(t, w).job
    BY <2>1 DEF Memory
  <2>3. tab'[t].observed = canonical' /\ tab'[t].job = Idle
    BY <1>3, <1>6, <2>2 DEF Set, TypeOK
  <2>4. canonical'.snap = w.snap
    <3>1. Attempt(w) \in Row /\ Attempt(w).snap = w.snap BY MadeTyped
    <3> QED BY <1>2, <1>6, <3>1 DEF Row
  <2>5. ~Ambiguous' BY <1>2, <1>4, <2>4, MadeTyped DEF Ambiguous
  <2> QED BY <1>4, <2>3, <2>5 DEF Alone, Undisturbed, Idle
<1> QED BY <1>1, <1>2, <1>5, <1>6 DEF Refresh

(* What the next step of one tab is.                                       *)
Does(t) ==
  \/ Open(t) \/ Close(t) \/ CloseInConflict(t)
  \/ Edit(t) \/ Retry(t) \/ AskPause(t)
  \/ Write(t) \/ Recovery(t)
  \/ Copies(t) # None /\ \E copy \in Copies(t) : Choose(t, copy)
  \/ \E a \in archive : Reopen(t, a)

LEMMA AloneStep ==
  ASSUME TypeOK, NEW t \in Tab, Alone(t), Does(t)
  PROVE  Alone(t)'
<1>1. ~Recovery(t)
  BY DEF Recovery, Commit, CopyToMirror, Finalize, ClearPause, At, Alone, Undisturbed
<1>2. ~CloseInConflict(t) BY DEF CloseInConflict, At, SameRow, Alone, Undisturbed
<1>3. ~(\E copy \in Copies(t) : Choose(t, copy)) BY AloneUnpaused DEF Choose
<1>4. ~(\E a \in archive : Reopen(t, a)) BY DEF Alone
<1>5. CASE Write(t)
  BY <1>5, AlonePrepare, AloneCompare, AloneFallback, AloneMirror, AloneRefresh DEF Write
<1>6. CASE Open(t) BY <1>6, AloneHydrate DEF Open
<1> QED BY <1>1, <1>2, <1>3, <1>4, <1>5, <1>6, AloneUser DEF Does

(* A step of a tab changes the memory of no other tab.                     *)
LEMMA OwnMemory ==
  ASSUME NEW t \in Tab, Does(t)
  PROVE  \E m : Set(t, m)
<1>1. Hydrate(t) => \E m : Set(t, m) BY DEF Hydrate, Conflict
<1>2. MirrorChanged(t) => \E m : Set(t, m) BY DEF MirrorChanged
<1>3. GivesUp(t) => \E m : Set(t, m) BY DEF GivesUp
<1>4. CASE Write(t) /\ ~Refresh(t)
  BY <1>2, <1>4 DEF Write, Prepare, Compare, CompareFails, Fallback, Mirror, MirrorDenied, Conflict
<1>5. CASE Refresh(t) BY <1>5 DEF Refresh, Conflict
<1>6. CASE Recovery(t)
  BY <1>3, <1>6 DEF Recovery, Commit, CopyToMirror, Finalize, ClearPause
<1>7. CASE Close(t) \/ CloseInConflict(t) BY <1>7 DEF Close, CloseInConflict, Set
<1>8. CASE Edit(t) \/ Retry(t) \/ AskPause(t)
  BY <1>1, <1>8 DEF Edit, Retry, AskPause
<1>9. CASE Open(t) BY <1>1, <1>9 DEF Open
<1>10. CASE \E copy \in Copies(t) : Choose(t, copy) BY <1>10 DEF Choose
<1>11. CASE \E a \in archive : Reopen(t, a) BY <1>11 DEF Reopen, Conflict
<1> QED BY <1>4, <1>5, <1>6, <1>7, <1>8, <1>9, <1>10, <1>11 DEF Does

(* It opens at most its own tab.                                           *)
LEMMA OwnOpening ==
  ASSUME NEW t \in Tab, Does(t)
  PROVE  opened' \in {opened, opened \cup {t}} /\ (Open(t) => t \in opened')
<1>1. Hydrate(t) => opened' = opened \cup {t} BY DEF Hydrate
<1>2. Write(t) => UNCHANGED opened
  BY DEF Write, Prepare, Compare, CompareFails, Fallback, Mirror, MirrorDenied, Refresh
<1>3. Recovery(t) => UNCHANGED opened
  BY DEF Recovery, Commit, CopyToMirror, Finalize, ClearPause
<1>4. Open(t) \/ Close(t) \/ CloseInConflict(t) \/ Edit(t) \/ Retry(t) \/ AskPause(t)
        => opened' \in {opened, opened \cup {t}}
  BY <1>1 DEF Open, Close, CloseInConflict, Edit, Retry, AskPause
<1>5. (\E copy \in Copies(t) : Choose(t, copy)) \/ (\E a \in archive : Reopen(t, a))
        => UNCHANGED opened
  BY DEF Choose, Reopen
<1>6. Open(t) => t \in opened' BY <1>1 DEF Open
<1>7. opened' \in {opened, opened \cup {t}} BY <1>2, <1>3, <1>4, <1>5 DEF Does
<1> QED BY <1>6, <1>7

(* All that a closed tab does is open.                                     *)
LEMMA ClosedOpens ==
  ASSUME NEW t \in Tab, tab[t] = Closed, Does(t)
  PROVE  Open(t)
<1>1. ~tab[t].open /\ tab[t].job.pc = "idle" /\ tab[t].queue = <<>> BY DEF Closed, Idle
<1>2. ~Write(t)
  BY <1>1 DEF Write, Prepare, Compare, CompareFails, Fallback, Mirror, MirrorDenied, Refresh, At
<1>3. ~Recovery(t) BY <1>1 DEF Recovery, Commit, CopyToMirror, Finalize, ClearPause, At
<1> QED
  BY <1>1, <1>2, <1>3 DEF Does, Close, CloseInConflict, Edit, Retry, AskPause, Choose, Reopen, At

LEMMA OneInit == Init => OneInv
<1> SUFFICES ASSUME Init PROVE OneInv OBVIOUS
<1>1. opened = {} /\ IsFiniteSet(opened) BY FS_EmptySet DEF Init
<1>2. \A t \in Tab : tab[t] = Closed BY DEF Init
<1>3. ASSUME NEW t \in Tab PROVE Alone(t)
  BY <1>2 DEF Init, Alone, Ambiguous, Closed, Idle, Undisturbed
<1> QED BY <1>1, <1>2, <1>3 DEF OneInv

LEMMA OneNext == TypeOK /\ OneInv /\ [Next]_vars => OneInv'
<1> SUFFICES ASSUME TypeOK, OneInv, [Next]_vars PROVE OneInv' OBVIOUS
<1>1. CASE UNCHANGED vars \/ ClockMoves
  <2>1. UNCHANGED <<stored, tab, opened>> BY <1>1 DEF vars, ClockMoves
  <2> QED BY <2>1 DEF stored, OneInv, Alone, Ambiguous, Undisturbed, RevOf, Attempt, InMirror
<1>2. ASSUME NEW t \in Tab, Does(t) PROVE OneInv'
  <2>1. PICK m : Set(t, m) BY <1>2, OwnMemory
  <2>2. \A u \in Tab : u # t => tab'[u] = tab[u] BY <2>1 DEF Set, TypeOK
  <2>3. opened' \in {opened, opened \cup {t}} BY <1>2, OwnOpening
  <2>4. t \in opened'
    <3>1. CASE t \in opened BY <2>3, <3>1
    <3>2. CASE t \notin opened BY <1>2, <3>2, OwnOpening, ClosedOpens DEF OneInv
    <3> QED BY <3>1, <3>2
  <2>5. opened' \subseteq Tab /\ IsFiniteSet(opened')
    BY <2>3, FS_AddElement DEF OneInv
  <2>6. \A u \in Tab \ opened' : tab'[u] = Closed BY <2>2, <2>3, <2>4 DEF OneInv
  <2>7. ASSUME NEW u \in Tab, opened' \subseteq {u} PROVE Alone(u)'
    <3>1. u = t /\ opened \subseteq {t} BY <2>3, <2>4, <2>7
    <3>2. Alone(t) BY <3>1 DEF OneInv
    <3> QED BY <1>2, <3>1, <3>2, AloneStep
  <2> QED BY <2>5, <2>6, <2>7 DEF OneInv
<1> QED BY <1>1, <1>2 DEF Next, Does

(* A browser in which only one tab was ever opened never meets a conflict: *)
(* what its write expects is what is stored, in whichever step it failed   *)
(* or was closed, since every revision it takes is above both of them.     *)
THEOREM OneTabNeverPausedHolds == Spec => []OneTabNeverPaused
<1>1. OneInv => OneTabNeverPaused
  <2> SUFFICES ASSUME OneInv, Cardinality(opened) = 1 PROVE ~Paused /\ backup = NoBackup
    BY DEF OneTabNeverPaused
  <2>1. PICK t : opened = {t} BY FS_Singleton DEF OneInv
  <2>2. t \in Tab /\ Alone(t) BY <2>1 DEF OneInv
  <2> QED BY <2>2, AloneUnpaused DEF Alone
<1> QED BY <1>1, OneInit, OneNext, TypeCorrect, PTL DEF Spec

-----------------------------------------------------------------------------
(* What is saved in a browser with one tab.                                *)

(* The chain of writes: each has what the one before it has.               *)
Ascending(q) == \A i, j \in 1 .. Len(q) : i <= j => q[i].snap \subseteq q[j].snap
Between(q, low, high) == \A i \in 1 .. Len(q) : low \subseteq q[i].snap /\ q[i].snap \subseteq high
EndsHard(q) == q # <<>> /\ q[Len(q)].hard

(* What a tab has in its memory has what a reader would select.            *)
Follows(m, selected) ==
  /\ selected \subseteq m.state
  /\ Ascending(m.queue) /\ Between(m.queue, selected, m.state)
  /\ m.job # Idle => /\ selected \subseteq m.job.snap /\ m.job.snap \subseteq m.state
                     /\ Between(m.queue, m.job.snap, m.state)

(* A write that may be asked for again is the last one, or a later one     *)
(* will say how it ended.                                                  *)
Again(m, selected) ==
  /\ m.queue = <<>> \/ EndsHard(m.queue) \/ (Len(m.queue) = 1 /\ m.job = Idle /\ m.retry = None)
  /\ m.retry # None =>
       /\ m.retry.kind = "write"
       /\ m.queue = <<>> /\ m.job # Idle => m.job.hard
       /\ m.queue = <<>> /\ m.job = Idle =>
            selected \subseteq m.retry.snap /\ m.retry.snap \subseteq m.state

Landed(m, selected) == m.job.pc \in {"mirror", "refresh"} => selected = m.job.snap

KeepsSaved(t) ==
  /\ saved \subseteq Selected
  /\ IF tab[t].open
     THEN Follows(tab[t], Selected) /\ Again(tab[t], Selected) /\ Landed(tab[t], Selected)
     ELSE tab[t] = Closed

SavedInv == \A t \in Tab : opened \subseteq {t} => KeepsSaved(t)

LEMMA ChainTail ==
  ASSUME NEW q \in Seq(Entered), q # <<>>, NEW low, NEW high, Ascending(q), Between(q, low, high)
  PROVE  /\ Head(q) \in Entered /\ Tail(q) \in Seq(Entered)
         /\ low \subseteq Head(q).snap /\ Head(q).snap \subseteq high
         /\ Ascending(Tail(q)) /\ Between(Tail(q), Head(q).snap, high)
         /\ Tail(q) # <<>> => q[Len(q)] = Tail(q)[Len(Tail(q))]
         /\ Tail(q) = <<>> => q[Len(q)] = Head(q)
<1>1. Len(q) \in Nat /\ Len(q) >= 1 /\ Head(q) = q[1] /\ Len(Tail(q)) = Len(q) - 1
  OBVIOUS
<1>2. \A i \in 1 .. Len(Tail(q)) : Tail(q)[i] = q[i + 1] /\ i + 1 \in 1 .. Len(q)
  BY <1>1
<1>3. Ascending(Tail(q))
  <2> SUFFICES ASSUME NEW i \in 1 .. Len(Tail(q)), NEW j \in 1 .. Len(Tail(q)), i <= j
               PROVE  Tail(q)[i].snap \subseteq Tail(q)[j].snap
    BY DEF Ascending
  <2> QED BY <1>1, <1>2 DEF Ascending
<1>4. Between(Tail(q), Head(q).snap, high)
  <2> SUFFICES ASSUME NEW i \in 1 .. Len(Tail(q))
               PROVE  q[1].snap \subseteq Tail(q)[i].snap /\ Tail(q)[i].snap \subseteq high
    BY <1>1 DEF Between
  <2>1. i + 1 \in 1 .. Len(q) /\ Tail(q)[i] = q[i + 1] /\ 1 \in 1 .. Len(q) /\ 1 <= i + 1
    BY <1>1, <1>2
  <2> QED BY <2>1 DEF Ascending, Between
<1>5. Tail(q) # <<>> => q[Len(q)] = Tail(q)[Len(Tail(q))] BY <1>1, <1>2
<1>6. ASSUME Tail(q) = <<>> PROVE q[Len(q)] = Head(q)
  <2> DEFINE k == Len(q)
             l == Len(Tail(q))
  <2>1. k \in Nat /\ l = k - 1 BY <1>1
  <2>2. l = 0 BY <1>6, EmptySeq, Zenon
  <2> HIDE DEF k, l
  <2>3. k = 1 BY <2>1, <2>2
  <2> QED BY <1>1, <2>3 DEF k
<1>7. low \subseteq q[1].snap /\ q[1].snap \subseteq high BY <1>1 DEF Between
<1> QED BY <1>1, <1>3, <1>4, <1>5, <1>6, <1>7

LEMMA ChainEdit ==
  ASSUME NEW q \in Seq(Entered), NEW low, NEW high, Ascending(q), Between(q, low, high),
         low \subseteq high, NEW s, high \subseteq s
  PROVE  LET p == q \o <<Soft(s), Hard(s)>>
         IN Ascending(p) /\ Between(p, low, s) /\ EndsHard(p)
<1> DEFINE e == <<Soft(s), Hard(s)>>
           p == q \o e
           n == Len(q)
<1>1. n \in Nat /\ Len(p) = n + 2 OBVIOUS
<1>2. \A i \in 1 .. n : p[i] = q[i] OBVIOUS
<1>3. p[n + 1].snap = s /\ p[n + 2].snap = s /\ p[n + 2].hard BY DEF Soft, Hard
<1>4. \A i \in 1 .. n + 2 : i \in 1 .. n \/ i = n + 1 \/ i = n + 2 BY <1>1
<1> HIDE DEF p
<1>5. \A i \in 1 .. n + 2 : low \subseteq p[i].snap /\ p[i].snap \subseteq s
  BY <1>2, <1>3, <1>4 DEF Between
<1>6. ASSUME NEW i \in 1 .. n + 2, NEW j \in 1 .. n + 2, i <= j
      PROVE  p[i].snap \subseteq p[j].snap
  <2>1. CASE j \in 1 .. n BY <1>1, <1>2, <1>6, <2>1 DEF Ascending
  <2>2. CASE j \notin 1 .. n BY <1>3, <1>4, <1>5, <2>2
  <2> QED BY <2>1, <2>2
<1>7. Ascending(p) /\ Between(p, low, s) BY <1>1, <1>5, <1>6 DEF Ascending, Between
<1>8. EndsHard(p) BY <1>1, <1>3 DEF EndsHard
<1> QED BY <1>7, <1>8 DEF p

(* A write goes on, or lands in what a reader selects.                     *)
LEMMA GoesOn ==
  ASSUME NEW m, NEW n, NEW selected, NEW shown, Follows(m, selected), Again(m, selected),
         m.job # Idle, n.job # Idle, n.state = m.state, n.queue = m.queue, n.retry = m.retry,
         n.job.snap = m.job.snap, n.job.hard = m.job.hard, shown \in {selected, m.job.snap}
  PROVE  Follows(n, shown) /\ Again(n, shown)
BY DEF Follows, Again

(* A write is over: an edit's says how, what Zustand wrote does not.       *)
LEMMA GoesOut ==
  ASSUME NEW m, NEW n, NEW selected, Follows(m, selected), Again(m, selected),
         m.job # Idle, n.job = Idle, n.state = m.state, n.queue = m.queue,
         IF m.job.hard THEN n.retry \in {None, WriteAgain(m.job.snap)} ELSE n.retry = m.retry
  PROVE  Follows(n, m.job.snap) /\ Again(n, m.job.snap)
<1>1. Follows(n, m.job.snap) BY DEF Follows
<1>2. WriteAgain(m.job.snap).kind = "write" /\ WriteAgain(m.job.snap).snap = m.job.snap
  BY DEF WriteAgain
<1>3. Again(n, m.job.snap) BY <1>2 DEF Follows, Again
<1> QED BY <1>1, <1>3

(* What a reader selects after a write of the row, or of the mirror.       *)
LEMMA RowShows ==
  ASSUME NEW w \in WriteJob, canonical' \in Row, canonical'.snap = w.snap, canonical'.rev = w.rev,
         mirror' = None \/ (mirror' \in Copy /\ mirror'.rev <= w.rev)
  PROVE  Selected' = w.snap
<1>1. canonical' # None BY NamesDistinct
<1>2. w.rev \in Nat BY DEF WriteJob
<1>3. ~(mirror' # None /\ mirror'.rev > w.rev) BY <1>2 DEF Copy
<1> QED BY <1>1, <1>3 DEF Selected, SnapOf, RevOf

LEMMA MirrorShows ==
  ASSUME TypeOK, NEW w \in WriteJob, mirror' = InMirror(w), UNCHANGED canonical,
         w.rev > RevOf(canonical)
  PROVE  Selected' = w.snap
<1>1. InMirror(w) \in Copy /\ InMirror(w).rev = w.rev /\ InMirror(w).snap = w.snap BY MadeTyped
<1>2. InMirror(w) # None BY <1>1, NamesDistinct
<1> QED BY <1>1, <1>2 DEF Selected, RevOf

LEMMA SavedHydrate ==
  ASSUME TypeOK, NEW t \in Tab, Alone(t), KeepsSaved(t), Open(t)
  PROVE  KeepsSaved(t)'
<1> DEFINE m == [tab[t] EXCEPT !.open = TRUE, !.state = Shown(t), !.observed = canonical,
                               !.latest = Larger(tab[t].latest, RevOf(canonical)),
                               !.active = None, !.retry = None, !.blind = FALSE,
                               !.queue = Append(@, Soft(Shown(t)))]
<1>1. ~Paused /\ ~Ambiguous BY AloneUnpaused DEF Alone
<1>2. Set(t, m) /\ UNCHANGED <<canonical, mirror, saved>>
  BY <1>1 DEF Open, Hydrate, history
<1>3. tab[t] = Closed BY DEF Open, KeepsSaved
<1>9. Shown(t) = Selected
  <2>1. tab[t].state = {} BY <1>3 DEF Closed
  <2> QED BY <2>1 DEF Shown, Selected, SnapOf
<1>4. m.job = Idle /\ m.retry = None /\ m.state = Selected /\ m.queue = <<Soft(Selected)>> /\ m.open
  BY <1>3, <1>9 DEF Closed
<1> HIDE DEF m
<1>5. tab'[t] = m BY <1>2 DEF Set, TypeOK
<1>6. Selected' = Selected BY <1>2 DEF Selected, SnapOf, RevOf
<1>7. Ascending(m.queue) /\ Between(m.queue, Selected, Selected)
  BY <1>4 DEF Ascending, Between, Soft
<1>8. Follows(m, Selected) /\ Again(m, Selected) /\ Landed(m, Selected)
  BY <1>4, <1>7 DEF Follows, Again, Landed, Idle
<1> QED BY <1>2, <1>4, <1>5, <1>6, <1>8 DEF KeepsSaved

(* The row, the mirror and what is saved stay as they are.                 *)
LEMMA SavedUser ==
  ASSUME TypeOK, NEW t \in Tab, Alone(t), KeepsSaved(t), tab[t].open,
         Close(t) \/ Edit(t) \/ Retry(t) \/ AskPause(t)
  PROVE  KeepsSaved(t)'
<1>0. /\ saved \subseteq Selected
      /\ Follows(tab[t], Selected) /\ Again(tab[t], Selected) /\ Landed(tab[t], Selected)
  BY DEF KeepsSaved
<1>1. ~(tab[t].retry # None /\ tab[t].retry.kind = "hydrate") BY <1>0 DEF Again
<1>2. UNCHANGED <<canonical, mirror, saved>>
  BY <1>1 DEF Close, Edit, Retry, AskPause, stored, history
<1>3. Selected' = Selected BY <1>2 DEF Selected, SnapOf, RevOf
<1>4. CASE Close(t)
  <2>1. tab'[t] = Closed BY <1>4 DEF Close, TypeOK
  <2> QED BY <1>0, <1>2, <1>3, <2>1 DEF KeepsSaved, Closed
<1>5. ASSUME NEW m, Set(t, m), m.open, Follows(m, Selected), Again(m, Selected),
             m.job = tab[t].job
      PROVE  KeepsSaved(t)'
  <2>1. tab'[t] = m BY <1>5 DEF Set, TypeOK
  <2>2. Landed(m, Selected) BY <1>0, <1>5 DEF Landed
  <2> QED BY <1>0, <1>2, <1>3, <1>5, <2>1, <2>2 DEF KeepsSaved
<1>6. CASE Edit(t)
  <2> DEFINE s == tab[t].state \cup {edits'}
             q == tab[t].queue \o <<Soft(s), Hard(s)>>
             m == [tab[t] EXCEPT !.state = s, !.retry = None,
                                 !.queue = @ \o <<Soft(s), Hard(s)>>]
  <2>1. Set(t, m) BY <1>6 DEF Edit
  <2>2. m.state = s /\ m.retry = None /\ m.queue = q /\ m.job = tab[t].job /\ m.open
    BY MemoryFields DEF Memory
  <2> HIDE DEF m
  <2>3. tab[t].state \subseteq s OBVIOUS
  <2>4. tab[t].queue \in Seq(Entered) BY MemoryFields
  <2> HIDE DEF s
  <2>5. Ascending(q) /\ Between(q, Selected, s) /\ EndsHard(q)
    BY <1>0, <2>3, <2>4, ChainEdit DEF Follows
  <2>6. m.job # Idle => Between(q, m.job.snap, s)
    BY <1>0, <2>2, <2>3, <2>4, ChainEdit DEF Follows
  <2> HIDE DEF q
  <2>7. Follows(m, Selected) BY <1>0, <2>2, <2>3, <2>5, <2>6 DEF Follows
  <2>8. Again(m, Selected) BY <2>2, <2>5 DEF Again
  <2> QED BY <1>5, <2>1, <2>2, <2>7, <2>8
<1>7. CASE Retry(t)
  <2> DEFINE s == tab[t].retry.snap
             m == [tab[t] EXCEPT !.retry = None, !.queue = <<Hard(tab[t].retry.snap)>>]
  <2>1. Set(t, m) BY <1>1, <1>7 DEF Retry
  <2>2. m.state = tab[t].state /\ m.retry = None /\ m.queue = <<Hard(s)>>
        /\ m.job = tab[t].job /\ m.open
    BY MemoryFields DEF Memory
  <2> HIDE DEF m
  <2>3. tab[t].job = Idle
    <3>1. tab[t].job.pc = "idle" BY <1>7 DEF Retry, Quiet, At
    <3>2. tab[t].job \in {Idle} \cup WriteJob \cup RecoveryJob BY DEF TypeOK, Memory
    <3> QED BY <3>1, <3>2 DEF WriteJob, RecoveryJob
  <2>4. Selected \subseteq s /\ s \subseteq tab[t].state
    BY <1>0, <1>7, <2>3 DEF Again, Retry, Quiet
  <2>5. Ascending(<<Hard(s)>>) /\ Between(<<Hard(s)>>, Selected, tab[t].state)
        /\ EndsHard(<<Hard(s)>>)
    BY <2>4 DEF Ascending, Between, EndsHard, Hard
  <2>6. Follows(m, Selected) BY <1>0, <2>2, <2>3, <2>5 DEF Follows
  <2>7. Again(m, Selected) BY <2>2, <2>5 DEF Again
  <2> QED BY <1>5, <2>1, <2>2, <2>6, <2>7
<1>8. CASE AskPause(t)
  <2> DEFINE m == [tab[t] EXCEPT !.active = GateActive(t)]
  <2>1. Set(t, m) BY <1>8 DEF AskPause
  <2>2. m.state = tab[t].state /\ m.retry = tab[t].retry /\ m.queue = tab[t].queue
        /\ m.job = tab[t].job /\ m.open
    BY MemoryFields DEF Memory
  <2> HIDE DEF m
  <2>3. Follows(m, Selected) /\ Again(m, Selected) BY <1>0, <2>2 DEF Follows, Again
  <2> QED BY <1>5, <2>1, <2>2, <2>3
<1> QED BY <1>4, <1>6, <1>7, <1>8

LEMMA SavedPrepare ==
  ASSUME TypeOK, NEW t \in Tab, Alone(t), KeepsSaved(t), Prepare(t)
  PROVE  KeepsSaved(t)'
<1> DEFINE w   == Head(tab[t].queue)
           job == [pc |-> "compare", read |-> canonical, expects |-> Expected(t),
                   expectsMirror |-> mirror, rev |-> NextRevision(t),
                   snap |-> w.snap, hard |-> w.hard]
           m   == [tab[t] EXCEPT !.active = None, !.queue = Tail(@), !.job = job,
                                 !.latest = NextRevision(t)]
<1>1. ~Paused /\ ~Ambiguous BY AloneUnpaused DEF Alone
<1>2. Set(t, m) /\ UNCHANGED <<canonical, mirror, saved>> BY <1>1 DEF Prepare, history
<1>3. /\ saved \subseteq Selected /\ tab[t].open /\ tab[t].queue # <<>>
      /\ Follows(tab[t], Selected) /\ Again(tab[t], Selected)
  BY DEF KeepsSaved, Prepare
<1>4. job.pc = "compare" /\ job.snap = w.snap /\ job.hard = w.hard OBVIOUS
<1> HIDE DEF job
<1>5. m.state = tab[t].state /\ m.retry = tab[t].retry /\ m.queue = Tail(tab[t].queue)
      /\ m.job = job /\ m.open
  BY <1>3, MemoryFields DEF Memory
<1> HIDE DEF m
<1>6. tab'[t] = m BY <1>2 DEF Set, TypeOK
<1>7. Selected' = Selected BY <1>2 DEF Selected, SnapOf, RevOf
<1>8. job # Idle BY <1>4 DEF Idle
<1> DEFINE q == tab[t].queue
<1>9. /\ Selected \subseteq w.snap /\ w.snap \subseteq tab[t].state
      /\ Ascending(Tail(q)) /\ Between(Tail(q), w.snap, tab[t].state)
      /\ Tail(q) # <<>> => q[Len(q)] = Tail(q)[Len(Tail(q))]
      /\ Tail(q) = <<>> => q[Len(q)] = w
  <2>1. q \in Seq(Entered) BY MemoryFields
  <2>2. Ascending(q) /\ Between(q, Selected, tab[t].state) BY <1>3 DEF Follows
  <2> QED BY <1>3, <2>1, <2>2, ChainTail
<1>10. Between(Tail(q), Selected, tab[t].state) BY <1>9 DEF Between
<1>11. Follows(m, Selected) BY <1>3, <1>4, <1>5, <1>9, <1>10 DEF Follows
<1>12. Again(m, Selected)
  <2>1. EndsHard(q) \/ tab[t].retry = None BY <1>3 DEF Again
  <2>2. Tail(q) = <<>> \/ EndsHard(Tail(q)) \/ ~EndsHard(q) BY <1>9 DEF EndsHard
  <2>3. Tail(q) = <<>> /\ EndsHard(q) => w.hard BY <1>9 DEF EndsHard
  <2>4. ~EndsHard(q) => Tail(q) = <<>>
    <3>1. ~EndsHard(q) => Len(q) = 1 BY <1>3 DEF Again
    <3>2. q \in Seq(Entered) BY MemoryFields
    <3>3. Len(q) = 1 => Len(Tail(q)) = 0 /\ Tail(q) \in Seq(Entered) BY <3>2
    <3> QED BY <3>1, <3>3, EmptySeq
  <2> QED BY <1>3, <1>4, <1>5, <1>8, <2>1, <2>2, <2>3, <2>4 DEF Again
<1>13. Landed(m, Selected) BY <1>4, <1>5 DEF Landed
<1> QED BY <1>2, <1>3, <1>5, <1>6, <1>7, <1>11, <1>12, <1>13 DEF KeepsSaved

LEMMA SavedCompare ==
  ASSUME TypeOK, NEW t \in Tab, Alone(t), KeepsSaved(t), tab[t].open,
         Compare(t) \/ CompareFails(t)
  PROVE  KeepsSaved(t)'
<1>1. PICK w \in WriteJob : w = tab[t].job /\ w.pc = "compare"
  BY JobTyped DEF Compare, CompareFails, At
<1>2. /\ w.expects = canonical /\ w.expectsMirror = mirror /\ w.rev > RevOf(mirror)
  BY <1>1 DEF Alone, Undisturbed
<1>3. /\ saved \subseteq Selected
      /\ Follows(tab[t], Selected) /\ Again(tab[t], Selected)
  BY DEF KeepsSaved
<1>4. ASSUME NEW pc \in {"fallback", "mirror"}, NEW m, Set(t, m), m.open,
             m.state = tab[t].state, m.queue = tab[t].queue, m.retry = tab[t].retry,
             m.job = [w EXCEPT !.pc = pc], UNCHANGED saved,
             IF pc = "mirror" THEN Selected' = w.snap ELSE Selected' = Selected
      PROVE  KeepsSaved(t)'
  <2>1. tab'[t] = m BY <1>4 DEF Set, TypeOK
  <2>2. m.job.pc = pc /\ m.job.snap = w.snap /\ m.job.hard = w.hard BY <1>4 DEF WriteJob
  <2>3. m.job # Idle /\ tab[t].job # Idle BY <1>1, <2>2 DEF Idle
  <2>4. Follows(m, Selected') /\ Again(m, Selected')
    <3>1. \A shown \in {Selected, w.snap} : Follows(m, shown) /\ Again(m, shown)
      BY <1>1, <1>3, <1>4, <2>2, <2>3, GoesOn
    <3> QED BY <1>4, <3>1
  <2>5. Landed(m, Selected') BY <1>4, <2>2 DEF Landed
  <2>6. Selected \subseteq w.snap BY <1>1, <1>3, <2>3 DEF Follows
  <2> QED BY <1>3, <1>4, <2>1, <2>4, <2>5, <2>6 DEF KeepsSaved
<1>5. CASE Compare(t)
  <2> DEFINE m == [tab[t] EXCEPT !.observed = Attempt(w), !.job.pc = "mirror"]
  <2>1. /\ canonical' = Attempt(w) /\ UNCHANGED <<mirror, saved>> /\ Set(t, m)
    BY <1>1, <1>2, <1>5 DEF Compare, SameRow
  <2>2. /\ m.state = tab[t].state /\ m.queue = tab[t].queue /\ m.retry = tab[t].retry
        /\ m.open /\ m.job = [w EXCEPT !.pc = "mirror"]
    BY <1>1, MemoryFields DEF Memory
  <2> HIDE DEF m
  <2>3. Selected' = w.snap
    <3>1. mirror' = None \/ (mirror' \in Copy /\ mirror'.rev <= w.rev)
      BY <1>2, <2>1 DEF TypeOK, RevOf, Copy, WriteJob
    <3> QED BY <2>1, <3>1, MadeTyped, RowShows
  <2> QED BY <1>4, <2>1, <2>2, <2>3
<1>6. CASE CompareFails(t)
  <2> DEFINE m == [tab[t] EXCEPT !.job.pc = "fallback"]
  <2>1. UNCHANGED <<canonical, mirror, saved>> /\ Set(t, m)
    BY <1>6 DEF CompareFails, stored, history
  <2>2. /\ m.state = tab[t].state /\ m.queue = tab[t].queue /\ m.retry = tab[t].retry
        /\ m.open /\ m.job = [w EXCEPT !.pc = "fallback"]
    BY <1>1, MemoryFields DEF Memory
  <2> HIDE DEF m
  <2>3. Selected' = Selected BY <2>1 DEF Selected, SnapOf, RevOf
  <2> QED BY <1>4, <2>1, <2>2, <2>3
<1> QED BY <1>5, <1>6

(* A write is over, and what it wrote is what a reader selects.            *)
LEMMA SavedAfter ==
  ASSUME TypeOK, NEW t \in Tab, KeepsSaved(t), tab[t].open,
         NEW w \in WriteJob, w = tab[t].job, w.pc \in {"fallback", "mirror", "refresh"},
         NEW m, Set(t, m), m.open, m.job = Idle, m.state = tab[t].state, m.queue = tab[t].queue,
         IF w.hard THEN m.retry \in {None, WriteAgain(w.snap)} ELSE m.retry = tab[t].retry,
         Selected' = w.snap, saved' \in {saved, saved \cup w.snap}
  PROVE  KeepsSaved(t)'
<1>1. /\ saved \subseteq Selected
      /\ Follows(tab[t], Selected) /\ Again(tab[t], Selected)
  BY DEF KeepsSaved
<1>2. tab[t].job # Idle BY DEF Idle
<1>3. Follows(m, w.snap) /\ Again(m, w.snap) BY <1>1, <1>2, GoesOut
<1>4. Landed(m, w.snap) BY DEF Landed, Idle
<1>5. Selected \subseteq w.snap BY <1>1, <1>2 DEF Follows
<1>6. tab'[t] = m BY DEF Set, TypeOK
<1> QED BY <1>1, <1>3, <1>4, <1>5, <1>6 DEF KeepsSaved

LEMMA DoneIs ==
  ASSUME TypeOK, NEW t \in Tab, NEW w \in WriteJob
  PROVE  /\ Done(t, w).open = tab[t].open /\ Done(t, w).job = Idle
         /\ Done(t, w).state = tab[t].state /\ Done(t, w).queue = tab[t].queue
         /\ Done(t, w).retry = IF w.hard THEN None ELSE tab[t].retry
BY MemoryFields DEF Done, Memory

LEMMA SavedFallback ==
  ASSUME TypeOK, NEW t \in Tab, Alone(t), KeepsSaved(t), tab[t].open, Fallback(t)
  PROVE  KeepsSaved(t)'
<1>1. PICK w \in WriteJob : w = tab[t].job /\ w.pc = "fallback"
  BY JobTyped DEF Fallback, At
<1>2. w.expectsMirror = mirror /\ w.rev > RevOf(canonical)
  BY <1>1 DEF Alone, Undisturbed
<1> DEFINE m == [tab[t] EXCEPT !.observed = w.read, !.blind = tab[t].blind \/ w.read # w.expects,
                               !.job = Idle,
                               !.retry = IF w.hard THEN WriteAgain(w.snap) ELSE @]
<1>3. mirror' = InMirror(w) /\ UNCHANGED <<canonical, saved>> /\ Set(t, m)
  BY <1>1, <1>2 DEF Fallback
<1>4. /\ m.open /\ m.job = Idle /\ m.state = tab[t].state /\ m.queue = tab[t].queue
      /\ m.retry = IF w.hard THEN WriteAgain(w.snap) ELSE tab[t].retry
  BY MemoryFields DEF Memory
<1> HIDE DEF m
<1>5. Selected' = w.snap BY <1>2, <1>3, MirrorShows
<1> QED BY <1>1, <1>3, <1>4, <1>5, SavedAfter

LEMMA SavedMirror ==
  ASSUME TypeOK, NEW t \in Tab, Alone(t), KeepsSaved(t), tab[t].open,
         Mirror(t) \/ MirrorDenied(t)
  PROVE  KeepsSaved(t)'
<1>1. PICK w \in WriteJob : w = tab[t].job /\ w.pc = "mirror"
  BY JobTyped DEF Mirror, MirrorDenied, At
<1>2. w.expectsMirror = mirror /\ canonical = Attempt(w) BY <1>1 DEF Alone, Undisturbed
<1>3. Attempt(w) \in Row /\ Attempt(w).snap = w.snap /\ Attempt(w).rev = w.rev
      /\ InMirror(w) \in Copy /\ InMirror(w).rev = w.rev /\ w.rev \in Nat
  BY MadeTyped DEF WriteJob
<1>4. CASE Mirror(t)
  <2> DEFINE m == [tab[t] EXCEPT !.job.pc = "refresh"]
  <2>1. mirror' = InMirror(w) /\ UNCHANGED <<canonical, saved>> /\ Set(t, m)
    BY <1>1, <1>2, <1>4 DEF Mirror, history
  <2>2. /\ m.state = tab[t].state /\ m.queue = tab[t].queue /\ m.retry = tab[t].retry
        /\ m.open /\ m.job = [w EXCEPT !.pc = "refresh"]
    BY <1>1, MemoryFields DEF Memory
  <2> HIDE DEF m
  <2>3. Selected' = w.snap BY <1>2, <1>3, <2>1, RowShows
  <2>4. m.job.pc = "refresh" /\ m.job.snap = w.snap /\ m.job.hard = w.hard
    BY <2>2 DEF WriteJob
  <2>5. m.job # Idle /\ tab[t].job # Idle BY <1>1, <2>4 DEF Idle
  <2>6. Follows(m, w.snap) /\ Again(m, w.snap)
    BY <1>1, <2>2, <2>4, <2>5, GoesOn DEF KeepsSaved
  <2>7. Landed(m, w.snap) BY <2>4 DEF Landed
  <2>8. saved \subseteq w.snap BY <1>1, <2>5 DEF KeepsSaved, Follows
  <2>9. tab'[t] = m BY <2>1 DEF Set, TypeOK
  <2> QED BY <2>1, <2>2, <2>3, <2>6, <2>7, <2>8, <2>9 DEF KeepsSaved
<1>5. CASE MirrorDenied(t)
  <2>1. /\ mirror' = None /\ UNCHANGED canonical /\ Set(t, Done(t, w))
        /\ saved' \in {saved, saved \cup w.snap}
    BY <1>1, <1>5 DEF MirrorDenied, Succeeds
  <2>2. Selected' = w.snap BY <1>2, <1>3, <2>1, RowShows
  <2> HIDE DEF Done
  <2> QED BY <1>1, <2>1, <2>2, DoneIs, SavedAfter
<1> QED BY <1>4, <1>5

LEMMA SavedRefresh ==
  ASSUME TypeOK, NEW t \in Tab, Alone(t), KeepsSaved(t), tab[t].open, Refresh(t)
  PROVE  KeepsSaved(t)'
<1>1. PICK w \in WriteJob : w = tab[t].job /\ w.pc = "refresh"
  BY JobTyped DEF Refresh, At
<1>2. canonical = Attempt(w) /\ mirror = InMirror(w) BY <1>1 DEF Alone, Undisturbed
<1>3. Attempt(w) \in Row /\ Attempt(w).snap = w.snap /\ Attempt(w).rev = w.rev
      /\ InMirror(w) \in Copy /\ InMirror(w).rev = w.rev /\ w.rev \in Nat
  BY MadeTyped DEF WriteJob
<1>4. saved' \in {saved, saved \cup w.snap} /\ UNCHANGED mirror
  BY <1>1, <1>2 DEF Refresh, Succeeds
<1>5. CASE UNCHANGED canonical /\ Set(t, Done(t, w))
  <2>1. Selected' = w.snap BY <1>2, <1>3, <1>4, <1>5, RowShows
  <2> QED BY <1>1, <1>4, <1>5, <2>1, DoneIs, SavedAfter
<1>6. CASE /\ canonical' = [canonical EXCEPT !.obsolete = FALSE]
           /\ Set(t, [Done(t, w) EXCEPT !.observed = canonical'])
  <2> DEFINE m == [Done(t, w) EXCEPT !.observed = canonical']
  <2>1. Done(t, w) \in Memory BY EndTyped
  <2>2. /\ m.open = Done(t, w).open /\ m.job = Done(t, w).job /\ m.state = Done(t, w).state
        /\ m.queue = Done(t, w).queue /\ m.retry = Done(t, w).retry
    BY <2>1 DEF Memory
  <2> HIDE DEF m
  <2>3. /\ m.open /\ m.job = Idle /\ m.state = tab[t].state /\ m.queue = tab[t].queue
        /\ m.retry = IF w.hard THEN None ELSE tab[t].retry
    BY <2>2, DoneIs
  <2>4. Set(t, m) BY <1>6 DEF m
  <2>5. canonical' \in Row /\ canonical'.snap = w.snap /\ canonical'.rev = w.rev
    BY <1>2, <1>3, <1>6 DEF Row
  <2>6. Selected' = w.snap BY <1>2, <1>3, <1>4, <2>5, RowShows
  <2> QED BY <1>1, <1>4, <2>3, <2>4, <2>6, SavedAfter
<1> QED BY <1>1, <1>2, <1>5, <1>6 DEF Refresh

LEMMA SavedStep ==
  ASSUME TypeOK, NEW t \in Tab, Alone(t), KeepsSaved(t), Does(t)
  PROVE  KeepsSaved(t)'
<1>1. CASE ~tab[t].open BY <1>1, ClosedOpens, SavedHydrate DEF KeepsSaved
<1>2. CASE tab[t].open
  <2>1. ~Recovery(t)
    BY DEF Recovery, Commit, CopyToMirror, Finalize, ClearPause, At, Alone, Undisturbed
  <2>2. ~CloseInConflict(t) BY DEF CloseInConflict, At, SameRow, Alone, Undisturbed
  <2>3. ~(\E copy \in Copies(t) : Choose(t, copy)) BY AloneUnpaused DEF Choose
  <2>4. ~(\E a \in archive : Reopen(t, a)) BY DEF Alone
  <2>5. ~Open(t) BY <1>2 DEF Open
  <2>6. CASE Write(t)
    BY <1>2, <2>6, SavedPrepare, SavedCompare, SavedFallback, SavedMirror, SavedRefresh DEF Write
  <2> QED BY <1>2, <2>1, <2>2, <2>3, <2>4, <2>5, <2>6, SavedUser DEF Does
<1> QED BY <1>1, <1>2

LEMMA SavedInit == Init => SavedInv
BY DEF Init, SavedInv, KeepsSaved, Closed

LEMMA SavedNext == TypeOK /\ OneInv /\ SavedInv /\ [Next]_vars => SavedInv'
<1> SUFFICES ASSUME TypeOK, OneInv, SavedInv, [Next]_vars PROVE SavedInv' OBVIOUS
<1>1. CASE UNCHANGED vars \/ ClockMoves
  <2>1. UNCHANGED <<canonical, mirror, tab, opened, saved>>
    BY <1>1 DEF vars, ClockMoves, stored, history
  <2>2. Selected' = Selected BY <2>1 DEF Selected, SnapOf, RevOf
  <2> QED BY <2>1, <2>2 DEF SavedInv, KeepsSaved
<1>2. ASSUME NEW t \in Tab, Does(t), NEW u \in Tab, opened' \subseteq {u} PROVE KeepsSaved(u)'
  <2>1. opened' \in {opened, opened \cup {t}} BY <1>2, OwnOpening
  <2>2. t \in opened'
    <3>1. CASE t \in opened BY <2>1, <3>1
    <3>2. CASE t \notin opened BY <1>2, <3>2, OwnOpening, ClosedOpens DEF OneInv
    <3> QED BY <3>1, <3>2
  <2>3. u = t /\ opened \subseteq {t} BY <1>2, <2>1, <2>2
  <2>4. Alone(t) /\ KeepsSaved(t) BY <2>3 DEF OneInv, SavedInv
  <2> QED BY <1>2, <2>3, <2>4, SavedStep
<1> QED BY <1>1, <1>2 DEF Next, Does, SavedInv

(* In a browser in which only one tab was ever opened a reader selects     *)
(* every edit that was reported as saved, whichever writes failed, and     *)
(* whenever the tab was closed and opened again.                           *)
THEOREM OneTabKeepsSaved ==
  Spec => [](Cardinality(opened) = 1 => saved \subseteq Selected /\ AcknowledgedKept)
<1>1. OneInv /\ SavedInv
        => (Cardinality(opened) = 1 => saved \subseteq Selected /\ AcknowledgedKept)
  <2> SUFFICES ASSUME OneInv, SavedInv, Cardinality(opened) = 1
               PROVE  saved \subseteq Selected /\ AcknowledgedKept
    OBVIOUS
  <2>1. PICK t : opened = {t} BY FS_Singleton DEF OneInv
  <2>2. KeepsSaved(t) BY <2>1 DEF OneInv, SavedInv
  <2> QED BY <2>2 DEF KeepsSaved, AcknowledgedKept
<1> QED BY <1>1, OneInit, OneNext, SavedInit, SavedNext, TypeCorrect, PTL DEF Spec

-----------------------------------------------------------------------------
(* What a recovery ends with, when two tabs are open.                      *)

(* With a third tab, two could hold the same snapshot under one revision,  *)
(* and the attempt of one would pass for that of the other.                *)
TwoTabs == \E a, b : Tab \subseteq {a, b}

Writing(t) == tab[t].job.pc \in {"compare", "fallback", "mirror", "refresh"}
Holding(t) == tab[t].job.pc \in {"commit", "copy", "finalize", "clear"}

(* The row as a recovery leaves it.                                        *)
Final(w) == [Chosen(w) EXCEPT !.obsolete = FALSE]

(* A row that says its mirror is fresh, and the rows that a tab knows.     *)
Fresh(r) == r # None /\ ~r.obsolete

KnownRows(t) ==
  ({tab[t].observed} \ {Unset})
    \cup (IF Writing(t) THEN {tab[t].job.read, tab[t].job.expects} ELSE {})

(* A recovery holds the lock, and its backup pauses the pantry until the   *)
(* recovery has resolved it.                                               *)
Held == \A t \in Tab : Holding(t) => lock = t /\ (At(t, "clear") \/ Unresolved)

(* A write is numbered above what it read and what it expects.             *)
ObservedLow(t, rev) == tab[t].observed # Unset =>
  RevOf(tab[t].observed) <= tab[t].latest \/ RevOf(tab[t].observed) <= rev

NumbersAbove(t) ==
  /\ Writing(t) => RevOf(tab[t].job.read) < tab[t].job.rev /\ tab[t].job.rev <= tab[t].latest
  /\ At(t, "compare") => RevOf(tab[t].job.expects) < tab[t].job.rev

Numbers == \A t \in Tab : NumbersAbove(t) /\ ObservedLow(t, RevOf(canonical))

(* No tab knows a fresh row newer than the one that is stored.             *)
KnownBelow(t, rev) == \A r \in KnownRows(t) : Fresh(r) => r.rev <= rev
Behind == \A t \in Tab : KnownBelow(t, RevOf(canonical))

(* The row a recovery is about to put is newer than all that a tab knows   *)
(* or is about to know, although other tabs still land their attempts.     *)
BelowChoice(u, rev) ==
  /\ \A r \in KnownRows(u) : Fresh(r) => r.rev < rev
  /\ At(u, "refresh") /\ canonical = Attempt(tab[u].job) => tab[u].job.rev < rev
  /\ tab[u].observed # Unset =>
       RevOf(tab[u].observed) <= tab[u].latest \/ RevOf(tab[u].observed) < rev

Choosing == \A t \in Tab : At(t, "commit") => \A u \in Tab : BelowChoice(u, tab[t].job.rev)

(* So no write expects that row: once the backup is resolved, one that had *)
(* read an older row still meets the row as the recovery made it.          *)
SettledFor(t) ==
  /\ tab[t].job.pc \in {"copy", "finalize"}
       => \A u \in Tab : At(u, "compare") => tab[u].job.expects # Final(tab[t].job)
  /\ At(t, "finalize") => mirror = InMirror(Chosen(tab[t].job))
  /\ At(t, "clear") =>
       /\ tab[t].job.rev <= RevOf(canonical)
       /\ \A u \in Tab : At(u, "compare") /\ RevOf(tab[u].job.read) < tab[t].job.rev
            => canonical = Final(tab[t].job) /\ tab[u].job.expects # canonical

Settled == \A t \in Tab : SettledFor(t)

ChoiceInv == Held /\ Numbers /\ Behind /\ Choosing /\ Settled

-----------------------------------------------------------------------------
(* What a step of a tab does to the row, the mirror and the lock, and to   *)
(* what the tab knows.                                                     *)
Knows(t)  == <<tab[t].observed, tab[t].latest>>
StaysOpen == Unresolved => Unresolved'

Rests(t) ==
  /\ UNCHANGED <<canonical, mirror>> /\ StaysOpen
  /\ tab'[t].job \in {tab[t].job, Idle}
  /\ lock' = lock \/ (lock = t /\ tab'[t].job = Idle)
  /\ Knows(t)' = Knows(t) \/ (tab'[t].observed = Unset /\ tab'[t].job = Idle)

Rereads(t) ==
  /\ ~Unresolved /\ UNCHANGED <<canonical, mirror, lock>>
  /\ tab'[t].job = tab[t].job /\ tab'[t].observed \in {tab[t].observed, canonical}
  /\ tab'[t].latest >= tab[t].latest

Readies(t) ==
  /\ ~Unresolved /\ UNCHANGED <<canonical, mirror, lock>>
  /\ tab'[t].observed = tab[t].observed /\ tab'[t].latest = tab'[t].job.rev
  /\ tab'[t].job.pc = "compare" /\ tab'[t].job.read = canonical
  /\ tab'[t].job.expects \in {canonical} \cup ({tab[t].observed} \ {Unset})
  /\ tab'[t].job.rev > RevOf(canonical) /\ tab'[t].job.rev > tab[t].latest

Lands(t) ==
  /\ At(t, "compare") /\ canonical = tab[t].job.expects /\ canonical' = Attempt(tab[t].job)
  /\ tab'[t].observed = canonical' /\ tab'[t].latest = tab[t].latest
  /\ tab'[t].job = [tab[t].job EXCEPT !.pc = "mirror"]
  /\ UNCHANGED <<mirror, lock>> /\ StaysOpen

FallsBack(t) ==
  /\ At(t, "compare") /\ Knows(t)' = Knows(t)
  /\ tab'[t].job = [tab[t].job EXCEPT !.pc = "fallback"]
  /\ UNCHANGED <<canonical, mirror, lock>> /\ StaysOpen

Mirrors(t) ==
  /\ lock = None /\ Writing(t) /\ UNCHANGED <<canonical, lock>>
  /\ tab'[t].latest = tab[t].latest
  /\ \/ tab'[t].job = Idle /\ tab'[t].observed \in {tab[t].observed, tab[t].job.read}
     \/ /\ tab'[t].job = [tab[t].job EXCEPT !.pc = "refresh"]
        /\ tab'[t].observed = tab[t].observed

Refreshes(t) ==
  /\ At(t, "refresh") /\ canonical = Attempt(tab[t].job)
  /\ canonical' = [canonical EXCEPT !.obsolete = FALSE]
  /\ tab'[t].job = Idle /\ tab'[t].observed = canonical' /\ tab'[t].latest = tab[t].latest
  /\ UNCHANGED <<mirror, lock>> /\ StaysOpen

Picks(t) ==
  /\ lock = None /\ UNCHANGED <<canonical, mirror>>
  /\ Unresolved' /\ lock' = t /\ Knows(t)' = Knows(t)
  /\ tab'[t].job.pc = "commit" /\ tab'[t].job.rev > RevOf(canonical)
  /\ tab'[t].job.rev \in Nat

PutsChosen(t) ==
  /\ At(t, "commit") /\ canonical' = Chosen(tab[t].job)
  /\ tab'[t].observed = canonical' /\ tab'[t].latest = tab[t].job.rev
  /\ tab'[t].job = [tab[t].job EXCEPT !.pc = "copy"]
  /\ UNCHANGED <<mirror, lock>> /\ StaysOpen

CopiesChosen(t) ==
  /\ At(t, "copy") /\ mirror' = InMirror(Chosen(tab[t].job)) /\ Knows(t)' = Knows(t)
  /\ tab'[t].job = [tab[t].job EXCEPT !.pc = "finalize"]
  /\ UNCHANGED <<canonical, lock>> /\ StaysOpen

Settles(t) ==
  /\ At(t, "finalize") /\ canonical = Chosen(tab[t].job) /\ canonical' = Final(tab[t].job)
  /\ tab'[t].observed = canonical' /\ tab'[t].latest = tab[t].latest
  /\ tab'[t].job = [tab[t].job EXCEPT !.pc = "clear"]
  /\ UNCHANGED <<mirror, lock>>

Clears(t) ==
  /\ At(t, "clear") /\ tab'[t].job = Idle /\ Knows(t)' = Knows(t)
  /\ UNCHANGED <<canonical, mirror>>

Kind(t) ==
  \/ Rests(t) \/ Rereads(t) \/ Readies(t) \/ Lands(t) \/ FallsBack(t) \/ Mirrors(t)
  \/ Refreshes(t) \/ Picks(t) \/ PutsChosen(t) \/ CopiesChosen(t) \/ Settles(t) \/ Clears(t)

LEMMA SetIs ==
  ASSUME TypeOK, NEW t \in Tab, NEW m, Set(t, m)
  PROVE  tab'[t] = m
BY DEF Set, TypeOK

(* A step that only writes in the memory of its tab.                       *)
LEMMA RestsWhen ==
  ASSUME TypeOK, NEW t \in Tab, NEW m, Set(t, m), UNCHANGED <<canonical, mirror, lock, backup>>,
         m.job \in {tab[t].job, Idle},
         m.observed = tab[t].observed, m.latest = tab[t].latest
  PROVE  Rests(t)
<1>1. tab'[t] = m BY SetIs
<1> QED BY <1>1 DEF Rests, Knows, StaysOpen, Unresolved

(* A conflict that a tab announces leaves the row, the mirror and the lock *)
(* to its caller.                                                          *)
LEMMA ConflictIs ==
  ASSUME TypeOK, NEW t \in Tab, NEW first, NEW others, NEW m \in Memory,
         Conflict(t, first, others, m)
  PROVE  /\ Unresolved' /\ tab'[t].job = m.job
         /\ tab'[t].observed = m.observed /\ tab'[t].latest = m.latest
<1>1. PICK c : Set(t, [m EXCEPT !.active = c]) BY DEF Conflict
<1>2. tab'[t] = [m EXCEPT !.active = c] BY <1>1, SetIs
<1>3. Unresolved'
  <2>1. Preserve(Joined(first, others)) BY ConflictPreserves
  <2> QED BY <2>1 DEF Preserve, Preserved, Unresolved, TypeOK, Backup
<1> QED BY <1>2, <1>3 DEF Memory

LEMMA HydrateKind ==
  ASSUME TypeOK, NEW t \in Tab, Hydrate(t)
  PROVE  Rests(t) \/ Rereads(t)
<1> DEFINE keeps == [tab[t] EXCEPT !.open = TRUE, !.retry = Rehydrate,
                                   !.blind = ~tab[t].open \/ @,
                                   !.queue = Append(@, Soft(tab[t].state))]
           latest == Larger(tab[t].latest, RevOf(canonical))
           reads2 == [tab[t] EXCEPT !.open = TRUE, !.state = Shown(t), !.observed = canonical,
                                    !.latest = latest, !.active = None, !.retry = None,
                                    !.blind = FALSE, !.queue = Append(@, Soft(Shown(t)))]
<1>1. UNCHANGED <<canonical, mirror, lock>> BY DEF Hydrate
<1>2. /\ keeps.job = tab[t].job /\ keeps.observed = tab[t].observed
      /\ keeps.latest = tab[t].latest
  BY MemoryFields DEF Memory
<1>3. keeps \in Memory
  <2>1. Soft(tab[t].state) \in Entered BY MemoryFields, EnteredTyped
  <2>2. \A q \in Seq(Entered), e \in Entered : Append(q, e) \in Seq(Entered) OBVIOUS
  <2>3. Append(tab[t].queue, Soft(tab[t].state)) \in Seq(Entered) BY <2>1, <2>2, MemoryFields
  <2> QED BY <2>3, MemoryFields DEF Memory
<1>4. latest \in Nat /\ latest >= tab[t].latest
  <2>1. RevOf(canonical) \in Nat BY SnapTyped DEF TypeOK
  <2> QED BY <2>1, MemoryFields, LargerTyped
<1>5. reads2.job = tab[t].job /\ reads2.observed = canonical /\ reads2.latest = latest
  BY MemoryFields DEF Memory
<1>6. CASE Paused
  <2>1. Set(t, [keeps EXCEPT !.active = Copies(t)]) /\ UNCHANGED backup BY <1>6 DEF Hydrate
  <2> HIDE DEF keeps
  <2> DEFINE m == [keeps EXCEPT !.active = Copies(t)]
  <2>2. m.job = keeps.job /\ m.observed = keeps.observed /\ m.latest = keeps.latest
    BY <1>3 DEF Memory
  <2>3. Set(t, m) BY <2>1
  <2> HIDE DEF m
  <2>4. m.job \in {tab[t].job, Idle} BY <1>2, <2>2
  <2> QED BY <1>1, <1>2, <2>1, <2>2, <2>3, <2>4, RestsWhen
<1>7. CASE ~Paused /\ Ambiguous
  <2> HIDE DEF latest
  <2>1. Conflict(t, {CopyOf(canonical)}, {CopyOf(mirror)},
                 [keeps EXCEPT !.observed = canonical, !.latest = latest])
    BY <1>7 DEF Hydrate, latest
  <2> HIDE DEF keeps
  <2> DEFINE m == [keeps EXCEPT !.observed = canonical, !.latest = latest]
  <2>2. m \in Memory BY <1>3, <1>4 DEF Memory, TypeOK
  <2>3. m.job = keeps.job /\ m.observed = canonical /\ m.latest = latest BY <1>3 DEF Memory
  <2>4. Conflict(t, {CopyOf(canonical)}, {CopyOf(mirror)}, m) BY <2>1
  <2> HIDE DEF m
  <2>5. tab'[t].job = m.job /\ tab'[t].observed = m.observed /\ tab'[t].latest = m.latest
    BY <2>2, <2>4, ConflictIs
  <2>6. ~Unresolved BY <1>7 DEF Paused
  <2> QED BY <1>1, <1>2, <1>4, <2>3, <2>5, <2>6 DEF Rereads
<1>8. CASE ~Paused /\ ~Ambiguous
  <2>1. Set(t, reads2) BY <1>8 DEF Hydrate
  <2> HIDE DEF reads2, latest
  <2>2. tab'[t] = reads2 BY <2>1, SetIs
  <2>3. ~Unresolved BY <1>8 DEF Paused
  <2> QED BY <1>1, <1>4, <1>5, <2>2, <2>3 DEF Rereads
<1> QED BY <1>6, <1>7, <1>8

LEMMA UserKind ==
  ASSUME TypeOK, NEW t \in Tab,
         Close(t) \/ CloseInConflict(t) \/ Edit(t) \/ Retry(t) \/ AskPause(t)
  PROVE  Kind(t)
<1>1. CASE Close(t) \/ CloseInConflict(t)
  <2>1. tab'[t] = Closed BY <1>1 DEF Close, CloseInConflict, TypeOK
  <2>2. Closed.observed = Unset /\ Closed.job = Idle BY DEF Closed
  <2>3. UNCHANGED <<canonical, mirror, backup>>
    BY <1>1 DEF Close, CloseInConflict, stored
  <2>4. lock' = lock \/ lock = t BY <1>1 DEF Close, CloseInConflict
  <2> QED BY <2>1, <2>2, <2>3, <2>4 DEF Rests, Kind, StaysOpen, Unresolved
<1>2. CASE Edit(t)
  <2> DEFINE snap == tab[t].state \cup {edits'}
             m == [tab[t] EXCEPT !.state = snap, !.retry = None,
                                 !.queue = @ \o <<Soft(snap), Hard(snap)>>]
  <2>1. Set(t, m) /\ UNCHANGED <<canonical, mirror, lock, backup>> BY <1>2 DEF Edit, stored
  <2>2. m.job \in {tab[t].job, Idle} /\ m.observed = tab[t].observed /\ m.latest = tab[t].latest
    BY MemoryFields DEF Memory
  <2>3. PICK k : k = m OBVIOUS
  <2>4. Set(t, k) BY <2>1, <2>3 DEF Set
  <2> HIDE DEF m
  <2> QED BY <2>1, <2>2, <2>3, <2>4, RestsWhen DEF Kind
<1>3. CASE Retry(t)
  <2>1. CASE Hydrate(t) BY <2>1, HydrateKind DEF Kind
  <2>2. CASE ~Hydrate(t)
    <3> DEFINE m == [tab[t] EXCEPT !.retry = None, !.queue = <<Hard(tab[t].retry.snap)>>]
    <3>1. Set(t, m) /\ UNCHANGED <<canonical, mirror, lock, backup>>
      BY <1>3, <2>2 DEF Retry, stored
    <3>2. m.job \in {tab[t].job, Idle} /\ m.observed = tab[t].observed
          /\ m.latest = tab[t].latest
      BY MemoryFields DEF Memory
    <3> HIDE DEF m
    <3> QED BY <3>1, <3>2, RestsWhen DEF Kind
  <2> QED BY <2>1, <2>2
<1>4. CASE AskPause(t)
  <2> DEFINE m == [tab[t] EXCEPT !.active = GateActive(t)]
  <2>1. Set(t, m) /\ UNCHANGED <<canonical, mirror, lock, backup>> BY <1>4 DEF AskPause
  <2>2. m.job \in {tab[t].job, Idle} /\ m.observed = tab[t].observed /\ m.latest = tab[t].latest
    BY MemoryFields DEF Memory
  <2> HIDE DEF m
  <2> QED BY <2>1, <2>2, RestsWhen DEF Kind
<1> QED BY <1>1, <1>2, <1>3, <1>4

LEMMA PrepareKind ==
  ASSUME TypeOK, NEW t \in Tab, Prepare(t)
  PROVE  Rests(t) \/ Rereads(t) \/ Readies(t)
<1> DEFINE w     == Head(tab[t].queue)
           fails == [tab[t] EXCEPT !.queue = Tail(@), !.retry = RetryOf(w)]
           job   == [pc |-> "compare", read |-> canonical, expects |-> Expected(t),
                     expectsMirror |-> mirror, rev |-> NextRevision(t),
                     snap |-> w.snap, hard |-> w.hard]
           goes  == [tab[t] EXCEPT !.active = None, !.queue = Tail(@), !.job = job,
                                   !.latest = NextRevision(t)]
<1>1. UNCHANGED <<canonical, mirror, lock>> BY DEF Prepare
<1>2. fails \in Memory
  <2>1. tab[t].queue \in Seq(Entered) /\ tab[t].queue # <<>> BY MemoryFields DEF Prepare
  <2>2. \A q \in Seq(Entered) : q # <<>> => Head(q) \in Entered /\ Tail(q) \in Seq(Entered)
    OBVIOUS
  <2>3. w \in Entered /\ Tail(tab[t].queue) \in Seq(Entered) BY <2>1, <2>2
  <2> HIDE DEF w
  <2>4. RetryOf(w) \in {Rehydrate} \cup [kind : {"write"}, snap : Snapshot]
    BY <2>3, RetryTyped
  <2> QED BY <2>3, <2>4, MemoryFields DEF Memory
<1>3. /\ fails.job = tab[t].job /\ fails.observed = tab[t].observed
      /\ fails.latest = tab[t].latest
  BY MemoryFields DEF Memory
<1>4. CASE Paused
  <2>1. Set(t, [fails EXCEPT !.active = Copies(t)]) /\ UNCHANGED backup BY <1>4 DEF Prepare
  <2> HIDE DEF fails
  <2> DEFINE m == [fails EXCEPT !.active = Copies(t)]
  <2>2. m.job = fails.job /\ m.observed = fails.observed /\ m.latest = fails.latest
    BY <1>2 DEF Memory
  <2>3. Set(t, m) BY <2>1
  <2> HIDE DEF m
  <2>4. m.job \in {tab[t].job, Idle} BY <1>3, <2>2
  <2> QED BY <1>1, <1>3, <2>1, <2>2, <2>3, <2>4, RestsWhen
<1>5. CASE ~Paused /\ Ambiguous
  <2> DEFINE n == NextRevision(t)
             m == [fails EXCEPT !.latest = n]
  <2>1. Conflict(t, {CopyOf(canonical)}, {CopyOf(mirror)}, m) BY <1>5 DEF Prepare
  <2>2. n \in Nat /\ n >= tab[t].latest BY NextTyped, MemoryFields
  <2> HIDE DEF fails, n
  <2>3. m \in Memory /\ m.job = fails.job /\ m.observed = fails.observed /\ m.latest = n
    BY <1>2, <2>2 DEF Memory
  <2> HIDE DEF m
  <2>4. tab'[t].job = m.job /\ tab'[t].observed = m.observed /\ tab'[t].latest = m.latest
    BY <2>1, <2>3, ConflictIs
  <2>5. ~Unresolved BY <1>5 DEF Paused
  <2> QED BY <1>1, <1>3, <2>2, <2>3, <2>4, <2>5 DEF Rereads
<1>6. CASE ~Paused /\ ~Ambiguous
  <2>1. Set(t, goes) BY <1>6 DEF Prepare
  <2>2. /\ job.pc = "compare" /\ job.read = canonical /\ job.expects = Expected(t)
        /\ job.rev = NextRevision(t)
    OBVIOUS
  <2> HIDE DEF job
  <2>3. goes.job = job /\ goes.observed = tab[t].observed /\ goes.latest = NextRevision(t)
    BY MemoryFields DEF Memory
  <2> HIDE DEF goes
  <2>4. tab'[t] = goes BY <2>1, SetIs
  <2>5. Expected(t) \in {canonical} \cup ({tab[t].observed} \ {Unset}) BY DEF Expected
  <2>6. NextRevision(t) > RevOf(canonical) /\ NextRevision(t) > tab[t].latest BY NextTyped
  <2>7. ~Unresolved BY <1>6 DEF Paused
  <2> QED BY <1>1, <2>2, <2>3, <2>4, <2>5, <2>6, <2>7 DEF Readies
<1> QED BY <1>4, <1>5, <1>6

LEMMA EndIs ==
  ASSUME TypeOK, NEW t \in Tab
  PROVE  /\ Ended(t).job = Idle /\ Ended(t).observed = tab[t].observed
         /\ Ended(t).latest = tab[t].latest
         /\ \A w : /\ Throws(t, w).job = Idle /\ Throws(t, w).observed = tab[t].observed
                   /\ Throws(t, w).latest = tab[t].latest
                   /\ Done(t, w).job = Idle /\ Done(t, w).observed = tab[t].observed
                   /\ Done(t, w).latest = tab[t].latest
BY MemoryFields DEF Memory, Ended, Throws, Done

LEMMA CompareKind ==
  ASSUME TypeOK, NEW t \in Tab, Compare(t) \/ CompareFails(t)
  PROVE  Rests(t) \/ Lands(t) \/ FallsBack(t)
<1>1. PICK w \in WriteJob : w = tab[t].job /\ w.pc = "compare"
  BY JobTyped DEF Compare, CompareFails, At
<1>2. At(t, "compare") BY <1>1 DEF At
<1>3. CASE Compare(t) /\ SameRow(w)
  <2> DEFINE m == [tab[t] EXCEPT !.observed = Attempt(w), !.job.pc = "mirror"]
  <2>1. Set(t, m) /\ canonical' = Attempt(w) /\ UNCHANGED <<mirror, backup, lock>>
    BY <1>1, <1>3 DEF Compare
  <2>2. m.observed = Attempt(w) /\ m.latest = tab[t].latest /\ m.job = [w EXCEPT !.pc = "mirror"]
    BY <1>1, MemoryFields DEF Memory
  <2> HIDE DEF m
  <2>3. tab'[t] = m BY <2>1, SetIs
  <2> QED BY <1>1, <1>2, <1>3, <2>1, <2>2, <2>3 DEF Lands, SameRow, StaysOpen, Unresolved
<1>4. CASE Compare(t) /\ ~SameRow(w)
  <2>1. Conflict(t, {CopyOf(canonical)}, {CopyOf(w)}, Throws(t, w))
        /\ UNCHANGED <<canonical, mirror, lock>>
    BY <1>1, <1>4 DEF Compare
  <2>2. Throws(t, w) \in Memory BY EndTyped
  <2>3. /\ Unresolved' /\ tab'[t].job = Throws(t, w).job
        /\ tab'[t].observed = Throws(t, w).observed /\ tab'[t].latest = Throws(t, w).latest
    BY <2>1, <2>2, ConflictIs
  <2> QED BY <2>1, <2>3, EndIs DEF Rests, Knows, StaysOpen
<1>5. CASE CompareFails(t)
  <2> DEFINE m == [tab[t] EXCEPT !.job.pc = "fallback"]
  <2>1. Set(t, m) /\ UNCHANGED <<canonical, mirror, backup, lock>>
    BY <1>5 DEF CompareFails, stored
  <2>2. m.observed = tab[t].observed /\ m.latest = tab[t].latest
        /\ m.job = [w EXCEPT !.pc = "fallback"]
    BY <1>1, MemoryFields DEF Memory
  <2> HIDE DEF m
  <2>3. tab'[t] = m BY <2>1, SetIs
  <2> QED BY <1>1, <1>2, <2>1, <2>2, <2>3 DEF FallsBack, Knows, StaysOpen, Unresolved
<1> QED BY <1>3, <1>4, <1>5

LEMMA MirrorChangedIs ==
  ASSUME TypeOK, NEW t \in Tab, tab[t].job \in WriteJob, MirrorChanged(t)
  PROVE  /\ tab'[t].job = Idle /\ tab'[t].observed = tab[t].observed
         /\ tab'[t].latest = tab[t].latest
<1>1. PICK w \in WriteJob : w = tab[t].job OBVIOUS
<1>2. Throws(t, w) \in Memory BY EndTyped
<1>3. PICK m : /\ Set(t, m)
               /\ \/ m \in {Throws(t, w), Ended(t)}
                  \/ \E c : m = [Throws(t, w) EXCEPT !.active = c]
  BY <1>1 DEF MirrorChanged
<1>4. m.job = Idle /\ m.observed = tab[t].observed /\ m.latest = tab[t].latest
  <2>1. CASE m \in {Throws(t, w), Ended(t)} BY <2>1, EndIs
  <2>2. ASSUME NEW c, m = [Throws(t, w) EXCEPT !.active = c]
        PROVE  m.job = Idle /\ m.observed = tab[t].observed /\ m.latest = tab[t].latest
    <3>1. m.job = Throws(t, w).job /\ m.observed = Throws(t, w).observed
          /\ m.latest = Throws(t, w).latest
      BY <1>2, <2>2 DEF Memory
    <3> QED BY <3>1, EndIs
  <2> QED BY <1>3, <2>1, <2>2
<1>5. tab'[t] = m BY <1>3, SetIs
<1> QED BY <1>4, <1>5

LEMMA MirrorKind ==
  ASSUME TypeOK, NEW t \in Tab, Fallback(t) \/ Mirror(t) \/ MirrorDenied(t)
  PROVE  Mirrors(t)
<1>1. PICK w \in WriteJob : w = tab[t].job /\ w.pc \in {"fallback", "mirror"}
  BY JobTyped DEF Fallback, Mirror, MirrorDenied, At
<1>2. lock = None /\ UNCHANGED <<canonical, lock>> BY DEF Fallback, Mirror, MirrorDenied
<1>3. Writing(t) BY <1>1 DEF Writing
<1>4. CASE MirrorChanged(t) BY <1>1, <1>2, <1>3, <1>4, MirrorChangedIs DEF Mirrors
<1>5. CASE Fallback(t) /\ ~MirrorChanged(t)
  <2> DEFINE m == [tab[t] EXCEPT !.observed = w.read, !.blind = tab[t].blind \/ w.read # w.expects,
                                 !.job = Idle,
                                 !.retry = IF w.hard THEN WriteAgain(w.snap) ELSE @]
  <2>1. Set(t, m) BY <1>1, <1>5 DEF Fallback
  <2>2. m.job = Idle /\ m.observed = w.read /\ m.latest = tab[t].latest
    BY MemoryFields DEF Memory
  <2> HIDE DEF m
  <2>3. tab'[t] = m BY <2>1, SetIs
  <2> QED BY <1>1, <1>2, <1>3, <2>2, <2>3 DEF Mirrors
<1>6. CASE Mirror(t) /\ ~MirrorChanged(t)
  <2> DEFINE m == [tab[t] EXCEPT !.job.pc = "refresh"]
  <2>1. Set(t, m) BY <1>1, <1>6 DEF Mirror
  <2>2. m.job = [w EXCEPT !.pc = "refresh"] /\ m.observed = tab[t].observed
        /\ m.latest = tab[t].latest
    BY <1>1, MemoryFields DEF Memory
  <2> HIDE DEF m
  <2>3. tab'[t] = m BY <2>1, SetIs
  <2> QED BY <1>1, <1>2, <1>3, <2>2, <2>3 DEF Mirrors
<1>7. CASE MirrorDenied(t)
  <2>1. Set(t, Done(t, w)) BY <1>1, <1>7 DEF MirrorDenied
  <2>2. tab'[t] = Done(t, w) BY <2>1, SetIs
  <2> QED BY <1>2, <1>3, <2>2, EndIs DEF Mirrors
<1> QED BY <1>4, <1>5, <1>6, <1>7

LEMMA RefreshKind ==
  ASSUME TypeOK, NEW t \in Tab, Refresh(t)
  PROVE  Rests(t) \/ Refreshes(t)
<1>1. PICK w \in WriteJob : w = tab[t].job /\ w.pc = "refresh"
  BY JobTyped DEF Refresh, At
<1>2. UNCHANGED <<mirror, lock>> /\ At(t, "refresh") BY DEF Refresh
<1>3. Done(t, w) \in Memory /\ Throws(t, w) \in Memory BY EndTyped
<1>4. CASE /\ canonical = Attempt(w) /\ canonical' = [canonical EXCEPT !.obsolete = FALSE]
           /\ Set(t, [Done(t, w) EXCEPT !.observed = canonical']) /\ UNCHANGED backup
  <2>1. PICK r : r = canonical' OBVIOUS
  <2> DEFINE m == [Done(t, w) EXCEPT !.observed = r]
  <2>2. m.observed = r /\ m.job = Done(t, w).job /\ m.latest = Done(t, w).latest
    BY <1>3 DEF Memory
  <2>3. Set(t, m) BY <1>4, <2>1 DEF Set
  <2> HIDE DEF m
  <2>4. tab'[t] = m BY <2>3, SetIs
  <2> QED BY <1>1, <1>2, <1>4, <2>1, <2>2, <2>4, EndIs DEF Refreshes, StaysOpen, Unresolved
<1>5. CASE UNCHANGED canonical /\ Conflict(t, {CopyOf(canonical)}, {CopyOf(w)}, Throws(t, w))
  <2>1. /\ Unresolved' /\ tab'[t].job = Throws(t, w).job
        /\ tab'[t].observed = Throws(t, w).observed /\ tab'[t].latest = Throws(t, w).latest
    BY <1>3, <1>5, ConflictIs
  <2> QED BY <1>2, <1>5, <2>1, EndIs DEF Rests, Knows, StaysOpen
<1>6. CASE UNCHANGED <<canonical, backup>> /\ Set(t, Done(t, w))
  <2>1. tab'[t] = Done(t, w) BY <1>6, SetIs
  <2> QED BY <1>2, <1>6, <2>1, EndIs DEF Rests, Knows, StaysOpen, Unresolved
<1> QED BY <1>1, <1>4, <1>5, <1>6 DEF Refresh

LEMMA GivesUpKind ==
  ASSUME TypeOK, Held, NEW t \in Tab, Holding(t), GivesUp(t),
         UNCHANGED <<canonical, mirror, backup>>
  PROVE  Rests(t)
<1> DEFINE m == [Ended(t) EXCEPT !.active = Copies(t)]
<1>1. Ended(t) \in Memory BY EndTyped
<1>2. m.job = Ended(t).job /\ m.observed = Ended(t).observed /\ m.latest = Ended(t).latest
  BY <1>1 DEF Memory
<1>3. Set(t, m) BY DEF GivesUp
<1> HIDE DEF m
<1>4. tab'[t] = m BY <1>3, SetIs
<1>5. lock = t BY DEF Held
<1> QED BY <1>2, <1>4, <1>5, EndIs DEF Rests, Knows, StaysOpen, Unresolved

LEMMA ChoosePicks ==
  ASSUME TypeOK, NEW t \in Tab, NEW copy \in Copies(t), Copies(t) # None, Choose(t, copy)
  PROVE  Picks(t)
<1>1. copy \in Copy BY CopiesTyped
<1> DEFINE rev == RecoveryRevision(t, copy)
<1>3. rev \in Nat /\ rev > RevOf(canonical) BY <1>1, RecoveryNumber
<1> HIDE DEF rev
<1>4. /\ lock = None /\ UNCHANGED <<canonical, mirror>> /\ lock' = t
      /\ backup' = Recoverable(t)
  BY DEF Choose
<1>2. Unresolved' BY <1>4 DEF Recoverable, Unresolved, TypeOK, Backup
<1>5. PICK b : b = backup' OBVIOUS
<1> DEFINE job == [pc |-> "commit", id |-> b.id, copies |-> b.copies, copy |-> copy, rev |-> rev]
<1>6. Set(t, [tab[t] EXCEPT !.active = IF Unresolved THEN @ ELSE b.copies, !.job = job])
  BY <1>5 DEF Choose, rev, Set
<1>7. job.pc = "commit" /\ job.rev = rev OBVIOUS
<1> HIDE DEF job
<1> DEFINE m == [tab[t] EXCEPT !.active = IF Unresolved THEN @ ELSE b.copies, !.job = job]
<1>8. m.job = job /\ m.observed = tab[t].observed /\ m.latest = tab[t].latest
  BY MemoryFields DEF Memory
<1>9. Set(t, m) BY <1>6
<1> HIDE DEF m
<1>10. tab'[t] = m BY <1>9, SetIs
<1> QED BY <1>2, <1>3, <1>4, <1>7, <1>8, <1>10 DEF Picks, Knows

LEMMA RecoveryKind ==
  ASSUME TypeOK, Held, NEW t \in Tab, Recovery(t)
  PROVE  Kind(t)
<1>1. PICK w \in RecoveryJob : w = tab[t].job
  BY JobTyped DEF Recovery, Commit, CopyToMirror, Finalize, ClearPause, At
<1>2. Holding(t)
  BY DEF Recovery, Commit, CopyToMirror, Finalize, ClearPause, At, Holding
<1>3. ASSUME NEW pc \in {"copy", "finalize", "clear"}
      PROVE  [tab[t] EXCEPT !.job.pc = pc].job = [w EXCEPT !.pc = pc]
             /\ [tab[t] EXCEPT !.job.pc = pc].observed = tab[t].observed
             /\ [tab[t] EXCEPT !.job.pc = pc].latest = tab[t].latest
  BY <1>1, MemoryFields DEF Memory
<1>4. CASE Commit(t)
  <2>1. CASE GivesUp(t)
    <3>1. UNCHANGED mirror BY <1>4 DEF Commit
    <3>2. CASE UNCHANGED <<canonical, backup>>
      BY <1>2, <2>1, <3>1, <3>2, GivesUpKind DEF Kind
    <3>3. CASE ~UNCHANGED <<canonical, backup>>
      <4>1. lock' = lock BY <1>4, <3>3 DEF Commit
      <4>2. lock' = None /\ lock = t BY <1>2, <2>1 DEF GivesUp, Held
      <4> QED BY <4>1, <4>2, NamesDistinct
    <3> QED BY <3>2, <3>3
  <2>2. CASE ~GivesUp(t)
    <3> DEFINE m == [tab[t] EXCEPT !.observed = Chosen(w), !.latest = w.rev, !.job.pc = "copy"]
    <3>1. /\ Set(t, m) /\ canonical' = Chosen(w) /\ UNCHANGED <<mirror, lock>>
          /\ backup' = [backup EXCEPT !.chosen = w.copy]
      BY <1>1, <1>4, <2>2 DEF Commit
    <3>4. StaysOpen BY <3>1 DEF StaysOpen, Unresolved, TypeOK, Backup
    <3>2. m.observed = Chosen(w) /\ m.latest = w.rev /\ m.job = [w EXCEPT !.pc = "copy"]
      BY <1>1, MemoryFields DEF Memory
    <3> HIDE DEF m
    <3>3. tab'[t] = m BY <3>1, SetIs
    <3> QED BY <1>1, <1>4, <3>1, <3>2, <3>3, <3>4 DEF PutsChosen, Kind, Commit
  <2> QED BY <2>1, <2>2
<1>5. CASE CopyToMirror(t)
  <2>1. UNCHANGED <<canonical, backup>> /\ At(t, "copy") BY <1>5 DEF CopyToMirror
  <2>2. CASE GivesUp(t) /\ UNCHANGED mirror BY <1>2, <2>1, <2>2, GivesUpKind DEF Kind
  <2>3. CASE ~(GivesUp(t) /\ UNCHANGED mirror)
    <3>1. /\ Set(t, [tab[t] EXCEPT !.job.pc = "finalize"])
          /\ mirror' = InMirror(Chosen(w)) /\ UNCHANGED lock
      BY <1>1, <1>5, <2>3 DEF CopyToMirror
    <3>2. tab'[t] = [tab[t] EXCEPT !.job.pc = "finalize"] BY <3>1, SetIs
    <3> QED BY <1>1, <1>3, <2>1, <3>1, <3>2
        DEF CopiesChosen, Knows, Kind, StaysOpen, Unresolved
  <2> QED BY <2>2, <2>3
<1>6. CASE Finalize(t)
  <2>1. UNCHANGED mirror /\ At(t, "finalize") BY <1>6 DEF Finalize
  <2>2. CASE GivesUp(t) /\ UNCHANGED <<canonical, backup>>
    BY <1>2, <2>1, <2>2, GivesUpKind DEF Kind
  <2>3. CASE ~(GivesUp(t) /\ UNCHANGED <<canonical, backup>>)
    <3>1. PICK r : r = canonical' OBVIOUS
    <3> DEFINE m == [tab[t] EXCEPT !.observed = r, !.job.pc = "clear"]
    <3>2. /\ canonical = Chosen(w) /\ canonical' = [canonical EXCEPT !.obsolete = FALSE]
          /\ Set(t, m) /\ UNCHANGED lock
      BY <1>1, <1>6, <2>3, <3>1 DEF Finalize, Set
    <3>3. m.observed = r /\ m.latest = tab[t].latest /\ m.job = [w EXCEPT !.pc = "clear"]
      BY <1>1, MemoryFields DEF Memory
    <3> HIDE DEF m
    <3>4. tab'[t] = m BY <3>2, SetIs
    <3> QED BY <1>1, <2>1, <3>1, <3>2, <3>3, <3>4 DEF Settles, Final, Kind
  <2> QED BY <2>2, <2>3
<1>7. CASE ClearPause(t)
  <2> DEFINE m == [Ended(t) EXCEPT !.state = w.copy.snap, !.active = None, !.retry = None,
                                   !.blind = tab[t].queue # <<>>]
  <2>1. Ended(t) \in Memory BY EndTyped
  <2>2. m.job = Ended(t).job /\ m.observed = Ended(t).observed /\ m.latest = Ended(t).latest
    BY <2>1 DEF Memory
  <2>3. Set(t, m) /\ UNCHANGED <<canonical, mirror>> /\ At(t, "clear")
    BY <1>1, <1>7 DEF ClearPause
  <2> HIDE DEF m
  <2>4. tab'[t] = m BY <2>3, SetIs
  <2> QED BY <2>2, <2>3, <2>4, EndIs DEF Clears, Knows, Kind
<1> QED BY <1>4, <1>5, <1>6, <1>7 DEF Recovery

LEMMA StepKind ==
  ASSUME TypeOK, Held, NEW t \in Tab, Does(t)
  PROVE  Kind(t)
<1>1. CASE Open(t) BY <1>1, HydrateKind DEF Open, Kind
<1>2. CASE Close(t) \/ CloseInConflict(t) \/ Edit(t) \/ Retry(t) \/ AskPause(t)
  BY <1>2, UserKind
<1>3. CASE Write(t)
  BY <1>3, PrepareKind, CompareKind, MirrorKind, RefreshKind DEF Write, Kind
<1>4. CASE Recovery(t) BY <1>4, RecoveryKind
<1>5. CASE Copies(t) # None /\ \E copy \in Copies(t) : Choose(t, copy)
  BY <1>5, ChoosePicks DEF Kind
<1>6. ASSUME NEW a \in archive, Reopen(t, a) PROVE Kind(t)
  <2> DEFINE m == [tab[t] EXCEPT !.observed = canonical]
  <2>1. /\ ~Paused /\ UNCHANGED <<canonical, mirror, lock>>
        /\ Conflict(t, a.copies, {[snap |-> Selected, rev |-> 0]}, m)
    BY <1>6 DEF Reopen
  <2>2. m \in Memory /\ m.job = tab[t].job /\ m.observed = canonical /\ m.latest = tab[t].latest
    BY MemoryFields DEF Memory, TypeOK
  <2> HIDE DEF m
  <2>3. tab'[t].job = m.job /\ tab'[t].observed = m.observed /\ tab'[t].latest = m.latest
    BY <2>1, <2>2, ConflictIs
  <2>4. ~Unresolved /\ tab[t].latest \in Nat BY <2>1, MemoryFields DEF Paused
  <2> QED BY <2>1, <2>2, <2>3, <2>4 DEF Rereads, Kind
<1> QED BY <1>1, <1>2, <1>3, <1>4, <1>5, <1>6 DEF Does

-----------------------------------------------------------------------------
OthersKept(t) == \A u \in Tab : u # t => tab'[u] = tab[u]

LEMMA WriteNumbers ==
  ASSUME TypeOK, NEW t \in Tab, Writing(t)
  PROVE  /\ tab[t].job \in WriteJob /\ tab[t].job.rev \in Nat
         /\ RevOf(tab[t].job.read) \in Nat /\ RevOf(tab[t].job.expects) \in Nat
         /\ Attempt(tab[t].job).rev = tab[t].job.rev /\ RevOf(Attempt(tab[t].job)) = tab[t].job.rev
         /\ ~Fresh(Attempt(tab[t].job))
<1>1. PICK w \in WriteJob : w = tab[t].job BY JobTyped DEF Writing
<1>2. w.rev \in Nat /\ RevOf(w.read) \in Nat /\ RevOf(w.expects) \in Nat
  BY SnapTyped DEF WriteJob
<1>3. Attempt(w) \in Row /\ Attempt(w).rev = w.rev BY MadeTyped
<1>4. ~Fresh(Attempt(w)) BY DEF Fresh, Attempt
<1> QED BY <1>1, <1>2, <1>3, <1>4, NamesDistinct DEF RevOf

LEMMA RecoveryPlace ==
  ASSUME NEW w \in RecoveryJob
  PROVE  /\ w.rev \in Nat /\ Chosen(w) \in Row /\ Final(w) \in Row
         /\ Chosen(w).rev = w.rev /\ Final(w).rev = w.rev /\ RevOf(Chosen(w)) = w.rev
         /\ RevOf(Final(w)) = w.rev /\ ~Fresh(Chosen(w)) /\ Fresh(Final(w))
         /\ Final(w).snap = w.copy.snap /\ Chosen(w).snap = w.copy.snap
         /\ \A pc \in {"copy", "finalize", "clear"} :
              /\ [w EXCEPT !.pc = pc].pc = pc /\ [w EXCEPT !.pc = pc].rev = w.rev
              /\ Chosen([w EXCEPT !.pc = pc]) = Chosen(w)
              /\ Final([w EXCEPT !.pc = pc]) = Final(w)
<1>1. w.rev \in Nat /\ w.copy.snap \in Snapshot BY DEF RecoveryJob, Copy
<1>2. /\ Chosen(w) \in Row /\ Chosen(w).rev = w.rev /\ Chosen(w).snap = w.copy.snap
      /\ Chosen(w).obsolete = TRUE
  BY <1>1 DEF Chosen, Row
<1>3. /\ Final(w) \in Row /\ Final(w).rev = w.rev /\ Final(w).snap = w.copy.snap
      /\ Final(w).obsolete = FALSE
  BY <1>1 DEF Final, Chosen, Row
<1>4. ASSUME NEW pc \in {"copy", "finalize", "clear"}
      PROVE  /\ [w EXCEPT !.pc = pc].pc = pc /\ [w EXCEPT !.pc = pc].rev = w.rev
             /\ Chosen([w EXCEPT !.pc = pc]) = Chosen(w)
  BY DEF RecoveryJob, Chosen
<1>5. \A pc \in {"copy", "finalize", "clear"} : Final([w EXCEPT !.pc = pc]) = Final(w)
  BY <1>4 DEF Final
<1> QED BY <1>1, <1>2, <1>3, <1>4, <1>5, NamesDistinct DEF RevOf, Fresh

LEMMA HoldingJob ==
  ASSUME TypeOK, NEW t \in Tab, Holding(t)
  PROVE  tab[t].job \in RecoveryJob
BY JobTyped DEF Holding

(* Which steps leave a tab in its recovery.                                *)
LEMMA HoldsAfter ==
  ASSUME TypeOK, NEW t \in Tab, Kind(t), Holding(t)'
  PROVE  \/ Holding(t) /\ tab'[t].job = tab[t].job /\ (Rests(t) \/ Rereads(t))
         \/ Picks(t) \/ PutsChosen(t) \/ CopiesChosen(t) \/ Settles(t)
<1>1. tab'[t].job # Idle BY DEF Holding, Idle
<1>2. Holding(t) = (tab[t].job.pc \in {"commit", "copy", "finalize", "clear"}) BY DEF Holding
<1>3. tab'[t].job.pc \in {"commit", "copy", "finalize", "clear"} BY DEF Holding
<1>4. CASE Rests(t) BY <1>1, <1>2, <1>3, <1>4 DEF Rests
<1>5. CASE Rereads(t) BY <1>2, <1>3, <1>5 DEF Rereads
<1>6. CASE Readies(t) BY <1>3, <1>6 DEF Readies
<1>7. ASSUME Lands(t) \/ FallsBack(t) \/ Mirrors(t) PROVE FALSE
  <2>1. PICK w \in WriteJob : w = tab[t].job
    BY <1>7, WriteNumbers DEF Lands, FallsBack, Mirrors, At, Writing
  <2>2. PICK pc \in {"mirror", "fallback", "refresh"} : tab'[t].job = [w EXCEPT !.pc = pc]
    BY <1>1, <1>7, <2>1 DEF Lands, FallsBack, Mirrors
  <2> QED BY <1>3, <2>2, PlaceOnly
<1>8. CASE Refreshes(t) \/ Clears(t) BY <1>1, <1>8 DEF Refreshes, Clears
<1> QED BY <1>4, <1>5, <1>6, <1>7, <1>8 DEF Kind

(* While one tab recovers, another one can only end or fail, land the      *)
(* attempt it had prepared, or refresh the one it had landed; once the     *)
(* backup is resolved it may also read and prepare again.                  *)
LEMMA WhileHeld ==
  ASSUME TypeOK, Held, NEW t \in Tab, NEW v \in Tab, t # v, Holding(v), Kind(t)
  PROVE  \/ Rests(t) \/ Lands(t) \/ FallsBack(t) \/ Refreshes(t)
         \/ At(v, "clear") /\ (Rereads(t) \/ Readies(t))
<1>1. lock = v /\ lock # None /\ lock # t BY NamesDistinct DEF Held
<1>2. ~Holding(t) BY <1>1 DEF Held
<1>3. ~PutsChosen(t) /\ ~CopiesChosen(t) /\ ~Settles(t) /\ ~Clears(t)
  BY <1>2 DEF PutsChosen, CopiesChosen, Settles, Clears, At, Holding
<1>4. ~Mirrors(t) /\ ~Picks(t)
  BY <1>1 DEF Mirrors, Picks
<1>5. Rereads(t) \/ Readies(t) => At(v, "clear")
  BY DEF Rereads, Readies, Held
<1> QED BY <1>3, <1>4, <1>5 DEF Kind

LEMMA HeldStep ==
  ASSUME TypeOK, Held, NEW t \in Tab, Kind(t), OthersKept(t)
  PROVE  Held'
<1> SUFFICES ASSUME NEW v \in Tab, Holding(v)'
             PROVE  lock' = v /\ (At(v, "clear")' \/ Unresolved')
  BY DEF Held
<1>1. CASE v # t
  <2>1. Holding(v) /\ tab'[v] = tab[v] BY <1>1 DEF OthersKept, Holding
  <2>2. lock = v /\ (At(v, "clear") \/ Unresolved) BY <2>1 DEF Held
  <2>3. \/ Rests(t) \/ Lands(t) \/ FallsBack(t) \/ Refreshes(t)
        \/ At(v, "clear") /\ (Rereads(t) \/ Readies(t))
    BY <1>1, <2>1, WhileHeld
  <2>4. lock' = v
    BY <1>1, <2>2, <2>3 DEF Rests, Lands, FallsBack, Refreshes, Rereads, Readies
  <2>5. At(v, "clear") => At(v, "clear")' BY <2>1 DEF At
  <2>6. StaysOpen \/ At(v, "clear") BY <2>3 DEF Rests, Lands, FallsBack, Refreshes
  <2> QED BY <2>2, <2>4, <2>5, <2>6 DEF StaysOpen
<1>2. CASE v = t
  <2>1. \/ Holding(t) /\ tab'[t].job = tab[t].job /\ (Rests(t) \/ Rereads(t))
        \/ Picks(t) \/ PutsChosen(t) \/ CopiesChosen(t) \/ Settles(t)
    BY <1>2, HoldsAfter
  <2>2. CASE Holding(t) /\ tab'[t].job = tab[t].job /\ (Rests(t) \/ Rereads(t))
    <3>1. lock = t /\ (At(t, "clear") \/ Unresolved) /\ tab[t].job # Idle
      BY <2>2 DEF Held, Holding, Idle
    <3>2. lock' = t BY <2>2, <3>1 DEF Rests, Rereads
    <3>3. At(t, "clear") => At(t, "clear")' BY <2>2 DEF At
    <3> QED BY <1>2, <2>2, <3>1, <3>2, <3>3 DEF Rests, Rereads, StaysOpen
  <2>3. CASE Picks(t) BY <1>2, <2>3 DEF Picks
  <2>4. CASE PutsChosen(t) \/ CopiesChosen(t)
    <3>1. Holding(t) /\ ~At(t, "clear") /\ UNCHANGED lock /\ StaysOpen
      BY <2>4 DEF PutsChosen, CopiesChosen, At, Holding
    <3> QED BY <1>2, <3>1 DEF Held, StaysOpen
  <2>5. CASE Settles(t)
    <3>1. Holding(t) /\ UNCHANGED lock BY <2>5 DEF Settles, At, Holding
    <3>2. PICK w \in RecoveryJob : w = tab[t].job BY <3>1, HoldingJob
    <3>3. tab'[t].job = [w EXCEPT !.pc = "clear"] BY <2>5, <3>2 DEF Settles
    <3>4. At(t, "clear")' BY <3>3, RecoveryPlace DEF At
    <3> QED BY <1>2, <3>1, <3>4 DEF Held
  <2> QED BY <2>1, <2>2, <2>3, <2>4, <2>5
<1> QED BY <1>1, <1>2

LEMMA ObservedNumber ==
  ASSUME TypeOK, NEW t \in Tab
  PROVE  /\ tab[t].latest \in Nat /\ RevOf(canonical) \in Nat
         /\ tab[t].observed # Unset => RevOf(tab[t].observed) \in Nat
<1>1. tab[t].observed # Unset => tab[t].observed \in Row \cup {None} BY MemoryFields
<1> QED BY <1>1, MemoryFields, SnapTyped DEF TypeOK

(* Only a recovery may put a row under a lower revision.                   *)
LEMMA RowAfter ==
  ASSUME TypeOK, Numbers, NEW t \in Tab, Kind(t), ~PutsChosen(t)
  PROVE  RevOf(canonical)' \in Nat /\ RevOf(canonical)' >= RevOf(canonical)
<1>1. RevOf(canonical) \in Nat BY SnapTyped DEF TypeOK
<1>2. CASE UNCHANGED canonical BY <1>1, <1>2 DEF RevOf
<1>3. CASE Lands(t)
  <2>1. Writing(t) BY <1>3 DEF Lands, At, Writing
  <2>2. PICK w : w = tab[t].job OBVIOUS
  <2>3. canonical' = Attempt(w) /\ canonical = w.expects BY <1>3, <2>2 DEF Lands
  <2>4. RevOf(canonical)' = RevOf(Attempt(w)) BY <2>3 DEF RevOf
  <2>5. RevOf(Attempt(w)) = w.rev /\ w.rev \in Nat BY <2>1, <2>2, WriteNumbers
  <2>6. RevOf(w.expects) < w.rev BY <1>3, <2>2 DEF Lands, Numbers, NumbersAbove
  <2> QED BY <1>1, <2>3, <2>4, <2>5, <2>6
<1>4. CASE Refreshes(t)
  <2>1. Writing(t) BY <1>4 DEF Refreshes, At, Writing
  <2>2. PICK w \in WriteJob : w = tab[t].job BY <2>1, WriteNumbers
  <2>3. canonical = Attempt(w) /\ canonical' = [canonical EXCEPT !.obsolete = FALSE]
    BY <1>4, <2>2 DEF Refreshes
  <2>4. canonical \in Row /\ canonical' \in Row /\ canonical'.rev = canonical.rev
    BY <2>3, MadeTyped DEF Row
  <2> QED BY <1>1, <2>4, NamesDistinct DEF RevOf
<1>5. CASE Settles(t)
  <2>1. PICK w \in RecoveryJob : w = tab[t].job
    BY <1>5, HoldingJob DEF Settles, At, Holding
  <2>2. canonical = Chosen(w) /\ canonical' = Final(w) BY <1>5, <2>1 DEF Settles
  <2>3. RevOf(canonical)' = RevOf(Final(w)) /\ RevOf(canonical) = RevOf(Chosen(w))
    BY <2>2 DEF RevOf
  <2>4. RevOf(Final(w)) = w.rev /\ RevOf(Chosen(w)) = w.rev /\ w.rev \in Nat
    BY RecoveryPlace
  <2> QED BY <2>3, <2>4
<1> QED
  BY <1>2, <1>3, <1>4, <1>5
     DEF Kind, Rests, Rereads, Readies, FallsBack, Mirrors, Picks, CopiesChosen, Clears

LEMMA KnownAfter ==
  ASSUME TypeOK, NEW t \in Tab, Kind(t)
  PROVE  /\ KnownRows(t)' \subseteq KnownRows(t) \cup {canonical'}
         /\ Rests(t) \/ FallsBack(t) => KnownRows(t)' \subseteq KnownRows(t)
<1> DEFINE o  == tab[t].observed
           o2 == tab'[t].observed
<1>0. KnownRows(t)' = ({o2} \ {Unset})
        \cup (IF Writing(t)' THEN {tab'[t].job.read, tab'[t].job.expects} ELSE {})
  BY DEF KnownRows
<1>1. Idle.pc = "idle" BY DEF Idle
<1>2. CASE Rests(t)
  <2>1. CASE tab'[t].job = Idle
    <3>1. ~Writing(t)' BY <1>1, <2>1 DEF Writing
    <3> QED BY <1>0, <1>2, <3>1 DEF Rests, Knows, KnownRows
  <2>2. CASE tab'[t].job # Idle
    <3>1. tab'[t].job = tab[t].job /\ o2 = o BY <1>2, <2>2 DEF Rests, Knows
    <3> QED BY <1>2, <3>1 DEF KnownRows, Writing
  <2> QED BY <2>1, <2>2
<1>3. ASSUME Lands(t) \/ FallsBack(t)
      PROVE  Writing(t) /\ tab'[t].job.read = tab[t].job.read
             /\ tab'[t].job.expects = tab[t].job.expects
  <2>1. Writing(t) BY <1>3 DEF Lands, FallsBack, At, Writing
  <2>2. PICK w \in WriteJob : w = tab[t].job BY <2>1, WriteNumbers
  <2>3. PICK pc \in {"mirror", "fallback"} : tab'[t].job = [w EXCEPT !.pc = pc]
    BY <1>3, <2>2 DEF Lands, FallsBack
  <2> QED BY <2>1, <2>2, <2>3, PlaceOnly
<1>4. CASE FallsBack(t)
  <2>1. o2 = o BY <1>4 DEF FallsBack, Knows
  <2> QED BY <1>0, <1>3, <1>4, <2>1 DEF KnownRows
<1>5. CASE Lands(t)
  <2>1. o2 = canonical' BY <1>5 DEF Lands
  <2> QED BY <1>0, <1>3, <1>5, <2>1 DEF KnownRows, Lands, Rests, FallsBack
<1>6. CASE Rereads(t)
  <2>1. KnownRows(t)' \subseteq KnownRows(t) \cup {canonical'}
    BY <1>6 DEF Rereads, KnownRows, Writing
  <2> QED BY <1>2, <1>4, <2>1
<1>7. CASE Readies(t)
  <2>1. KnownRows(t)' \subseteq KnownRows(t) \cup {canonical'}
    BY <1>0, <1>7 DEF Readies, KnownRows
  <2> QED BY <1>2, <1>4, <2>1
<1>8. CASE Mirrors(t)
  <2>1. PICK w \in WriteJob : w = tab[t].job /\ Writing(t)
    BY <1>8, WriteNumbers DEF Mirrors
  <2>2. CASE tab'[t].job = Idle
    <3>1. ~Writing(t)' BY <1>1, <2>2 DEF Writing
    <3>2. o2 \in {o, w.read} BY <1>8, <2>1, <2>2 DEF Mirrors, Idle
    <3> QED BY <1>0, <2>1, <3>1, <3>2, <1>8, <2>2 DEF KnownRows, Rests, Knows
  <2>3. CASE tab'[t].job # Idle
    <3>1. tab'[t].job = [w EXCEPT !.pc = "refresh"] /\ o2 = o BY <1>8, <2>1, <2>3 DEF Mirrors
    <3>2. tab'[t].job.read = w.read /\ tab'[t].job.expects = w.expects BY <3>1, PlaceOnly
    <3> QED BY <1>0, <2>1, <3>1, <3>2 DEF KnownRows
  <2> QED BY <2>2, <2>3
<1>9. CASE Refreshes(t)
  <2>1. ~Writing(t)' /\ o2 = canonical' BY <1>1, <1>9 DEF Refreshes, Writing
  <2> QED BY <1>0, <1>2, <1>4, <2>1
<1>10. CASE Picks(t) \/ Clears(t)
  <2>1. ~Writing(t)' /\ o2 = o BY <1>1, <1>10 DEF Picks, Clears, Writing, Knows
  <2> QED BY <1>0, <2>1 DEF KnownRows
<1>11. CASE PutsChosen(t) \/ CopiesChosen(t) \/ Settles(t)
  <2>1. Holding(t) BY <1>11 DEF PutsChosen, CopiesChosen, Settles, At, Holding
  <2>2. PICK w \in RecoveryJob : w = tab[t].job BY <2>1, HoldingJob
  <2>3. PICK pc \in {"copy", "finalize", "clear"} : tab'[t].job = [w EXCEPT !.pc = pc]
    BY <1>11, <2>2 DEF PutsChosen, CopiesChosen, Settles
  <2>4. ~Writing(t)' BY <2>3, RecoveryPlace DEF Writing
  <2>5. o2 \in {o, canonical'} BY <1>11 DEF PutsChosen, CopiesChosen, Settles, Knows
  <2> QED BY <1>0, <1>2, <1>4, <2>4, <2>5 DEF KnownRows
<1> QED BY <1>2, <1>4, <1>5, <1>6, <1>7, <1>8, <1>9, <1>10, <1>11 DEF Kind

LEMMA PutRow ==
  ASSUME TypeOK, NEW t \in Tab, PutsChosen(t)
  PROVE  RevOf(canonical)' = tab[t].job.rev /\ tab[t].job.rev \in Nat /\ ~Fresh(canonical')
<1>1. PICK w \in RecoveryJob : w = tab[t].job
  BY HoldingJob DEF PutsChosen, At, Holding
<1>2. canonical' = Chosen(w) BY <1>1 DEF PutsChosen
<1>3. RevOf(canonical)' = RevOf(Chosen(w)) BY <1>2 DEF RevOf
<1> QED BY <1>1, <1>2, <1>3, RecoveryPlace

LEMMA BehindStep ==
  ASSUME TypeOK, TypeOK', Numbers, Behind, Choosing, NEW t \in Tab, Kind(t), OthersKept(t)
  PROVE  Behind'
<1> SUFFICES ASSUME NEW u \in Tab, NEW r \in KnownRows(u)', Fresh(r)
             PROVE  r.rev <= RevOf(canonical)'
  BY DEF Behind, KnownBelow, Fresh
<1>1. RevOf(canonical)' \in Nat BY SnapTyped DEF TypeOK
<1>2. CASE r = canonical'
  <2>1. r.rev = RevOf(canonical)' BY <1>2 DEF Fresh, RevOf
  <2> QED BY <1>1, <2>1
<1>3. CASE r # canonical'
  <2>1. r \in KnownRows(u)
    <3>1. CASE u = t BY <1>3, <3>1, KnownAfter
    <3>2. CASE u # t BY <3>2 DEF OthersKept, KnownRows, Writing
    <3> QED BY <3>1, <3>2
  <2>2. r.rev <= RevOf(canonical) BY <2>1 DEF Behind, KnownBelow
  <2>3. r \in Row
    <3>1. CASE r = tab[u].observed /\ r # Unset BY <3>1, MemoryFields DEF Fresh
    <3>2. CASE Writing(u) /\ r \in {tab[u].job.read, tab[u].job.expects}
      <4>1. tab[u].job \in WriteJob BY <3>2, WriteNumbers
      <4> QED BY <3>2, <4>1 DEF WriteJob, Fresh
    <3> QED BY <2>1, <3>1, <3>2 DEF KnownRows
  <2>4. r.rev \in Nat /\ RevOf(canonical) \in Nat BY <2>3, SnapTyped DEF Row, TypeOK
  <2>5. CASE PutsChosen(t)
    <3>1. BelowChoice(u, tab[t].job.rev) BY <2>5 DEF Choosing, PutsChosen
    <3>2. r.rev < tab[t].job.rev BY <2>1, <3>1 DEF BelowChoice
    <3> QED BY <2>4, <2>5, <3>2, PutRow
  <2>6. CASE ~PutsChosen(t) BY <2>2, <2>4, <2>6, RowAfter
  <2> QED BY <2>5, <2>6
<1> QED BY <1>2, <1>3

LEMMA NumbersKept ==
  ASSUME TypeOK, TypeOK', Numbers, NEW t \in Tab, Kind(t)
  PROVE  NumbersAbove(t)'
<1>0. NumbersAbove(t) /\ ObservedLow(t, RevOf(canonical)) BY DEF Numbers
<1>8. tab'[t].latest \in Nat BY DEF TypeOK, Memory
<1>1. Idle.pc = "idle" BY DEF Idle
<1>2. tab'[t].job = Idle => NumbersAbove(t)'
  BY <1>1 DEF NumbersAbove, Writing, At
<1>3. CASE Rests(t) \/ Rereads(t)
  <2>1. CASE tab'[t].job = Idle BY <1>2, <2>1
  <2>2. CASE tab'[t].job # Idle
    <3>1. tab'[t].job = tab[t].job BY <1>3, <2>2 DEF Rests, Rereads
    <3>2. tab'[t].latest >= tab[t].latest
      BY <1>3, <2>2, ObservedNumber DEF Rests, Rereads, Knows
    <3> QED
      BY <1>0, <1>8, <3>1, <3>2, ObservedNumber, WriteNumbers DEF NumbersAbove, Writing, At, RevOf
  <2> QED BY <2>1, <2>2
<1>4. CASE Readies(t)
  <2>0. PICK w : w = tab'[t].job OBVIOUS
  <2>1. /\ w.pc = "compare" /\ w.read = canonical /\ w.expects \in {canonical} \cup ({tab[t].observed} \ {Unset})
        /\ w.rev > RevOf(canonical) /\ w.rev > tab[t].latest /\ tab'[t].latest = w.rev
    BY <1>4, <2>0 DEF Readies
  <2>2. RevOf(w.expects) < w.rev
    <3>1. CASE w.expects = canonical BY <2>1, <3>1
    <3>2. CASE w.expects = tab[t].observed /\ tab[t].observed # Unset
      <4>1. RevOf(w.expects) <= tab[t].latest \/ RevOf(w.expects) <= RevOf(canonical)
        BY <1>0, <3>2 DEF ObservedLow
      <4>2. RevOf(w.expects) \in Nat BY <3>2, ObservedNumber
      <4> QED BY <1>8, <2>1, <4>1, <4>2, ObservedNumber
    <3> QED BY <2>1, <3>1, <3>2
  <2>3. RevOf(w.read) < w.rev BY <1>8, <2>1, ObservedNumber
  <2>4. w.rev <= tab'[t].latest BY <1>8, <2>1
  <2> QED BY <2>0, <2>2, <2>3, <2>4 DEF NumbersAbove, RevOf
<1>5. CASE Lands(t) \/ FallsBack(t) \/ (Mirrors(t) /\ tab'[t].job # Idle)
  <2>1. Writing(t) BY <1>5 DEF Lands, FallsBack, Mirrors, At, Writing
  <2>2. PICK w \in WriteJob : w = tab[t].job BY <2>1, WriteNumbers
  <2>3. PICK pc \in {"mirror", "fallback", "refresh"} : tab'[t].job = [w EXCEPT !.pc = pc]
    BY <1>5, <2>2 DEF Lands, FallsBack, Mirrors
  <2>4. tab'[t].latest = tab[t].latest BY <1>5 DEF Lands, FallsBack, Mirrors, Knows
  <2>5. /\ tab'[t].job.pc = pc /\ tab'[t].job.read = w.read /\ tab'[t].job.rev = w.rev
    BY <2>3, PlaceOnly
  <2>6. RevOf(w.read) < w.rev /\ w.rev <= tab[t].latest BY <1>0, <2>1, <2>2 DEF NumbersAbove
  <2> QED BY <2>4, <2>5, <2>6 DEF NumbersAbove, At, RevOf
<1>6. CASE Refreshes(t) \/ Clears(t) \/ (Mirrors(t) /\ tab'[t].job = Idle)
  BY <1>2, <1>6 DEF Refreshes, Clears
<1>7. CASE Picks(t) \/ PutsChosen(t) \/ CopiesChosen(t) \/ Settles(t)
  <2>1. tab'[t].job.pc \in {"commit", "copy", "finalize", "clear"}
    <3>1. CASE Picks(t) BY <3>1 DEF Picks
    <3>2. CASE PutsChosen(t) \/ CopiesChosen(t) \/ Settles(t)
      <4>1. PICK w \in RecoveryJob : w = tab[t].job
        BY <3>2, HoldingJob DEF PutsChosen, CopiesChosen, Settles, At, Holding
      <4>2. PICK pc \in {"copy", "finalize", "clear"} : tab'[t].job = [w EXCEPT !.pc = pc]
        BY <3>2, <4>1 DEF PutsChosen, CopiesChosen, Settles
      <4> QED BY <4>2, RecoveryPlace
    <3> QED BY <1>7, <3>1, <3>2
  <2> QED BY <2>1 DEF NumbersAbove, Writing, At
<1> QED BY <1>3, <1>4, <1>5, <1>6, <1>7 DEF Kind

LEMMA ObservedKept ==
  ASSUME TypeOK, TypeOK', Numbers, NEW t \in Tab, Kind(t)
  PROVE  ObservedLow(t, RevOf(canonical))'
<1> DEFINE o2 == tab'[t].observed
<1>0. NumbersAbove(t) /\ ObservedLow(t, RevOf(canonical)) BY DEF Numbers
<1>1. RevOf(canonical)' \in Nat BY SnapTyped DEF TypeOK
<1>2. ASSUME o2 = canonical' PROVE ObservedLow(t, RevOf(canonical))'
  <2>1. RevOf(o2) = RevOf(canonical)' BY <1>2 DEF RevOf
  <2>2. RevOf(o2) <= RevOf(canonical)' BY <1>1, <2>1
  <2> QED BY <2>2 DEF ObservedLow, RevOf
<1>3. ASSUME Knows(t)' = Knows(t), UNCHANGED canonical
      PROVE  ObservedLow(t, RevOf(canonical))'
  BY <1>0, <1>3 DEF ObservedLow, RevOf, Knows
<1>4. CASE Rests(t)
  <2>1. CASE o2 = Unset BY <2>1 DEF ObservedLow
  <2>2. CASE o2 # Unset BY <1>3, <1>4, <2>2 DEF Rests
  <2> QED BY <2>1, <2>2
<1>5. CASE Rereads(t)
  <2>1. CASE o2 = canonical' BY <1>2, <2>1
  <2>2. CASE o2 = tab[t].observed /\ o2 # Unset
    <3>1. UNCHANGED canonical /\ tab'[t].latest >= tab[t].latest BY <1>5 DEF Rereads
    <3>2. RevOf(o2) <= tab[t].latest \/ RevOf(o2) <= RevOf(canonical)
      BY <1>0, <2>2 DEF ObservedLow
    <3>3. RevOf(o2) \in Nat /\ tab'[t].latest \in Nat
      BY <2>2, ObservedNumber DEF TypeOK, Memory
    <3>4. RevOf(o2) <= tab'[t].latest \/ RevOf(o2) <= RevOf(canonical)
      BY <3>1, <3>2, <3>3, ObservedNumber
    <3> QED BY <3>1, <3>4 DEF ObservedLow, RevOf
  <2>3. CASE o2 = Unset BY <2>3 DEF ObservedLow
  <2> QED BY <1>5, <2>1, <2>2, <2>3 DEF Rereads
<1>6. CASE Readies(t)
  <2>1. o2 = tab[t].observed /\ tab'[t].latest > tab[t].latest /\ UNCHANGED canonical
    BY <1>6 DEF Readies
  <2>2. o2 # Unset => RevOf(o2) \in Nat /\ tab'[t].latest \in Nat
    BY <2>1, ObservedNumber, MemoryFields DEF TypeOK, Memory
  <2>3. o2 # Unset => RevOf(o2) <= tab[t].latest \/ RevOf(o2) <= RevOf(canonical)
    BY <1>0, <2>1 DEF ObservedLow
  <2>4. o2 # Unset => RevOf(o2) <= tab'[t].latest \/ RevOf(o2) <= RevOf(canonical)
    BY <2>1, <2>2, <2>3, ObservedNumber
  <2> QED BY <2>1, <2>4 DEF ObservedLow, RevOf
<1>7. CASE Lands(t) \/ Refreshes(t) \/ PutsChosen(t) \/ Settles(t)
  BY <1>2, <1>7 DEF Lands, Refreshes, PutsChosen, Settles
<1>8. CASE FallsBack(t) \/ Picks(t) \/ CopiesChosen(t) \/ Clears(t)
  BY <1>3, <1>8 DEF FallsBack, Picks, CopiesChosen, Clears
<1>9. CASE Mirrors(t)
  <2>1. PICK w \in WriteJob : w = tab[t].job /\ Writing(t)
    BY <1>9, WriteNumbers DEF Mirrors
  <2>2. UNCHANGED canonical /\ tab'[t].latest = tab[t].latest /\ o2 \in {tab[t].observed, w.read}
    BY <1>9, <2>1 DEF Mirrors
  <2>3. CASE o2 = tab[t].observed BY <1>3, <2>2, <2>3 DEF Knows
  <2>4. CASE o2 = w.read
    <3>1. RevOf(w.read) < w.rev /\ w.rev <= tab[t].latest BY <1>0, <2>1 DEF NumbersAbove
    <3>2. RevOf(w.read) \in Nat /\ w.rev \in Nat /\ tab[t].latest \in Nat
      BY <2>1, WriteNumbers, ObservedNumber
    <3>3. RevOf(o2) <= tab'[t].latest BY <2>2, <2>4, <3>1, <3>2
    <3> QED BY <3>3 DEF ObservedLow, RevOf
  <2> QED BY <2>2, <2>3, <2>4
<1> QED BY <1>4, <1>5, <1>6, <1>7, <1>8, <1>9 DEF Kind

LEMMA NumbersStep ==
  ASSUME TypeOK, TypeOK', Numbers, Choosing, NEW t \in Tab, Kind(t), OthersKept(t)
  PROVE  Numbers'
<1> SUFFICES ASSUME NEW u \in Tab
             PROVE  NumbersAbove(u)' /\ ObservedLow(u, RevOf(canonical))'
  BY DEF Numbers, NumbersAbove, ObservedLow, RevOf, Writing, At
<1>1. CASE u = t BY <1>1, NumbersKept, ObservedKept
<1>2. CASE u # t
  <2>1. tab'[u] = tab[u] BY <1>2 DEF OthersKept
  <2>2. NumbersAbove(u)' BY <2>1 DEF Numbers, NumbersAbove, Writing, At, RevOf
  <2> DEFINE o == tab[u].observed
  <2>3. o # Unset => RevOf(o) <= tab[u].latest \/ RevOf(o) <= RevOf(canonical)'
    <3>1. CASE PutsChosen(t)
      <4>1. BelowChoice(u, tab[t].job.rev) BY <3>1 DEF Choosing, PutsChosen
      <4>2. o # Unset => RevOf(o) <= tab[u].latest \/ RevOf(o) < tab[t].job.rev
        BY <4>1 DEF BelowChoice
      <4> QED BY <3>1, <4>2, PutRow, ObservedNumber
    <3>2. CASE ~PutsChosen(t)
      <4>1. o # Unset => RevOf(o) <= tab[u].latest \/ RevOf(o) <= RevOf(canonical)
        BY DEF Numbers, ObservedLow
      <4> QED BY <3>2, <4>1, RowAfter, ObservedNumber
    <3> QED BY <3>1, <3>2
  <2>4. ObservedLow(u, RevOf(canonical))' BY <2>1, <2>3 DEF ObservedLow, RevOf
  <2> QED BY <2>2, <2>4
<1> QED BY <1>1, <1>2

(* A recovery that begins takes a revision above all that any tab knows.   *)
LEMMA PicksAbove ==
  ASSUME TypeOK, TypeOK', Numbers, Behind, NEW t \in Tab, Picks(t), OthersKept(t), NEW u \in Tab
  PROVE  BelowChoice(u, tab[t].job.rev)'
<1>1. PICK rev \in Nat : rev = tab'[t].job.rev /\ rev > RevOf(canonical) BY DEF Picks
<1>2. UNCHANGED canonical /\ RevOf(canonical) \in Nat BY ObservedNumber DEF Picks
<1>3. Knows(u)' = Knows(u)
  BY DEF Picks, OthersKept, Knows
<1>4. ASSUME NEW r \in KnownRows(u)', Fresh(r) PROVE r.rev < rev
  <2>1. r \in KnownRows(u) \cup {canonical}
    <3>1. CASE u = t BY <1>2, <3>1, KnownAfter DEF Kind
    <3>2. CASE u # t BY <3>2 DEF OthersKept, KnownRows, Writing
    <3> QED BY <3>1, <3>2
  <2>2. CASE r = canonical
    <3>1. r.rev = RevOf(canonical) BY <1>4, <2>2 DEF Fresh, RevOf
    <3> QED BY <1>1, <1>2, <3>1
  <2>3. CASE r \in KnownRows(u)
    <3>1. r.rev <= RevOf(canonical) BY <1>4, <2>3 DEF Behind, KnownBelow
    <3>2. r.rev \in Nat
      <4>1. CASE r = tab[u].observed /\ r # Unset BY <1>4, <4>1, MemoryFields DEF Fresh, Row
      <4>2. CASE Writing(u) /\ r \in {tab[u].job.read, tab[u].job.expects}
        <5>1. tab[u].job \in WriteJob BY <4>2, WriteNumbers
        <5> QED BY <1>4, <4>2, <5>1 DEF WriteJob, Fresh, Row
      <4> QED BY <2>3, <4>1, <4>2 DEF KnownRows
    <3> QED BY <1>1, <1>2, <3>1, <3>2
  <2> QED BY <2>1, <2>2, <2>3
<1>5. ASSUME At(u, "refresh")', canonical' = Attempt(tab'[u].job) PROVE tab'[u].job.rev < rev
  <2>1. u # t BY <1>5 DEF Picks, At
  <2>2. PICK w : w = tab[u].job /\ w = tab'[u].job BY <2>1 DEF OthersKept
  <2>3. Writing(u) BY <1>5, <2>2 DEF At, Writing
  <2>4. RevOf(Attempt(w)) = w.rev /\ w.rev \in Nat BY <2>2, <2>3, WriteNumbers
  <2>5. canonical = Attempt(w) BY <1>2, <1>5, <2>2
  <2>6. RevOf(canonical) = w.rev BY <2>4, <2>5
  <2> QED BY <1>1, <2>2, <2>4, <2>6
<1>6. tab'[u].observed # Unset
        => RevOf(tab'[u].observed) <= tab'[u].latest \/ RevOf(tab'[u].observed) < rev
  <2>1. tab[u].observed # Unset
          => RevOf(tab[u].observed) <= tab[u].latest \/ RevOf(tab[u].observed) <= RevOf(canonical)
    BY DEF Numbers, ObservedLow
  <2>2. tab[u].observed # Unset
          => RevOf(tab[u].observed) <= tab[u].latest \/ RevOf(tab[u].observed) < rev
    BY <1>1, <2>1, ObservedNumber
  <2> QED BY <1>3, <2>2 DEF Knows
<1> QED BY <1>1, <1>4, <1>5, <1>6 DEF BelowChoice, At, Attempt, RevOf, Fresh

(* While a recovery is about to put its row, the step of another tab       *)
(* leaves that tab below it.                                               *)
LEMMA BelowAfter ==
  ASSUME TypeOK, TypeOK', Held, Numbers, Choosing, NEW t \in Tab, NEW v \in Tab, t # v,
         At(v, "commit"), Kind(t), tab'[v] = tab[v]
  PROVE  BelowChoice(t, tab[v].job.rev)'
<1>0. PICK rev : rev = tab[v].job.rev /\ rev = tab'[v].job.rev OBVIOUS
<1>1. BelowChoice(t, rev) BY <1>0 DEF Choosing
<1>2. Rests(t) \/ Lands(t) \/ FallsBack(t) \/ Refreshes(t)
  <2>1. Holding(v) /\ ~At(v, "clear") BY DEF At, Holding
  <2> QED BY <2>1, WhileHeld
<1>3. rev \in Nat BY <1>0, HoldingJob, RecoveryPlace DEF At, Holding
<1> DEFINE D1 == \A r \in KnownRows(t)' : Fresh(r) => r.rev < rev
           D2 == At(t, "refresh")' /\ canonical' = Attempt(tab'[t].job) => tab'[t].job.rev < rev
           D3 == tab'[t].observed # Unset
             => RevOf(tab'[t].observed) <= tab'[t].latest \/ RevOf(tab'[t].observed) < rev
<1>4. CASE Rests(t)
  <2>1. D1 BY <1>1, <1>4, KnownAfter DEF BelowChoice, Kind
  <2>2. D2
    <3>1. Idle.pc = "idle" BY DEF Idle
    <3>2. CASE tab'[t].job = Idle BY <3>1, <3>2 DEF At
    <3>3. CASE tab'[t].job = tab[t].job BY <1>1, <1>4, <3>3 DEF BelowChoice, Rests, At
    <3> QED BY <1>4, <3>2, <3>3 DEF Rests
  <2>3. D3 BY <1>1, <1>4 DEF BelowChoice, Rests, Knows
  <2> QED BY <1>0, <2>1, <2>2, <2>3 DEF BelowChoice, At, Attempt, RevOf, Fresh
<1>5. CASE FallsBack(t)
  <2>1. D1 BY <1>1, <1>5, KnownAfter DEF BelowChoice, Kind
  <2>2. D2
    <3>1. PICK w \in WriteJob : w = tab[t].job BY <1>5, WriteNumbers DEF FallsBack, At, Writing
    <3>2. tab'[t].job = [w EXCEPT !.pc = "fallback"] BY <1>5, <3>1 DEF FallsBack
    <3> QED BY <3>2, PlaceOnly DEF At
  <2>3. D3 BY <1>1, <1>5 DEF BelowChoice, FallsBack, Knows
  <2> QED BY <1>0, <2>1, <2>2, <2>3 DEF BelowChoice, At, Attempt, RevOf, Fresh
<1>6. CASE Lands(t)
  <2>0. PICK w \in WriteJob : w = tab[t].job /\ Writing(t)
    BY <1>6, WriteNumbers DEF Lands, At, Writing
  <2>4. canonical' = Attempt(w) /\ tab'[t].observed = Attempt(w) /\ tab'[t].latest = tab[t].latest
    BY <1>6, <2>0 DEF Lands
  <2>1. D1
    <3>1. ~Fresh(canonical') BY <2>0, <2>4, WriteNumbers
    <3>2. KnownRows(t)' \subseteq KnownRows(t) \cup {canonical'} BY <1>6, KnownAfter
    <3> QED BY <1>1, <3>1, <3>2 DEF BelowChoice
  <2>2. D2
    <3>1. tab'[t].job = [w EXCEPT !.pc = "mirror"] BY <1>6, <2>0 DEF Lands
    <3> QED BY <3>1, PlaceOnly DEF At
  <2>3. D3
    <3>1. RevOf(Attempt(w)) = w.rev BY <2>0, WriteNumbers
    <3>2. w.rev <= tab[t].latest BY <2>0 DEF Numbers, NumbersAbove
    <3> QED BY <2>4, <3>1, <3>2
  <2> QED BY <1>0, <2>1, <2>2, <2>3 DEF BelowChoice, At, Attempt, RevOf, Fresh
<1>7. CASE Refreshes(t)
  <2>0. PICK w \in WriteJob : w = tab[t].job /\ Writing(t)
    BY <1>7, WriteNumbers DEF Refreshes, At, Writing
  <2>4. w.rev < rev /\ w.rev \in Nat
    BY <1>1, <1>7, <2>0, WriteNumbers DEF BelowChoice, Refreshes
  <2>5. canonical = Attempt(w) /\ canonical' = [canonical EXCEPT !.obsolete = FALSE]
        /\ tab'[t].observed = canonical' /\ tab'[t].job = Idle
    BY <1>7, <2>0 DEF Refreshes
  <2>6. canonical'.rev = w.rev /\ canonical' \in Row BY <2>5, MadeTyped DEF Row
  <2>1. D1
    <3>1. KnownRows(t)' \subseteq KnownRows(t) \cup {canonical'} BY <1>7, KnownAfter
    <3> QED BY <1>1, <2>4, <2>6, <3>1 DEF BelowChoice
  <2>2. D2 BY <2>5 DEF At, Idle
  <2>3. D3
    <3>1. RevOf(tab'[t].observed) = w.rev BY <2>5, <2>6, NamesDistinct DEF RevOf
    <3> QED BY <2>4, <3>1
  <2> QED BY <1>0, <2>1, <2>2, <2>3 DEF BelowChoice, At, Attempt, RevOf, Fresh
<1> QED BY <1>2, <1>4, <1>5, <1>6, <1>7

LEMMA ChoosingStep ==
  ASSUME TwoTabs, TypeOK, TypeOK', Held, Numbers, Behind, Choosing,
         NEW t \in Tab, Kind(t), OthersKept(t)
  PROVE  Choosing'
<1> SUFFICES ASSUME NEW v \in Tab, At(v, "commit")', NEW u \in Tab
             PROVE  BelowChoice(u, tab[v].job.rev)'
  BY DEF Choosing, At, BelowChoice, KnownRows, Writing, Fresh, RevOf, Attempt
<1>1. CASE v = t
  <2>1. Holding(t)' /\ tab'[t].job.pc = "commit" BY <1>1 DEF At, Holding
  <2>2. ~(PutsChosen(t) \/ CopiesChosen(t) \/ Settles(t))
    <3> SUFFICES ASSUME PutsChosen(t) \/ CopiesChosen(t) \/ Settles(t) PROVE FALSE OBVIOUS
    <3>1. PICK w \in RecoveryJob : w = tab[t].job
      BY HoldingJob DEF PutsChosen, CopiesChosen, Settles, At, Holding
    <3>2. PICK pc \in {"copy", "finalize", "clear"} : tab'[t].job = [w EXCEPT !.pc = pc]
      BY <3>1 DEF PutsChosen, CopiesChosen, Settles
    <3> QED BY <2>1, <3>2, RecoveryPlace
  <2>3. CASE Picks(t) BY <1>1, <2>3, PicksAbove
  <2>4. CASE ~Picks(t)
    <3>1. Holding(t) /\ tab'[t].job = tab[t].job /\ (Rests(t) \/ Rereads(t))
      BY <2>1, <2>2, <2>4, HoldsAfter
    <3>2. Rests(t) /\ UNCHANGED canonical
      <4>1. ~At(t, "clear") BY <2>1, <3>1 DEF At
      <4> QED BY <3>1, <4>1 DEF Held, Rereads, Rests
    <3>3. PICK rev : rev = tab[t].job.rev /\ rev = tab'[t].job.rev BY <3>1
    <3>4. BelowChoice(u, rev) BY <2>1, <3>1, <3>3 DEF Choosing, At
    <3>5. CASE u # t
      <4>1. tab'[u] = tab[u] BY <3>5 DEF OthersKept
      <4> QED BY <1>1, <3>2, <3>3, <3>4, <4>1
          DEF BelowChoice, At, KnownRows, Writing, Fresh, RevOf, Attempt
    <3>6. CASE u = t
      <4>1. tab'[t].job # Idle BY <2>1 DEF Idle
      <4>2. Knows(t)' = Knows(t) BY <3>2, <4>1 DEF Rests
      <4> QED BY <1>1, <3>1, <3>2, <3>3, <3>4, <3>6, <4>2
          DEF BelowChoice, At, KnownRows, Writing, Fresh, RevOf, Attempt, Knows
    <3> QED BY <3>5, <3>6
  <2> QED BY <2>3, <2>4
<1>2. CASE v # t
  <2>1. tab'[v] = tab[v] /\ At(v, "commit") BY <1>2 DEF OthersKept, At
  <2>2. CASE u = t BY <1>2, <2>1, <2>2, BelowAfter
  <2>3. CASE u = v
    <3>1. BelowChoice(v, tab[v].job.rev) BY <2>1 DEF Choosing
    <3> QED BY <2>1, <2>3, <3>1 DEF BelowChoice, At, KnownRows, Writing, Fresh, RevOf
  <2>4. u \in {t, v} BY <1>2 DEF TwoTabs
  <2> QED BY <2>2, <2>3, <2>4
<1> QED BY <1>1, <1>2

LEMMA SettledStep ==
  ASSUME TwoTabs, TypeOK, TypeOK', Held, Numbers, Choosing, Settled, NEW t \in Tab, Kind(t), OthersKept(t)
  PROVE  Settled'
<1> SUFFICES ASSUME NEW v \in Tab PROVE SettledFor(v)'
  BY DEF Settled, SettledFor, At, Final, Chosen, InMirror, RevOf
<1>1. CASE v = t
  <2>1. CASE ~Holding(t)' BY <1>1, <2>1 DEF SettledFor, Holding, At
  <2>2. CASE Picks(t) BY <1>1, <2>2 DEF Picks, SettledFor, At
  <2>3. CASE Holding(t) /\ tab'[t].job = tab[t].job /\ (Rests(t) \/ Rereads(t))
    <3>1. SettledFor(t) BY DEF Settled
    <3>2. UNCHANGED <<canonical, mirror>> BY <2>3 DEF Rests, Rereads
    <3>3. \A u \in Tab : tab'[u].job = tab[u].job BY <2>3 DEF OthersKept
    <3> QED BY <1>1, <3>1, <3>2, <3>3 DEF SettledFor, At, Final, Chosen, InMirror, RevOf
  <2>4. CASE PutsChosen(t) \/ CopiesChosen(t) \/ Settles(t)
    <3>1. Holding(t) BY <2>4 DEF PutsChosen, CopiesChosen, Settles, At, Holding
    <3>2. PICK w \in RecoveryJob : w = tab[t].job BY <3>1, HoldingJob
    <3>3. PICK pc \in {"copy", "finalize", "clear"} : tab'[t].job = [w EXCEPT !.pc = pc]
      BY <2>4, <3>2 DEF PutsChosen, CopiesChosen, Settles
    <3>4. PICK w2 : w2 = tab'[t].job OBVIOUS
    <3>5. w2.pc = pc /\ Final(w2) = Final(w) /\ Chosen(w2) = Chosen(w)
      <4>1. /\ [w EXCEPT !.pc = pc].pc = pc /\ Final([w EXCEPT !.pc = pc]) = Final(w)
            /\ Chosen([w EXCEPT !.pc = pc]) = Chosen(w)
        BY RecoveryPlace
      <4> QED BY <3>3, <3>4, <4>1
    <3>6. ASSUME NEW u \in Tab, At(u, "compare")'
          PROVE  u # t /\ tab'[u] = tab[u] /\ At(u, "compare")
      BY <3>4, <3>5, <3>6 DEF At, OthersKept
    <3>7. CASE PutsChosen(t)
      <4>1. At(t, "commit") /\ w2 = [w EXCEPT !.pc = "copy"]
        BY <3>2, <3>4, <3>7 DEF PutsChosen
      <4>2. w2.pc = "copy" BY <4>1, RecoveryPlace
      <4>3. ASSUME NEW u \in Tab, At(u, "compare")' PROVE tab'[u].job.expects # Final(w)
        <5>1. tab'[u] = tab[u] /\ At(u, "compare") BY <3>6, <4>3
        <5>2. tab[u].job.expects \in KnownRows(u) BY <5>1 DEF KnownRows, Writing, At
        <5>3. \A r \in KnownRows(u) : Fresh(r) => r.rev < w.rev
          BY <3>2, <4>1 DEF Choosing, BelowChoice
        <5>4. Fresh(Final(w)) /\ Final(w).rev = w.rev /\ w.rev \in Nat BY RecoveryPlace
        <5> QED BY <5>1, <5>2, <5>3, <5>4
      <4>4. \A u \in Tab : At(u, "compare")' => tab'[u].job.expects # Final(w2)
        BY <3>5, <4>3
      <4> QED BY <1>1, <3>4, <4>2, <4>4 DEF SettledFor, At, Final, Chosen
    <3>8. CASE CopiesChosen(t) \/ Settles(t)
      <4>1. SettledFor(t) BY DEF Settled
      <4>2. \A u \in Tab : At(u, "compare") => tab[u].job.expects # Final(w)
        BY <3>2, <3>8, <4>1 DEF SettledFor, CopiesChosen, Settles, At
      <4>3. \A u \in Tab : At(u, "compare")' => tab'[u].job.expects # Final(w2)
        BY <3>5, <3>6, <4>2
      <4>4. CASE CopiesChosen(t)
        <5>1. w2 = [w EXCEPT !.pc = "finalize"] BY <3>2, <3>4, <4>4 DEF CopiesChosen
        <5>2. w2.pc = "finalize" BY <5>1, RecoveryPlace
        <5>3. mirror' = InMirror(Chosen(w2)) BY <3>2, <3>5, <4>4 DEF CopiesChosen
        <5> QED BY <1>1, <3>4, <4>3, <5>2, <5>3 DEF SettledFor, At, Final, Chosen, InMirror
      <4>5. CASE Settles(t)
        <5>1. w2 = [w EXCEPT !.pc = "clear"] /\ canonical' = Final(w)
          BY <3>2, <3>4, <4>5 DEF Settles
        <5>2. w2.pc = "clear" /\ w2.rev = w.rev BY <5>1, RecoveryPlace
        <5>3. canonical' = Final(w2) BY <3>5, <5>1
        <5>4. RevOf(canonical)' = RevOf(Final(w)) BY <5>1 DEF RevOf
        <5>5. RevOf(Final(w)) = w.rev /\ w.rev \in Nat BY RecoveryPlace
        <5>6. w2.rev <= RevOf(canonical)' BY <5>2, <5>4, <5>5
        <5> QED BY <1>1, <3>4, <4>3, <5>2, <5>3, <5>6
            DEF SettledFor, At, Final, Chosen, InMirror, RevOf
      <4> QED BY <3>8, <4>4, <4>5
    <3> QED BY <2>4, <3>7, <3>8
  <2> QED BY <2>1, <2>2, <2>3, <2>4, HoldsAfter
<1>2. CASE v # t
  <2>1. tab'[v] = tab[v] BY <1>2 DEF OthersKept
  <2>2. SettledFor(v) BY DEF Settled
  <2>3. CASE ~Holding(v) BY <2>1, <2>3 DEF SettledFor, Holding, At
  <2>4. CASE Holding(v)
    <3>1. PICK w \in RecoveryJob : w = tab[v].job /\ w = tab'[v].job BY <2>1, <2>4, HoldingJob
    <3>2. \/ Rests(t) \/ Lands(t) \/ FallsBack(t) \/ Refreshes(t)
          \/ At(v, "clear") /\ (Rereads(t) \/ Readies(t))
      BY <1>2, <2>4, WhileHeld
    <3>3. UNCHANGED mirror BY <3>2 DEF Rests, Lands, FallsBack, Refreshes, Rereads, Readies
    <3>4. At(t, "compare")' => (At(t, "compare") /\ tab'[t].job = tab[t].job) \/ Readies(t)
      <4>1. ASSUME Lands(t) \/ FallsBack(t) PROVE ~At(t, "compare")'
        <5>1. PICK x \in WriteJob : x = tab[t].job
          BY <4>1, WriteNumbers DEF Lands, FallsBack, At, Writing
        <5>2. PICK pc \in {"mirror", "fallback"} : tab'[t].job = [x EXCEPT !.pc = pc]
          BY <4>1, <5>1 DEF Lands, FallsBack
        <5> QED BY <5>2, PlaceOnly DEF At
      <4>2. Refreshes(t) => ~At(t, "compare")' BY DEF Refreshes, At, Idle
      <4> QED BY <3>2, <4>1, <4>2 DEF Rests, Rereads, At, Idle
    <3>5. w.pc \in {"copy", "finalize"}
            => \A u \in Tab : At(u, "compare")' => tab'[u].job.expects # Final(w)
      <4> SUFFICES ASSUME w.pc \in {"copy", "finalize"}
                   PROVE  \A u \in Tab : At(u, "compare")' => tab'[u].job.expects # Final(w)
        OBVIOUS
      <4>1. ~Readies(t) BY <3>1 DEF Readies, Held, Holding, At
      <4>2. \A u \in Tab : At(u, "compare")' => At(u, "compare") /\ tab'[u].job = tab[u].job
        BY <3>4, <4>1 DEF OthersKept, At
      <4> QED BY <2>2, <3>1, <4>2 DEF SettledFor
    <3>6. ASSUME w.pc = "clear"
          PROVE  /\ w.rev <= RevOf(canonical)'
                 /\ \A u \in Tab : At(u, "compare")' /\ RevOf(tab'[u].job.read) < w.rev
                      => canonical' = Final(w) /\ tab'[u].job.expects # canonical'
      <4>1. /\ w.rev <= RevOf(canonical)
            /\ \A u \in Tab : At(u, "compare") /\ RevOf(tab[u].job.read) < w.rev
                 => canonical = Final(w) /\ tab[u].job.expects # canonical
        BY <2>2, <3>1, <3>6 DEF SettledFor, At
      <4>2. w.rev \in Nat BY RecoveryPlace
      <4>3. RevOf(canonical)' \in Nat /\ RevOf(canonical)' >= RevOf(canonical)
        BY <1>2, <3>1, <3>6, RowAfter DEF PutsChosen, At, Held, Holding
      <4>4. w.rev <= RevOf(canonical)' BY <4>1, <4>2, <4>3, ObservedNumber
      <4>5. ASSUME NEW u \in Tab, At(u, "compare")', RevOf(tab'[u].job.read) < w.rev
            PROVE  canonical' = Final(w) /\ tab'[u].job.expects # canonical'
        <5>1. u = t
          <6>1. ~At(v, "compare")' BY <2>1, <3>1, <3>6 DEF At
          <6> QED BY <1>2, <4>5, <6>1 DEF TwoTabs
        <5>2. ~Readies(t)
          <6>1. ASSUME Readies(t) PROVE RevOf(tab'[t].job.read) = RevOf(canonical)
            BY <6>1 DEF Readies
          <6> QED BY <4>1, <4>2, <4>5, <5>1, <6>1, ObservedNumber
        <5>3. At(t, "compare") /\ tab'[t].job = tab[t].job BY <3>4, <4>5, <5>1, <5>2
        <5>4. ~Lands(t)
          <6>1. canonical = Final(w) /\ tab[t].job.expects # canonical
            BY <4>1, <4>5, <5>1, <5>3
          <6> QED BY <6>1 DEF Lands
        <5>5. UNCHANGED canonical
          BY <3>2, <5>3, <5>4 DEF Rests, FallsBack, Refreshes, Rereads, Readies, At
        <5> QED BY <4>1, <4>5, <5>1, <5>3, <5>5
      <4> QED BY <4>4, <4>5
    <3>7. w.pc = "finalize" => mirror' = InMirror(Chosen(w))
      BY <2>2, <3>1, <3>3 DEF SettledFor, At
    <3> QED BY <3>1, <3>5, <3>6, <3>7 DEF SettledFor, At, Final, Chosen, InMirror, RevOf
  <2> QED BY <2>3, <2>4
<1> QED BY <1>1, <1>2

LEMMA ChoiceInit == Init => ChoiceInv
<1> SUFFICES ASSUME Init PROVE ChoiceInv OBVIOUS
<1>1. \A t \in Tab : tab[t].job.pc = "idle" /\ tab[t].observed = Unset
  BY DEF Init, Closed, Idle
<1>2. \A t \in Tab : ~Writing(t) /\ ~Holding(t) /\ ~At(t, "commit") /\ ~At(t, "clear")
                    /\ ~At(t, "compare")
  BY <1>1 DEF Writing, Holding, At
<1>3. \A t \in Tab : KnownRows(t) = {} BY <1>1, <1>2 DEF KnownRows
<1>4. Held /\ Choosing BY <1>2 DEF Held, Choosing
<1>5. Numbers BY <1>1, <1>2 DEF Numbers, NumbersAbove, ObservedLow
<1>6. Behind BY <1>3 DEF Behind, KnownBelow
<1>7. Settled BY <1>1 DEF Settled, SettledFor, At
<1> QED BY <1>4, <1>5, <1>6, <1>7 DEF ChoiceInv

LEMMA ChoiceNext ==
  ASSUME TwoTabs, TypeOK, TypeOK', ChoiceInv, [Next]_vars
  PROVE  ChoiceInv'
<1>1. CASE UNCHANGED vars \/ ClockMoves
  <2>1. UNCHANGED <<canonical, mirror, backup, lock, tab>> BY <1>1 DEF vars, ClockMoves, stored
  <2> QED BY <2>1 DEF ChoiceInv, Held, Numbers, NumbersAbove, ObservedLow, Behind, KnownBelow,
        Choosing, BelowChoice, Settled, SettledFor, KnownRows, Writing, Holding, Fresh, At, RevOf,
        Attempt, Final, Chosen, InMirror, Unresolved
<1>2. ASSUME NEW t \in Tab, Does(t) PROVE ChoiceInv'
  <2>1. Kind(t) BY <1>2, StepKind DEF ChoiceInv
  <2>2. OthersKept(t) BY <1>2, OwnMemory DEF Set, TypeOK, OthersKept
  <2> QED BY <2>1, <2>2, HeldStep, NumbersStep, BehindStep, ChoosingStep, SettledStep
      DEF ChoiceInv
<1> QED BY <1>1, <1>2 DEF Next, Does

(* A step that changes the memory of a tab is its own.                     *)
LEMMA OwnStep ==
  ASSUME TypeOK, ChoiceInv, [Next]_vars, NEW t \in Tab, tab'[t] # tab[t]
  PROVE  Kind(t)
<1>1. PICK u \in Tab : Does(u) BY DEF Next, Does, vars, ClockMoves
<1>2. u = t
  <2>1. PICK m : Set(u, m) BY <1>1, OwnMemory
  <2> QED BY <2>1 DEF Set, TypeOK
<1> QED BY <1>1, <1>2, StepKind DEF ChoiceInv

(* When its recovery is final, a reader selects the chosen copy.           *)
LEMMA FinalIsRead ==
  ASSUME TypeOK, ChoiceInv, [Next]_vars, NEW t \in Tab, At(t, "finalize"),
         tab'[t].job.pc = "clear"
  PROVE  Selected' = tab[t].job.copy.snap
<1>1. PICK w \in RecoveryJob : w = tab[t].job BY HoldingJob DEF At, Holding
<1>2. Kind(t)
  <2>1. tab'[t] # tab[t] BY DEF At
  <2> QED BY <2>1, OwnStep
<1>3. lock # None BY NamesDistinct DEF ChoiceInv, Held, Holding, At
<1>4. Settles(t)
  BY <1>2, <1>3 DEF Kind, Rests, Rereads, Readies, Lands, FallsBack, Mirrors, Writing,
       Refreshes, Picks, PutsChosen, CopiesChosen, Clears, At, Idle
<1>5. canonical' = Final(w) /\ mirror' = InMirror(Chosen(w))
  BY <1>1, <1>4 DEF Settles, ChoiceInv, Settled, SettledFor
<1>6. /\ Chosen(w).rev = w.rev /\ RevOf(Final(w)) = w.rev /\ w.rev \in Nat
      /\ Final(w).snap = w.copy.snap /\ Fresh(Final(w))
  BY RecoveryPlace
<1>7. InMirror(Chosen(w)).rev = w.rev BY <1>6 DEF InMirror
<1>8. RevOf(canonical)' = w.rev /\ SnapOf(canonical)' = w.copy.snap
  BY <1>5, <1>6 DEF RevOf, SnapOf, Fresh
<1>9. ~(mirror' # None /\ mirror'.rev > RevOf(canonical)') BY <1>5, <1>6, <1>7, <1>8
<1> QED BY <1>1, <1>8, <1>9 DEF Selected

(* Until it has ended, only a write that has read the chosen copy, or a    *)
(* later row, replaces it.                                                 *)
LEMMA FinalIsKept ==
  ASSUME TypeOK, TypeOK', ChoiceInv, [Next]_vars, NEW t \in Tab, At(t, "clear"),
         Selected' # Selected
  PROVE  \E u \in Tab \ {t} :
           At(u, "compare") /\ RevOf(tab[u].job.read) >= tab[t].job.rev
<1>1. PICK w \in RecoveryJob : w = tab[t].job BY HoldingJob DEF At, Holding
<1>2. ~UNCHANGED <<canonical, mirror>> BY DEF Selected, SnapOf, RevOf
<1>3. PICK u \in Tab : Does(u) BY <1>2 DEF Next, Does, vars, stored, ClockMoves
<1>4. Kind(u) BY <1>3, StepKind DEF ChoiceInv
<1>5. Holding(t) /\ lock = t /\ lock # None
  BY NamesDistinct DEF ChoiceInv, Held, Holding, At
<1>6. u # t
  BY <1>2, <1>4, <1>5 DEF Kind, Rests, Rereads, Readies, Lands, FallsBack, Mirrors, Writing,
       Refreshes, Picks, PutsChosen, CopiesChosen, Settles, Clears, At
<1>7. \/ Rests(u) \/ Lands(u) \/ FallsBack(u) \/ Refreshes(u) \/ Rereads(u) \/ Readies(u)
  BY <1>4, <1>5, <1>6, WhileHeld DEF ChoiceInv
<1>8. ~Refreshes(u)
  <2> SUFFICES ASSUME Refreshes(u) PROVE FALSE OBVIOUS
  <2>1. PICK x \in WriteJob : x = tab[u].job BY WriteNumbers DEF Refreshes, At, Writing
  <2>2. canonical = Attempt(x) /\ canonical' = [canonical EXCEPT !.obsolete = FALSE]
        /\ UNCHANGED mirror
    BY <2>1 DEF Refreshes
  <2>3. /\ canonical \in Row /\ canonical' \in Row /\ canonical'.rev = canonical.rev
        /\ canonical'.snap = canonical.snap
    BY <2>2, MadeTyped DEF Row
  <2> QED BY <2>2, <2>3, NamesDistinct DEF Selected, SnapOf, RevOf
<1>9. Lands(u) BY <1>2, <1>7, <1>8 DEF Rests, FallsBack, Rereads, Readies
<1>10. At(u, "compare") /\ canonical = tab[u].job.expects BY <1>9 DEF Lands
<1>11. ~(RevOf(tab[u].job.read) < w.rev)
  BY <1>1, <1>10 DEF ChoiceInv, Settled, SettledFor
<1>12. RevOf(tab[u].job.read) \in Nat /\ w.rev \in Nat
  BY <1>10, WriteNumbers, RecoveryPlace DEF At, Writing
<1> QED BY <1>1, <1>6, <1>10, <1>11, <1>12

(* In a browser with two tabs, when a recovery is final a reader selects   *)
(* the copy the user chose, and until it has ended only a write prepared   *)
(* after it changes what is read: the lock and the unresolved backup stop  *)
(* every write but the ones prepared before, and none of these expects     *)
(* the row that the recovery put.                                          *)
THEOREM ChosenIsReadHolds == TwoTabs => (Spec => ChosenIsRead)
<1> SUFFICES ASSUME TwoTabs PROVE Spec => ChosenIsRead OBVIOUS
<1> DEFINE Reads ==
      \A t \in Tab :
       /\ At(t, "finalize") /\ tab'[t].job.pc = "clear" => Selected' = tab[t].job.copy.snap
       /\ At(t, "clear") /\ Selected' # Selected
            => \E u \in Tab \ {t} :
                 At(u, "compare") /\ RevOf(tab[u].job.read) >= tab[t].job.rev
<1>1. TypeOK /\ TypeOK' /\ ChoiceInv /\ [Next]_vars => [Reads]_vars
  BY FinalIsRead, FinalIsKept
<1>2. TypeOK /\ TypeOK' /\ ChoiceInv /\ [Next]_vars => ChoiceInv' BY ChoiceNext
<1>3. [][Reads]_vars => ChosenIsRead BY PTL DEF ChosenIsRead
<1> HIDE DEF Reads
<1> QED BY <1>1, <1>2, <1>3, ChoiceInit, TypeCorrect, PTL DEF Spec

-----------------------------------------------------------------------------
(* Dinners: the types.                                                     *)
Pairing == User \cap House = {} /\ User \subseteq Scope /\ House \subseteq Scope

LEMMA ScopesApart == Pairing
BY ScopesDistinct DEF Pairing, Scope

LEMMA ScopeOfTyped ==
  ASSUME DCTypeOK, NEW u \in User
  PROVE  /\ ScopeOf(u) \in Scope
         /\ member[u] # NoHouse => member[u] \in House
BY ScopesApart DEF DCTypeOK, ScopeOf, Pairing

LEMMA AccountTyped == ASSUME NEW dv \in Device PROVE Owner[dv] \in User /\ Account(dv) \in User
BY OwnerTyped DEF Account

LEMMA TickTyped ==
  ASSUME DCTypeOK, Tick
  PROVE  now' \in 0 .. MaxTime /\ now' >= 1
BY DCBoundsTyped DEF DCTypeOK, Tick

(* What the mutations of a queue leave of a row.                           *)
LEMMA WrittenIs ==
  ASSUME NEW s, NEW Q, NEW i \in Item
  PROVE  \/ Written(s, Q)[i] = row[s][i]
         \/ \E e \in Q :
              /\ e.item = i
              /\ Written(s, Q)[i] = [st |-> IF e.op = "delete" THEN "deleted" ELSE "alive",
                                     at |-> e.at]
<1> DEFINE of == {e \in Q : e.item = i /\ \A f \in Q : f.item = i => f.at <= e.at}
           e  == CHOOSE e \in of : TRUE
           new == [st |-> IF e.op = "delete" THEN "deleted" ELSE "alive", at |-> e.at]
<1>1. Written(s, Q)[i] = IF of = {} THEN row[s][i]
                         ELSE IF e.at < row[s][i].at THEN row[s][i] ELSE new
  BY DEF Written
<1>2. of # {} => e \in of OBVIOUS
<1>3. e \in of => e \in Q /\ e.item = i OBVIOUS
<1> HIDE DEF e
<1> QED BY <1>1, <1>2, <1>3

LEMMA WrittenTyped ==
  ASSUME DCTypeOK, NEW s \in Scope, NEW Q, Q \subseteq QueuedChange
  PROVE  Written(s, Q) \in [Item -> ItemRow]
<1>1. ASSUME NEW i \in Item PROVE Written(s, Q)[i] \in ItemRow
  <2>1. row[s][i] \in ItemRow BY DEF DCTypeOK
  <2>2. ASSUME NEW e \in Q
        PROVE  [st |-> IF e.op = "delete" THEN "deleted" ELSE "alive", at |-> e.at] \in ItemRow
    BY DEF QueuedChange, ItemRow
  <2>3. \/ Written(s, Q)[i] = row[s][i]
        \/ \E e \in Q :
             Written(s, Q)[i] = [st |-> IF e.op = "delete" THEN "deleted" ELSE "alive",
                                 at |-> e.at]
    BY WrittenIs
  <2> QED BY <2>1, <2>2, <2>3
<1> DEFINE f(i) == Written(s, Q)[i]
<1>2. Written(s, Q) = [i \in Item |-> f(i)] BY DEF Written
<1> HIDE DEF f
<1> QED BY <1>1, <1>2 DEF f

(* A row of the house after a move: that of the house or of the account,   *)
(* the newer of the two, perhaps alive again.                              *)
LEMMA MergedIs ==
  ASSUME NEW theirs \in [Item -> ItemRow], NEW own \in [Item -> ItemRow], NEW i \in Item
  PROVE  /\ Merged(theirs, own)[i] \in ItemRow
         /\ i \in Dinner => Merged(theirs, own)[i] =
                              IF own[i].at > theirs[i].at THEN own[i] ELSE theirs[i]
         /\ Merged(theirs, own)[i].at =
              IF own[i].at > theirs[i].at THEN own[i].at ELSE theirs[i].at
         /\ \/ Merged(theirs, own)[i].st = "alive" /\ "alive" \in {own[i].st, theirs[i].st}
            \/ Merged(theirs, own)[i] = IF own[i].at > theirs[i].at THEN own[i] ELSE theirs[i]
<1> DEFINE newer == IF own[i].at > theirs[i].at THEN own[i] ELSE theirs[i]
<1>1. newer \in ItemRow OBVIOUS
<1>2. Merged(theirs, own)[i] = IF i = Lot /\ "alive" \in {own[i].st, theirs[i].st}
                               THEN [newer EXCEPT !.st = "alive"] ELSE newer
  BY DEF Merged
<1>3. i \in Dinner => i # Lot BY DCNamesDistinct
<1>4. newer.at = IF own[i].at > theirs[i].at THEN own[i].at ELSE theirs[i].at OBVIOUS
<1> HIDE DEF newer
<1>5. /\ [newer EXCEPT !.st = "alive"] \in ItemRow
      /\ [newer EXCEPT !.st = "alive"].at = newer.at
      /\ [newer EXCEPT !.st = "alive"].st = "alive"
  BY <1>1 DEF ItemRow
<1>6. Merged(theirs, own)[i] \in ItemRow BY <1>1, <1>2, <1>5
<1>7. Merged(theirs, own)[i].at = newer.at BY <1>2, <1>5
<1>8. i \in Dinner => Merged(theirs, own)[i] = newer BY <1>2, <1>3
<1>9. \/ Merged(theirs, own)[i].st = "alive" /\ "alive" \in {own[i].st, theirs[i].st}
      \/ Merged(theirs, own)[i] = newer
  BY <1>2, <1>5
<1> QED BY <1>4, <1>6, <1>7, <1>8, <1>9 DEF newer

LEMMA MergedTyped ==
  ASSUME NEW theirs \in [Item -> ItemRow], NEW own \in [Item -> ItemRow]
  PROVE  Merged(theirs, own) \in [Item -> ItemRow]
<1> DEFINE f(i) == Merged(theirs, own)[i]
<1>1. Merged(theirs, own) = [i \in Item |-> f(i)] BY DEF Merged
<1>2. \A i \in Item : f(i) \in ItemRow BY MergedIs
<1> HIDE DEF f
<1> QED BY <1>1, <1>2

LEMMA NoRowTyped == NoRow \in ItemRow
BY DCBoundsTyped DEF NoRow, ItemRow

LEMMA ReceiptsMovedAre ==
  ASSUME DCTypeOK, NEW u \in User, NEW h \in House
  PROVE  /\ ReceiptsMoved(u, h) \in [Scope -> SUBSET Dinner]
         /\ ReceiptsMoved(u, h)[u] = {}
         /\ ReceiptsMoved(u, h)[h] = receipt[h] \cup receipt[u]
         /\ \A s \in Scope \ {u, h} : ReceiptsMoved(u, h)[s] = receipt[s]
<1>1. u # h /\ u \in Scope /\ h \in Scope BY ScopesApart DEF Pairing
<1>2. receipt \in [Scope -> SUBSET Dinner] BY DEF DCTypeOK
<1> QED BY <1>1, <1>2 DEF ReceiptsMoved

(* The move of an account into its house.                                  *)
LEMMA MigrateIs ==
  ASSUME DCTypeOK, NEW u \in User, member[u] \in House, NEW Q, Q \subseteq QueuedChange,
         Migrate(u, Q)
  PROVE  LET h == member[u]
         IN  /\ u # h /\ u \in Scope /\ h \in Scope
             /\ row' \in [Scope -> [Item -> ItemRow]]
             /\ row'[u] = [i \in Item |-> NoRow]
             /\ row'[h] = Merged(row[h], Written(u, Q))
             /\ \A s \in Scope \ {u, h} : row'[s] = row[s]
             /\ receipt' \in [Scope -> SUBSET Dinner]
             /\ receipt'[u] = {}
             /\ receipt'[h] = receipt[h] \cup receipt[u]
             /\ \A s \in Scope \ {u, h} : receipt'[s] = receipt[s]
             /\ takings' \subseteq [d : Dinner, scope : Scope, at : 0 .. MaxTime]
             /\ \A x \in takings' : \E y \in takings :
                   /\ x.d = y.d /\ x.at = y.at
                   /\ x = IF y.scope = u THEN [y EXCEPT !.scope = h] ELSE y
                   /\ x.scope = IF y.scope = u THEN h ELSE y.scope
             /\ UNCHANGED <<member, closed, wiped>>
<1> DEFINE h == member[u]
<1>1. u # h /\ u \in Scope /\ h \in Scope BY ScopesApart DEF Pairing
<1>2. UNCHANGED <<member, closed, wiped>> BY DEF Migrate
<1>3. row' = [row EXCEPT ![u] = [i \in Item |-> NoRow], ![h] = Merged(row[h], Written(u, Q))]
  BY DEF Migrate
<1>4. receipt' = ReceiptsMoved(u, h) BY DEF Migrate
<1>5. takings' = {IF x.scope = u THEN [x EXCEPT !.scope = h] ELSE x : x \in takings}
  BY DEF Migrate
<1> HIDE DEF h
<1>6. h \in House BY DEF h
<1>7. row \in [Scope -> [Item -> ItemRow]] BY DEF DCTypeOK
<1>8. Written(u, Q) \in [Item -> ItemRow] BY <1>1, WrittenTyped
<1>9. Merged(row[h], Written(u, Q)) \in [Item -> ItemRow] BY <1>1, <1>7, <1>8, MergedTyped
<1>10. [i \in Item |-> NoRow] \in [Item -> ItemRow] BY NoRowTyped
<1>11. /\ row' \in [Scope -> [Item -> ItemRow]]
       /\ row'[u] = [i \in Item |-> NoRow]
       /\ row'[h] = Merged(row[h], Written(u, Q))
       /\ \A s \in Scope \ {u, h} : row'[s] = row[s]
  BY <1>1, <1>3, <1>7, <1>9, <1>10
<1>12. /\ receipt' \in [Scope -> SUBSET Dinner]
       /\ receipt'[u] = {}
       /\ receipt'[h] = receipt[h] \cup receipt[u]
       /\ \A s \in Scope \ {u, h} : receipt'[s] = receipt[s]
  BY <1>4, <1>6, ReceiptsMovedAre
<1>13. \A y \in takings :
         /\ y \in [d : Dinner, scope : Scope, at : 0 .. MaxTime]
         /\ [y EXCEPT !.scope = h] \in [d : Dinner, scope : Scope, at : 0 .. MaxTime]
         /\ [y EXCEPT !.scope = h].d = y.d /\ [y EXCEPT !.scope = h].at = y.at
         /\ [y EXCEPT !.scope = h].scope = h
  BY <1>1 DEF DCTypeOK
<1>14. \A x \in takings' : \E y \in takings :
         /\ x.d = y.d /\ x.at = y.at
         /\ x = IF y.scope = u THEN [y EXCEPT !.scope = h] ELSE y
         /\ x.scope = IF y.scope = u THEN h ELSE y.scope
         /\ x \in [d : Dinner, scope : Scope, at : 0 .. MaxTime]
  <2> SUFFICES ASSUME NEW x \in takings'
               PROVE \E y \in takings :
                       /\ x.d = y.d /\ x.at = y.at
                       /\ x = IF y.scope = u THEN [y EXCEPT !.scope = h] ELSE y
                       /\ x.scope = IF y.scope = u THEN h ELSE y.scope
                       /\ x \in [d : Dinner, scope : Scope, at : 0 .. MaxTime]
    OBVIOUS
  <2>1. PICK y \in takings : x = IF y.scope = u THEN [y EXCEPT !.scope = h] ELSE y BY <1>5
  <2>2. CASE y.scope = u BY <1>13, <2>1, <2>2
  <2>3. CASE y.scope # u BY <1>13, <2>1, <2>3
  <2> QED BY <2>2, <2>3
<1>15. takings' \subseteq [d : Dinner, scope : Scope, at : 0 .. MaxTime] BY <1>14
<1>16. \A x \in takings' : \E y \in takings :
         /\ x.d = y.d /\ x.at = y.at
         /\ x = IF y.scope = u THEN [y EXCEPT !.scope = h] ELSE y
         /\ x.scope = IF y.scope = u THEN h ELSE y.scope
  BY <1>14
<1> QED BY <1>1, <1>2, <1>11, <1>12, <1>15, <1>16 DEF h

(* Each action keeps the types.                                            *)
LEMMA ChangeTyped ==
  ASSUME DCTypeOK, NEW dv \in Device, NEW i \in Item, NEW op \in {"upsert", "delete"},
         Change(dv, i, op)
  PROVE  DCTypeOK'
<1> DEFINE new == [scope |-> active[dv], item |-> i, op |-> op, at |-> now']
<1>1. now' \in 0 .. MaxTime BY TickTyped DEF Change
<1>2. new \in QueuedChange BY <1>1 DEF DCTypeOK, QueuedChange
<1>3. changes' \in 0 .. MaxChanges BY DCBoundsTyped DEF Change, DCTypeOK
<1>4. held' \in [Device -> [Scope -> SUBSET Item]] BY DEF Change, DCTypeOK
<1>5. queue' = [queue EXCEPT ![dv] = @ \cup {new}] BY DEF Change
<1>6. UNCHANGED <<server, active, box, answer, paging, unsent>> BY DEF Change
<1> HIDE DEF new
<1>7. queue' \in [Device -> SUBSET QueuedChange] BY <1>2, <1>5 DEF DCTypeOK
<1> QED BY <1>1, <1>3, <1>4, <1>6, <1>7 DEF DCTypeOK, server

LEMMA ConfirmTyped ==
  ASSUME DCTypeOK, NEW dv \in Device, NEW d \in Dinner, Confirm(dv, d)
  PROVE  DCTypeOK'
<1> DEFINE new == [st |-> "pending", scope |-> active[dv], at |-> now',
                   lot |-> Lot \in held[dv][active[dv]]]
<1>1. now' \in 0 .. MaxTime BY TickTyped DEF Confirm
<1>2. (Lot \in held[dv][active[dv]]) \in BOOLEAN OBVIOUS
<1>3. new \in OutboxRecord BY <1>1, <1>2 DEF DCTypeOK, OutboxRecord
<1>4. box' = [box EXCEPT ![dv][d] = new] BY DEF Confirm
<1>5. d \in Item BY DEF Item
<1>6. held' \in [Device -> [Scope -> SUBSET Item]] BY <1>5 DEF Confirm, DCTypeOK
<1>7. UNCHANGED <<server, active, queue, answer, paging, changes, unsent>> BY DEF Confirm
<1> HIDE DEF new
<1>8. box' \in [Device -> [Dinner -> {NoRecord} \cup OutboxRecord]] BY <1>3, <1>4 DEF DCTypeOK
<1> QED BY <1>1, <1>6, <1>7, <1>8 DEF DCTypeOK, server

(* A flush consumes the dinner, or finds that it was consumed.             *)
FlushNew(dv, d) ==
  /\ Tick /\ ~Receipted(d)
  /\ row' = [row EXCEPT ![active[dv]] = Taken(active[dv], d)]
  /\ receipt' = [receipt EXCEPT ![active[dv]] = @ \cup {d}]
  /\ takings' = takings \cup {[d |-> d, scope |-> active[dv], at |-> now']}

FlushAgain(dv, d) ==
  /\ d \in receipt[active[dv]]
  /\ UNCHANGED <<row, receipt, takings, now>>

LEMMA FlushIs ==
  ASSUME DCTypeOK, NEW dv \in Device, NEW d \in Dinner, Flush(dv, d)
  PROVE  /\ FlushNew(dv, d) \/ FlushAgain(dv, d)
         /\ \/ \E lot \in BOOLEAN : answer' = [answer EXCEPT ![dv] =
                 [st |-> "answer", d |-> d, scope |-> active[dv], lot |-> lot]]
            \/ UNCHANGED answer
         /\ UNCHANGED <<member, closed, wiped, active, held, box, queue, paging, changes, unsent>>
<1>1. Verdict(active[dv], d) # "conflict" BY DEF Flush
<1>2. CASE Verdict(active[dv], d) = "new"
  <2>1. ~Receipted(d) BY <1>2 DEF Verdict
  <2>2. FlushNew(dv, d) BY <1>2, <2>1 DEF Flush, FlushNew
  <2> QED BY <2>2 DEF Flush
<1>3. CASE Verdict(active[dv], d) # "new"
  <2>1. d \in receipt[active[dv]] BY <1>1, <1>3 DEF Verdict
  <2>2. FlushAgain(dv, d) BY <1>3, <2>1 DEF Flush, FlushAgain
  <2> QED BY <2>2 DEF Flush
<1> QED BY <1>2, <1>3

LEMMA FlushNewTyped ==
  ASSUME DCTypeOK, NEW dv \in Device, NEW d \in Dinner, FlushNew(dv, d)
  PROVE  /\ now' \in 0 .. MaxTime
         /\ row' \in [Scope -> [Item -> ItemRow]]
         /\ receipt' \in [Scope -> SUBSET Dinner]
         /\ takings' \subseteq [d : Dinner, scope : Scope, at : 0 .. MaxTime]
<1> DEFINE s == active[dv]
<1>1. s \in Scope BY DEF DCTypeOK
<1>2. now' \in 0 .. MaxTime BY TickTyped DEF FlushNew
<1>3. [st |-> "alive", at |-> now'] \in ItemRow BY <1>2 DEF ItemRow
<1>4. Taken(s, d) \in [Item -> ItemRow] BY <1>1, <1>3 DEF DCTypeOK, Taken
<1>5. row' \in [Scope -> [Item -> ItemRow]] BY <1>4 DEF DCTypeOK, FlushNew
<1>6. receipt' \in [Scope -> SUBSET Dinner] BY DEF DCTypeOK, FlushNew
<1>7. takings' \subseteq [d : Dinner, scope : Scope, at : 0 .. MaxTime]
  BY <1>1, <1>2 DEF DCTypeOK, FlushNew
<1> QED BY <1>2, <1>5, <1>6, <1>7

LEMMA FlushTyped ==
  ASSUME DCTypeOK, NEW dv \in Device, NEW d \in Dinner, Flush(dv, d)
  PROVE  DCTypeOK'
<1>1. /\ now' \in 0 .. MaxTime
      /\ row' \in [Scope -> [Item -> ItemRow]]
      /\ receipt' \in [Scope -> SUBSET Dinner]
      /\ takings' \subseteq [d : Dinner, scope : Scope, at : 0 .. MaxTime]
  <2>1. CASE FlushNew(dv, d) BY <2>1, FlushNewTyped
  <2>2. CASE FlushAgain(dv, d) BY <2>2 DEF FlushAgain, DCTypeOK
  <2> QED BY <2>1, <2>2, FlushIs
<1>2. answer' \in [Device -> {NoAnswer} \cup AnswerFound]
  <2>1. \A lot \in BOOLEAN :
          [st |-> "answer", d |-> d, scope |-> active[dv], lot |-> lot] \in AnswerFound
    BY DEF DCTypeOK, AnswerFound
  <2>2. CASE UNCHANGED answer BY <2>2 DEF DCTypeOK
  <2>3. ASSUME NEW lot \in BOOLEAN,
               answer' = [answer EXCEPT ![dv] =
                            [st |-> "answer", d |-> d, scope |-> active[dv], lot |-> lot]]
        PROVE  answer' \in [Device -> {NoAnswer} \cup AnswerFound]
    BY <2>1, <2>3 DEF DCTypeOK
  <2> QED BY <2>2, <2>3, FlushIs
<1>3. UNCHANGED <<member, closed, wiped, active, held, box, queue, paging, changes, unsent>>
  BY FlushIs
<1> QED BY <1>1, <1>2, <1>3 DEF DCTypeOK

LEMMA JoinTyped ==
  ASSUME DCTypeOK, NEW u \in User, NEW h \in House, Join(u, h)
  PROVE  DCTypeOK'
BY DEF Join, DCTypeOK

LEMMA TransferTyped ==
  ASSUME DCTypeOK, NEW u \in User, Transfer(u)
  PROVE  DCTypeOK'
<1>1. member[u] \in House /\ Migrate(u, {}) BY ScopeOfTyped DEF Transfer
<1>2. UNCHANGED <<active, held, box, queue, answer, paging, now, changes, unsent>>
  BY DEF Transfer
<1>3. {} \subseteq QueuedChange OBVIOUS
<1> QED BY <1>1, <1>2, <1>3, MigrateIs DEF DCTypeOK

LEMMA LeaveTyped ==
  ASSUME DCTypeOK, NEW u \in User, Leave(u)
  PROVE  DCTypeOK'
<1> DEFINE h == member[u]
<1>1. h \in House /\ h \in Scope BY ScopeOfTyped, ScopesApart DEF Leave, Pairing
<1>2. member' \in [User -> House \cup {NoHouse}] BY DEF Leave, DCTypeOK
<1>3. UNCHANGED <<active, held, box, queue, answer, paging, now, changes, unsent>>
  BY DEF Leave
<1>4. [i \in Item |-> NoRow] \in [Item -> ItemRow] BY NoRowTyped
<1>5. /\ row' \in [Scope -> [Item -> ItemRow]]
      /\ receipt' \in [Scope -> SUBSET Dinner]
      /\ takings' \subseteq [d : Dinner, scope : Scope, at : 0 .. MaxTime]
      /\ closed' \subseteq House /\ wiped' \subseteq Dinner
  <2>1. CASE UNCHANGED <<row, receipt, closed, takings, wiped>> BY <2>1 DEF DCTypeOK
  <2>2. CASE ~UNCHANGED <<row, receipt, closed, takings, wiped>>
    <3>1. /\ row' = [row EXCEPT ![h] = [i \in Item |-> NoRow]]
          /\ receipt' = ReceiptsWithout(h)
          /\ closed' = closed \cup {h}
          /\ takings' = {x \in takings : x.scope # h}
          /\ wiped' = wiped \cup receipt[h]
      BY <2>2 DEF Leave
    <3>2. row' \in [Scope -> [Item -> ItemRow]] BY <1>4, <3>1 DEF DCTypeOK
    <3> QED BY <1>1, <3>1, <3>2 DEF DCTypeOK, ReceiptsWithout
  <2> QED BY <2>1, <2>2
<1> QED BY <1>2, <1>3, <1>5 DEF DCTypeOK

LEMMA ReconcileTyped ==
  ASSUME DCTypeOK, NEW dv \in Device, Reconcile(dv)
  PROVE  DCTypeOK'
<1> DEFINE d    == answer[dv].d
           from == box[dv][d].scope
           to   == answer[dv].scope
           old  == {e \in queue[dv] : Superseded(dv, d, e)}
           keeps == [s \in Scope |->
             IF s = to THEN (held[dv][s] \ {Lot}) \cup {d} \cup IF answer[dv].lot THEN {Lot} ELSE {}
             ELSE IF s = from THEN held[dv][s] \ {d} ELSE held[dv][s]]
<1>1. answer[dv] \in AnswerFound BY DEF Reconcile, DCTypeOK
<1>2. d \in Dinner /\ to \in Scope BY <1>1 DEF AnswerFound
<1>3. held' = [held EXCEPT ![dv] = keeps] BY DEF Reconcile
<1>4. box' = [box EXCEPT ![dv][d].st = "acknowledged", ![dv][d].scope = to] BY DEF Reconcile
<1>5. queue' = [queue EXCEPT ![dv] = @ \ old] /\ unsent' = unsent \cup old BY DEF Reconcile
<1>6. answer' = [answer EXCEPT ![dv] = NoAnswer] BY DEF Reconcile
<1>7. UNCHANGED <<server, active, paging, now, changes>> BY DEF Reconcile
<1>8. keeps \in [Scope -> SUBSET Item]
  <2>1. d \in Item /\ Lot \in Item BY <1>2 DEF Item
  <2>2. \A s \in Scope : held[dv][s] \subseteq Item BY DEF DCTypeOK
  <2> HIDE DEF d, to, from
  <2> QED BY <2>1, <2>2
<1>9. old \subseteq QueuedChange BY DEF DCTypeOK
<1>10. box[dv][d] \in OutboxRecord
  <2>1. box[dv][d].st = "pending" BY DEF Reconcile, SameContext, Pending
  <2>2. box[dv][d] \in {NoRecord} \cup OutboxRecord BY <1>2 DEF DCTypeOK
  <2> QED BY <2>1, <2>2 DEF NoRecord
<1> HIDE DEF d, from, to, old, keeps
<1>11. box' \in [Device -> [Dinner -> {NoRecord} \cup OutboxRecord]]
  <2>1. [box[dv][d] EXCEPT !.st = "acknowledged", !.scope = to] \in OutboxRecord
    BY <1>2, <1>10 DEF OutboxRecord
  <2>2. box' = [box EXCEPT ![dv] = [box[dv] EXCEPT ![d] =
                  [box[dv][d] EXCEPT !.st = "acknowledged", !.scope = to]]]
    BY <1>2, <1>4 DEF DCTypeOK
  <2>3. [box[dv] EXCEPT ![d] = [box[dv][d] EXCEPT !.st = "acknowledged", !.scope = to]]
           \in [Dinner -> {NoRecord} \cup OutboxRecord]
    BY <1>2, <2>1 DEF DCTypeOK
  <2> QED BY <2>2, <2>3 DEF DCTypeOK
<1>12. held' \in [Device -> [Scope -> SUBSET Item]] BY <1>3, <1>8 DEF DCTypeOK
<1>13. queue' \in [Device -> SUBSET QueuedChange] /\ unsent' \subseteq QueuedChange
  BY <1>5, <1>9 DEF DCTypeOK
<1>14. answer' \in [Device -> {NoAnswer} \cup AnswerFound] BY <1>6 DEF DCTypeOK
<1> QED BY <1>7, <1>11, <1>12, <1>13, <1>14 DEF DCTypeOK, server

LEMMA RunTyped ==
  ASSUME DCTypeOK, NEW dv \in Device, Discard(dv) \/ Flushed(dv) \/ Finish(dv)
  PROVE  DCTypeOK'
<1>1. CASE Discard(dv) BY <1>1 DEF Discard, DCTypeOK, server
<1>2. CASE Flushed(dv) BY <1>2 DEF Flushed, DCTypeOK, server
<1>3. CASE Finish(dv) BY <1>3 DEF Finish, DCTypeOK, server
<1> QED BY <1>1, <1>2, <1>3

LEMMA ImportableTyped ==
  ASSUME DCTypeOK, NEW dv \in Device
  PROVE  Importable(dv) \subseteq QueuedChange
BY DEF DCTypeOK, Importable

LEMMA ImportTyped ==
  ASSUME DCTypeOK, NEW dv \in Device, Import(dv)
  PROVE  DCTypeOK'
<1> DEFINE u == Owner[dv]
           Q == Importable(dv)
<1>1. u \in User /\ Account(dv) \in User BY AccountTyped
<1>2. member[u] \in House BY <1>1, ScopesApart DEF Import, Admitted, ScopeOf, Pairing, DCTypeOK
<1>3. Q \subseteq QueuedChange BY ImportableTyped
<1>4. Migrate(u, Q) BY DEF Import
<1>5. queue' = [queue EXCEPT ![dv] = @ \ Q] BY DEF Import
<1>6. UNCHANGED <<active, held, box, answer, paging, now, changes, unsent>> BY DEF Import
<1> HIDE DEF u, Q
<1>7. queue' \in [Device -> SUBSET QueuedChange] BY <1>5 DEF DCTypeOK
<1> QED BY <1>1, <1>2, <1>3, <1>4, <1>6, <1>7, MigrateIs DEF DCTypeOK

LEMMA EnterTyped ==
  ASSUME DCTypeOK, NEW dv \in Device, Enter(dv)
  PROVE  DCTypeOK'
<1> DEFINE u == Owner[dv]
           Q == Importable(dv)
<1>1. u \in User BY AccountTyped
<1>2. member[u] \in House /\ member[u] \in Scope
  BY <1>1, ScopeOfTyped, ScopesApart DEF Enter, Pairing
<1>3. Q \subseteq QueuedChange BY ImportableTyped
<1>4. Migrate(u, Q) BY DEF Enter
<1>5. queue' = [queue EXCEPT ![dv] = @ \ Q] BY DEF Enter
<1>6. active' = [active EXCEPT ![dv] = member[u]] BY DEF Enter
<1>7. held' \in [Device -> [Scope -> SUBSET Item]] BY DEF Enter, DCTypeOK
<1>8. paging' \subseteq Device BY DEF Enter, DCTypeOK
<1>9. UNCHANGED <<box, answer, now, changes, unsent>> BY DEF Enter
<1> HIDE DEF u, Q
<1>10. queue' \in [Device -> SUBSET QueuedChange] BY <1>5 DEF DCTypeOK
<1>11. active' \in [Device -> Scope] BY <1>2, <1>6 DEF DCTypeOK
<1> QED
  BY <1>1, <1>2, <1>3, <1>4, <1>7, <1>8, <1>9, <1>10, <1>11, MigrateIs DEF DCTypeOK

LEMMA PageTyped ==
  ASSUME DCTypeOK, NEW dv \in Device, Page(dv)
  PROVE  DCTypeOK'
<1> DEFINE s == active[dv]
           Q == {e \in queue[dv] : e.scope = s}
           shown == {i \in Item : \/ row'[s][i].st = "alive"
                                  \/ row'[s][i] = NoRow /\ i \in held[dv][s]}
<1>1. s \in Scope BY DEF DCTypeOK
<1>2. Q \subseteq QueuedChange BY DEF DCTypeOK
<1>3. row' = [row EXCEPT ![s] = Written(s, Q)] BY DEF Page
<1>4. held' = [held EXCEPT ![dv][s] = shown] BY DEF Page
<1>5. queue' \in [Device -> SUBSET QueuedChange] BY DEF Page, DCTypeOK
<1>6. UNCHANGED <<member, receipt, closed, takings, wiped, active, box, answer, paging,
                  now, changes, unsent>>
  BY DEF Page
<1>7. Written(s, Q) \in [Item -> ItemRow] BY <1>1, <1>2, WrittenTyped
<1>8. row' \in [Scope -> [Item -> ItemRow]] BY <1>3, <1>7 DEF DCTypeOK
<1>9. shown \subseteq Item OBVIOUS
<1> HIDE DEF s, Q, shown
<1>10. held' \in [Device -> [Scope -> SUBSET Item]] BY <1>1, <1>4, <1>9 DEF DCTypeOK
<1> QED BY <1>5, <1>6, <1>8, <1>10 DEF DCTypeOK

LEMMA PurgeTyped ==
  ASSUME DCTypeOK, NEW dv \in Device, Purge(dv)
  PROVE  DCTypeOK'
<1> DEFINE h == active[dv]
           boxed == [d \in Dinner |-> IF box[dv][d] # NoRecord /\ box[dv][d].scope = h
                                      THEN NoRecord ELSE box[dv][d]]
<1>1. h \in Scope /\ Account(dv) \in Scope BY AccountTyped, ScopesApart DEF DCTypeOK, Pairing
<1>2. active' \in [Device -> Scope] BY <1>1 DEF Purge, DCTypeOK
<1>3. held' \in [Device -> [Scope -> SUBSET Item]] BY DEF Purge, DCTypeOK
<1>4. queue' \in [Device -> SUBSET QueuedChange] BY DEF Purge, DCTypeOK
<1>5. box' = [box EXCEPT ![dv] = boxed] BY DEF Purge
<1>6. boxed \in [Dinner -> {NoRecord} \cup OutboxRecord] BY DEF DCTypeOK
<1>7. paging' \subseteq Device BY DEF Purge, DCTypeOK
<1>8. UNCHANGED <<server, answer, now, changes, unsent>> BY DEF Purge
<1> HIDE DEF boxed
<1>9. box' \in [Device -> [Dinner -> {NoRecord} \cup OutboxRecord]] BY <1>5, <1>6 DEF DCTypeOK
<1> QED BY <1>2, <1>3, <1>4, <1>7, <1>8, <1>9 DEF DCTypeOK, server

LEMMA DCTypeInit == DCInit => DCTypeOK
<1> SUFFICES ASSUME DCInit PROVE DCTypeOK OBVIOUS
<1>1. active \in [Device -> Scope]
  <2>1. \A dv \in Device : ScopeOf(Owner[dv]) \in Scope
    BY OwnerTyped, ScopesApart DEF DCInit, ScopeOf, Pairing
  <2> QED BY <2>1 DEF DCInit
<1>2. row \in [Scope -> [Item -> ItemRow]] BY NoRowTyped DEF DCInit
<1> QED BY <1>1, <1>2, DCBoundsTyped DEF DCInit, DCTypeOK

LEMMA DCTypeNext == DCTypeOK /\ [DCNext]_DCvars => DCTypeOK'
<1> SUFFICES ASSUME DCTypeOK, [DCNext]_DCvars PROVE DCTypeOK' OBVIOUS
<1>1. CASE UNCHANGED DCvars BY <1>1 DEF DCvars, DCTypeOK
<1> QED
  BY <1>1, ChangeTyped, ConfirmTyped, FlushTyped, JoinTyped, TransferTyped, LeaveTyped,
     ReconcileTyped, RunTyped, ImportTyped, PageTyped, EnterTyped, PurgeTyped
  DEF DCNext

(* Server and devices keep values of their kinds: a receipt, a record or an *)
(* answer is only looked into where there is one (DCTypeOK).               *)
THEOREM DCTypeCorrect == DCSpec => []DCTypeOK
BY DCTypeInit, DCTypeNext, PTL DEF DCSpec

-----------------------------------------------------------------------------
(* Dinners: a dinner is taken once, and its receipt goes along.            *)
(* What was taken from a scope's pantry has its receipt in that scope.     *)
Covered == \A x \in takings : x.d \in receipt[x.scope]

(* A dinner a device is about to acknowledge has its receipt.              *)
AnswersReceipted ==
  \A dv \in Device :
    answer[dv] # NoAnswer => Receipted(answer[dv].d) \/ answer[dv].d \in wiped

(* A row that exists is newer than none, and so is a mutation.             *)
RowsDated   == \A s \in Scope, i \in Item : row[s][i] = NoRow \/ row[s][i].at >= 1
QueuesDated == \A dv \in Device : \A e \in queue[dv] : e.at >= 1

DinnerInv == /\ Covered /\ TakenOnce /\ RowsDated /\ QueuesDated
             /\ AnswersReceipted /\ ReceiptsGoAlong

(* What a step does to rows and receipts: nothing, a consumption, a move,  *)
(* mutations written to a scope, or the end of a house.                    *)
Moves == \E u \in User, Q \in SUBSET QueuedChange :
  /\ member[u] \in House /\ Migrate(u, Q)
  /\ \A e \in Q : \E dv \in Device : e \in queue[dv]

Consumes == \E dv \in Device, d \in Dinner : FlushNew(dv, d) /\ UNCHANGED wiped

Writes == \E dv \in Device :
  /\ row' = [row EXCEPT ![active[dv]] =
               Written(active[dv], {e \in queue[dv] : e.scope = active[dv]})]
  /\ UNCHANGED <<receipt, takings, wiped>>

Ends == \E h \in House :
  /\ row' = [row EXCEPT ![h] = [i \in Item |-> NoRow]]
  /\ receipt' = ReceiptsWithout(h)
  /\ takings' = {x \in takings : x.scope # h}
  /\ wiped' = wiped \cup receipt[h]

Stays == UNCHANGED <<row, receipt, takings, wiped>>

LEMMA MovesIn ==
  ASSUME DCTypeOK, NEW dv \in Device, member[Owner[dv]] \in House,
         Migrate(Owner[dv], Importable(dv))
  PROVE  Moves
<1>1. \A e \in Importable(dv) : e \in queue[dv] BY DEF Importable
<1>2. Importable(dv) \subseteq QueuedChange BY ImportableTyped
<1> QED BY <1>1, <1>2, AccountTyped DEF Moves

LEMMA ServerSteps ==
  ASSUME DCTypeOK, [DCNext]_DCvars
  PROVE  Moves \/ Consumes \/ Writes \/ Ends \/ Stays
<1>1. CASE UNCHANGED DCvars BY <1>1 DEF DCvars, Stays
<1>2. ASSUME NEW dv \in Device, NEW i \in Item, NEW op \in {"upsert", "delete"}, Change(dv, i, op)
      PROVE  Stays
  BY <1>2 DEF Change, server, Stays
<1>3. ASSUME NEW dv \in Device, NEW d \in Dinner, Confirm(dv, d) PROVE Stays
  BY <1>3 DEF Confirm, server, Stays
<1>4. ASSUME NEW dv \in Device, NEW d \in Dinner, Flush(dv, d) PROVE Consumes \/ Stays
  BY <1>4, FlushIs DEF FlushAgain, Consumes, Stays
<1>5. ASSUME NEW u \in User, NEW h \in House, Join(u, h) PROVE Stays
  BY <1>5 DEF Join, Stays
<1>6. ASSUME NEW u \in User, Transfer(u) PROVE Moves
  BY <1>6, ScopeOfTyped DEF Transfer, Moves
<1>7. ASSUME NEW u \in User, Leave(u) PROVE Ends \/ Stays
  BY <1>7, ScopeOfTyped DEF Leave, Ends, Stays
<1>8. ASSUME NEW dv \in Device,
             Reconcile(dv) \/ Discard(dv) \/ Flushed(dv) \/ Finish(dv) \/ Purge(dv)
      PROVE  Stays
  BY <1>8 DEF Reconcile, Discard, Flushed, Finish, Purge, server, Stays
<1>9. ASSUME NEW dv \in Device, Import(dv) PROVE Moves
  <2>1. member[Owner[dv]] \in House
    BY <1>9, AccountTyped, ScopesApart DEF Import, Admitted, ScopeOf, Pairing, DCTypeOK
  <2> QED BY <1>9, <2>1, MovesIn DEF Import
<1>10. ASSUME NEW dv \in Device, Enter(dv) PROVE Moves
  BY <1>10, AccountTyped, ScopeOfTyped, MovesIn DEF Enter
<1>11. ASSUME NEW dv \in Device, Page(dv) PROVE Writes
  BY <1>11 DEF Page, Writes
<1> QED
  BY <1>1, <1>2, <1>3, <1>4, <1>5, <1>6, <1>7, <1>8, <1>9, <1>10, <1>11 DEF DCNext

(* A receipt stays somewhere, unless it goes with its house.               *)
LEMMA ReceiptsStay ==
  ASSUME DCTypeOK, [DCNext]_DCvars, NEW d \in Dinner, Receipted(d) \/ d \in wiped
  PROVE  Receipted(d)' \/ d \in wiped'
<1>1. CASE Moves
  <2>1. PICK u \in User, Q \in SUBSET QueuedChange : member[u] \in House /\ Migrate(u, Q)
    BY <1>1 DEF Moves
  <2>2. UNCHANGED wiped BY <2>1 DEF Migrate
  <2>3. ASSUME NEW s \in Scope, d \in receipt[s] PROVE Receipted(d)'
    <3>1. \/ s = u \/ s = member[u] \/ s \in Scope \ {u, member[u]} OBVIOUS
    <3>2. d \in receipt'[s] \/ (d \in receipt'[member[u]] /\ member[u] \in Scope)
      BY <2>1, <2>3, <3>1, MigrateIs
    <3> QED BY <3>2 DEF Receipted
  <2> QED BY <2>2, <2>3 DEF Receipted
<1>2. CASE Consumes
  <2>1. PICK dv \in Device, e \in Dinner : FlushNew(dv, e) /\ UNCHANGED wiped
    BY <1>2 DEF Consumes
  <2>2. \A s \in Scope : receipt[s] \subseteq receipt'[s]
    BY <2>1 DEF FlushNew, DCTypeOK
  <2> QED BY <2>1, <2>2 DEF Receipted
<1>3. CASE Writes BY <1>3 DEF Writes, Receipted
<1>4. CASE Ends
  <2>1. PICK h \in House : receipt' = ReceiptsWithout(h) /\ wiped' = wiped \cup receipt[h]
    BY <1>4 DEF Ends
  <2>2. \A s \in Scope : s = h \/ receipt'[s] = receipt[s]
    BY <2>1 DEF ReceiptsWithout, DCTypeOK
  <2> QED BY <2>1, <2>2 DEF Receipted
<1>5. CASE Stays BY <1>5 DEF Stays, Receipted
<1> QED BY <1>1, <1>2, <1>3, <1>4, <1>5, ServerSteps

LEMMA TakenOnceStep ==
  ASSUME DCTypeOK, Covered, TakenOnce, [DCNext]_DCvars
  PROVE  TakenOnce' /\ Covered'
<1>1. CASE Moves
  <2>1. PICK u \in User, Q \in SUBSET QueuedChange : member[u] \in House /\ Migrate(u, Q)
    BY <1>1 DEF Moves
  <2> DEFINE h == member[u]
             Moved(y) == IF y.scope = u THEN [y EXCEPT !.scope = h] ELSE y
  <2>2. \A x \in takings' : \E y \in takings :
          x.d = y.d /\ x = Moved(y) /\ x.scope = IF y.scope = u THEN h ELSE y.scope
    BY <2>1, MigrateIs
  <2>3. u # h /\ receipt'[h] = receipt[h] \cup receipt[u]
        /\ \A s \in Scope \ {u, h} : receipt'[s] = receipt[s]
    BY <2>1, MigrateIs
  <2>4. \A y \in takings : y.scope \in Scope BY DEF DCTypeOK
  <2> HIDE DEF h, Moved
  <2>5. ASSUME NEW x \in takings', NEW y \in takings', x.d = y.d PROVE x = y
    <3>1. PICK v \in takings : x.d = v.d /\ x = Moved(v) BY <2>2
    <3>2. PICK w \in takings : y.d = w.d /\ y = Moved(w) BY <2>2
    <3>3. v = w BY <2>5, <3>1, <3>2 DEF TakenOnce
    <3> QED BY <3>1, <3>2, <3>3
  <2>6. ASSUME NEW x \in takings' PROVE x.d \in receipt'[x.scope]
    <3>1. PICK y \in takings : x.d = y.d /\ x.scope = IF y.scope = u THEN h ELSE y.scope
      BY <2>2
    <3>2. y.d \in receipt[y.scope] BY DEF Covered
    <3> QED BY <2>3, <2>4, <3>1, <3>2
  <2> QED BY <2>5, <2>6 DEF TakenOnce, Covered
<1>2. CASE Consumes
  <2>1. PICK dv \in Device, d \in Dinner : FlushNew(dv, d) BY <1>2 DEF Consumes
  <2> DEFINE s == active[dv]
             new == [d |-> d, scope |-> s, at |-> now']
  <2>2. s \in Scope BY DEF DCTypeOK
  <2>3. takings' = takings \cup {new} BY <2>1 DEF FlushNew
  <2>4. \A x \in takings : x.scope \in Scope BY DEF DCTypeOK
  <2>5. \A x \in takings : x.d # d BY <2>1, <2>4 DEF Covered, FlushNew, Receipted
  <2>6. new.d = d /\ new.scope = s OBVIOUS
  <2>7. d \in receipt'[s] /\ \A z \in Scope : receipt[z] \subseteq receipt'[z]
    BY <2>1, <2>2 DEF FlushNew, DCTypeOK
  <2> HIDE DEF s, new
  <2>8. TakenOnce' BY <2>3, <2>5, <2>6 DEF TakenOnce
  <2>9. Covered' BY <2>3, <2>4, <2>6, <2>7 DEF Covered
  <2> QED BY <2>8, <2>9
<1>3. CASE Writes BY <1>3 DEF Writes, TakenOnce, Covered
<1>4. CASE Ends
  <2>1. PICK h \in House : receipt' = ReceiptsWithout(h)
                           /\ takings' = {x \in takings : x.scope # h}
    BY <1>4 DEF Ends
  <2>2. \A x \in takings : x.scope \in Scope BY DEF DCTypeOK
  <2>3. \A s \in Scope : s = h \/ receipt'[s] = receipt[s]
    BY <2>1 DEF ReceiptsWithout, DCTypeOK
  <2> QED BY <2>1, <2>2, <2>3 DEF TakenOnce, Covered
<1>5. CASE Stays BY <1>5 DEF Stays, TakenOnce, Covered
<1> QED BY <1>1, <1>2, <1>3, <1>4, <1>5, ServerSteps

LEMMA QueuesDatedStep ==
  ASSUME DCTypeOK, QueuesDated, [DCNext]_DCvars
  PROVE  QueuesDated'
<1> SUFFICES ASSUME NEW dw \in Device, NEW e \in queue'[dw], e \notin queue[dw]
             PROVE  e.at >= 1
  BY DEF QueuesDated
<1>1. CASE UNCHANGED DCvars BY <1>1 DEF DCvars
<1>2. ASSUME NEW dv \in Device, NEW i \in Item, NEW op \in {"upsert", "delete"}, Change(dv, i, op)
      PROVE  e.at >= 1
  <2> DEFINE new == [scope |-> active[dv], item |-> i, op |-> op, at |-> now']
  <2>1. queue' = [queue EXCEPT ![dv] = @ \cup {new}] BY <1>2 DEF Change
  <2>2. new.at >= 1 BY <1>2, TickTyped DEF Change
  <2> HIDE DEF new
  <2> QED BY <2>1, <2>2 DEF DCTypeOK
<1>3. ASSUME NEW dv \in Device, NEW d \in Dinner, Confirm(dv, d) \/ Flush(dv, d) PROVE FALSE
  BY <1>3 DEF Confirm, Flush
<1>4. ASSUME NEW u \in User, Transfer(u) \/ Leave(u) \/ \E h \in House : Join(u, h) PROVE FALSE
  BY <1>4 DEF Join, Transfer, Leave
<1>5. ASSUME NEW dv \in Device, Discard(dv) \/ Flushed(dv) \/ Finish(dv) PROVE FALSE
  BY <1>5 DEF Discard, Flushed, Finish
<1>6. ASSUME NEW dv \in Device, Reconcile(dv) PROVE FALSE
  BY <1>6 DEF Reconcile, DCTypeOK
<1>7. ASSUME NEW dv \in Device, Import(dv) \/ Enter(dv) PROVE FALSE
  <2>1. queue' = [queue EXCEPT ![dv] = @ \ Importable(dv)] BY <1>7 DEF Import, Enter
  <2> QED BY <2>1 DEF DCTypeOK
<1>8. ASSUME NEW dv \in Device, Page(dv) \/ Purge(dv) PROVE FALSE
  <2>1. PICK Q : queue' = [queue EXCEPT ![dv] = Q] /\ Q \subseteq queue[dv]
    <3>1. CASE Page(dv) BY <3>1 DEF Page
    <3>2. CASE Purge(dv)
      <4>1. queue' = [queue EXCEPT ![dv] = {f \in queue[dv] : f.scope # active[dv]}]
        BY <3>2 DEF Purge
      <4> QED BY <4>1
    <3> QED BY <1>8, <3>1, <3>2
  <2> QED BY <2>1 DEF DCTypeOK
<1> QED BY <1>1, <1>2, <1>3, <1>4, <1>5, <1>6, <1>7, <1>8 DEF DCNext

(* The rows of a move, for any mutations that have an instant.             *)
LEMMA WrittenDated ==
  ASSUME DCTypeOK, RowsDated, NEW s \in Scope, NEW Q, Q \subseteq QueuedChange,
         \A e \in Q : e.at >= 1, NEW i \in Item
  PROVE  /\ Written(s, Q)[i] = NoRow \/ Written(s, Q)[i].at >= 1
         /\ row[s][i] # NoRow => Written(s, Q)[i] # NoRow
<1>1. row[s][i] = NoRow \/ row[s][i].at >= 1 BY DEF RowsDated
<1>2. \A e \in Q : LET new == [st |-> IF e.op = "delete" THEN "deleted" ELSE "alive", at |-> e.at]
                   IN new.at >= 1 /\ new # NoRow
  BY DEF NoRow
<1>3. \/ Written(s, Q)[i] = row[s][i]
      \/ \E e \in Q : Written(s, Q)[i] =
           [st |-> IF e.op = "delete" THEN "deleted" ELSE "alive", at |-> e.at]
  BY WrittenIs
<1> QED BY <1>1, <1>2, <1>3

(* What both rows of a move are dated, theirs is after it; and where one   *)
(* of them is, there is a row.                                             *)
LEMMA MergedDated ==
  ASSUME NEW theirs \in [Item -> ItemRow], NEW own \in [Item -> ItemRow], NEW i \in Item,
         theirs[i] = NoRow \/ theirs[i].at >= 1, own[i] = NoRow \/ own[i].at >= 1
  PROVE  /\ Merged(theirs, own)[i] = NoRow \/ Merged(theirs, own)[i].at >= 1
         /\ i \in Dinner /\ (theirs[i] # NoRow \/ own[i] # NoRow)
              => Merged(theirs, own)[i] # NoRow
<1> DEFINE newer == IF own[i].at > theirs[i].at THEN own[i] ELSE theirs[i]
           m == Merged(theirs, own)[i]
<1>1. /\ m.at = newer.at
      /\ i \in Dinner => m = newer
      /\ m = newer \/ (m.st = "alive" /\ "alive" \in {own[i].st, theirs[i].st})
  BY MergedIs
<1>2. /\ own[i].at \in Nat /\ theirs[i].at \in Nat
  BY DCBoundsTyped DEF ItemRow
<1>3. NoRow.at = 0 /\ NoRow.st # "alive" BY DEF NoRow
<1>4. own[i].at >= 1 \/ theirs[i].at >= 1 => newer.at >= 1 BY <1>2
<1>5. newer = NoRow \/ newer.at >= 1 OBVIOUS
<1>6. own[i] # NoRow \/ theirs[i] # NoRow => newer.at >= 1 BY <1>4
<1>7. "alive" \in {own[i].st, theirs[i].st} => own[i] # NoRow \/ theirs[i] # NoRow BY <1>3
<1> HIDE DEF m, newer
<1>8. m = NoRow \/ m.at >= 1 BY <1>1, <1>5, <1>6, <1>7
<1>9. i \in Dinner /\ (theirs[i] # NoRow \/ own[i] # NoRow) => m # NoRow BY <1>1, <1>3, <1>6
<1> QED BY <1>8, <1>9 DEF m

(* No receipt without the diary row of its dinner: the second half of      *)
(* ReceiptsGoAlong.                                                        *)
Rowed == \A s \in Scope : \A d \in receipt[s] : row[s][d] # NoRow

LEMMA RowsStep ==
  ASSUME DCTypeOK, RowsDated, QueuesDated, Rowed, [DCNext]_DCvars
  PROVE  RowsDated' /\ Rowed'
<1>0. row \in [Scope -> [Item -> ItemRow]] /\ receipt \in [Scope -> SUBSET Dinner]
      /\ Dinner \subseteq Item
  BY DEF DCTypeOK, Item
<1>1. CASE Moves
  <2>1. PICK u \in User, Q \in SUBSET QueuedChange :
          /\ member[u] \in House /\ Migrate(u, Q)
          /\ \A e \in Q : \E dv \in Device : e \in queue[dv]
    BY <1>1 DEF Moves
  <2> DEFINE h == member[u]
             own == Written(u, Q)
  <2>2. /\ u # h /\ u \in Scope /\ h \in Scope
        /\ row'[u] = [i \in Item |-> NoRow] /\ row'[h] = Merged(row[h], own)
        /\ \A s \in Scope \ {u, h} : row'[s] = row[s]
        /\ receipt'[u] = {} /\ receipt'[h] = receipt[h] \cup receipt[u]
        /\ \A s \in Scope \ {u, h} : receipt'[s] = receipt[s]
    BY <2>1, MigrateIs
  <2>3. \A e \in Q : e.at >= 1 BY <2>1 DEF QueuesDated
  <2>4. own \in [Item -> ItemRow] BY <2>1, <2>2, WrittenTyped
  <2>5. row[h] \in [Item -> ItemRow] BY <1>0, <2>2
  <2>6. \A i \in Item : /\ own[i] = NoRow \/ own[i].at >= 1
                        /\ row[u][i] # NoRow => own[i] # NoRow
    BY <2>1, <2>2, <2>3, WrittenDated
  <2>7. \A i \in Item : row[h][i] = NoRow \/ row[h][i].at >= 1 BY <2>2 DEF RowsDated
  <2> HIDE DEF h, own
  <2>8. \A i \in Item :
          /\ row'[h][i] = NoRow \/ row'[h][i].at >= 1
          /\ i \in Dinner /\ (row[h][i] # NoRow \/ own[i] # NoRow) => row'[h][i] # NoRow
    BY <2>2, <2>4, <2>5, <2>6, <2>7, MergedDated
  <2>9. ASSUME NEW s \in Scope, NEW i \in Item PROVE row'[s][i] = NoRow \/ row'[s][i].at >= 1
    <3>1. CASE s = u BY <2>2, <3>1
    <3>2. CASE s = h BY <2>8, <3>2
    <3>3. CASE s \in Scope \ {u, h} BY <2>2, <3>3 DEF RowsDated
    <3> QED BY <3>1, <3>2, <3>3
  <2>10. ASSUME NEW s \in Scope, NEW d \in receipt'[s] PROVE row'[s][d] # NoRow
    <3>1. CASE s = u BY <2>2, <2>10, <3>1
    <3>2. CASE s = h
      <4>1. d \in receipt[h] \/ d \in receipt[u] BY <2>2, <2>10, <3>2
      <4>2. d \in Dinner /\ d \in Item BY <1>0, <2>2, <4>1
      <4>3. row[h][d] # NoRow \/ own[d] # NoRow BY <2>2, <2>6, <4>1, <4>2 DEF Rowed
      <4> QED BY <2>8, <3>2, <4>2, <4>3
    <3>3. CASE s \in Scope \ {u, h} BY <2>2, <2>10, <3>3 DEF Rowed
    <3> QED BY <3>1, <3>2, <3>3
  <2> QED BY <2>9, <2>10 DEF RowsDated, Rowed
<1>2. CASE Consumes
  <2>1. PICK dv \in Device, d \in Dinner : FlushNew(dv, d) BY <1>2 DEF Consumes
  <2> DEFINE s == active[dv]
             new == [st |-> "alive", at |-> now']
  <2>2. s \in Scope BY DEF DCTypeOK
  <2>3. new.at >= 1 /\ new # NoRow BY <2>1, TickTyped DEF FlushNew, NoRow
  <2>4. row' = [row EXCEPT ![s] = Taken(s, d)] /\ receipt' = [receipt EXCEPT ![s] = @ \cup {d}]
    BY <2>1 DEF FlushNew
  <2>5. \A i \in Item : Taken(s, d)[i] = new \/ (Taken(s, d)[i] = row[s][i] /\ i # d)
    BY DEF Taken
  <2> HIDE DEF s, new
  <2>6. \A z \in Scope, i \in Item : row'[z][i] = new \/ (row'[z][i] = row[z][i] /\ (z = s => i # d))
    BY <1>0, <2>2, <2>4, <2>5
  <2>7. RowsDated' BY <2>3, <2>6 DEF RowsDated
  <2>8. ASSUME NEW z \in Scope, NEW e \in receipt'[z] PROVE row'[z][e] # NoRow
    <3>1. e \in receipt[z] \/ (z = s /\ e = d) BY <1>0, <2>2, <2>4, <2>8
    <3>2. e \in Item BY <1>0, <3>1
    <3> QED BY <2>3, <2>6, <3>1, <3>2 DEF Rowed
  <2> QED BY <2>7, <2>8 DEF Rowed
<1>3. CASE Writes
  <2>1. PICK dv \in Device :
          /\ row' = [row EXCEPT ![active[dv]] =
                       Written(active[dv], {e \in queue[dv] : e.scope = active[dv]})]
          /\ UNCHANGED receipt
    BY <1>3 DEF Writes
  <2> DEFINE s == active[dv]
             Q == {e \in queue[dv] : e.scope = s}
  <2>2. s \in Scope /\ Q \subseteq QueuedChange BY DEF DCTypeOK
  <2>3. \A e \in Q : e.at >= 1 BY DEF QueuesDated
  <2>4. row' = [row EXCEPT ![s] = Written(s, Q)] BY <2>1
  <2> HIDE DEF s, Q
  <2>5. \A i \in Item : /\ Written(s, Q)[i] = NoRow \/ Written(s, Q)[i].at >= 1
                        /\ row[s][i] # NoRow => Written(s, Q)[i] # NoRow
    BY <2>2, <2>3, WrittenDated
  <2>6. \A z \in Scope, i \in Item : /\ row'[z][i] = NoRow \/ row'[z][i].at >= 1
                                     /\ row[z][i] # NoRow => row'[z][i] # NoRow
    BY <1>0, <2>2, <2>4, <2>5 DEF RowsDated
  <2> QED BY <1>0, <2>1, <2>6 DEF RowsDated, Rowed
<1>4. CASE Ends
  <2>1. PICK h \in House : /\ row' = [row EXCEPT ![h] = [i \in Item |-> NoRow]]
                           /\ receipt' = [receipt EXCEPT ![h] = {}]
    BY <1>4 DEF Ends, ReceiptsWithout
  <2>2. h \in Scope BY ScopesApart DEF Pairing
  <2>3. /\ row'[h] = [i \in Item |-> NoRow] /\ receipt'[h] = {}
        /\ \A s \in Scope \ {h} : row'[s] = row[s] /\ receipt'[s] = receipt[s]
    BY <1>0, <2>1, <2>2
  <2>4. ASSUME NEW s \in Scope, NEW i \in Item PROVE row'[s][i] = NoRow \/ row'[s][i].at >= 1
    <3>1. CASE s = h BY <2>3, <3>1
    <3>2. CASE s # h BY <2>3, <3>2 DEF RowsDated
    <3> QED BY <3>1, <3>2
  <2>5. ASSUME NEW s \in Scope, NEW d \in receipt'[s] PROVE row'[s][d] # NoRow
    BY <2>3, <2>5 DEF Rowed
  <2> QED BY <2>4, <2>5 DEF RowsDated, Rowed
<1>5. CASE Stays BY <1>5 DEF Stays, RowsDated, Rowed
<1> QED BY <1>1, <1>2, <1>3, <1>4, <1>5, ServerSteps

(* The first half of ReceiptsGoAlong.                                      *)
Acknowledged ==
  \A dv \in Device, d \in Dinner :
    box[dv][d].st = "acknowledged" => Receipted(d) \/ d \in wiped

LEMMA AnswerSteps ==
  ASSUME DCTypeOK, [DCNext]_DCvars, NEW dw \in Device, answer'[dw] \notin {NoAnswer, answer[dw]}
  PROVE  \E d \in Dinner : Flush(dw, d) /\ answer'[dw].d = d
<1>1. CASE UNCHANGED DCvars BY <1>1 DEF DCvars
<1>2. ASSUME NEW dv \in Device, NEW d \in Dinner, Flush(dv, d)
      PROVE  \E e \in Dinner : Flush(dw, e) /\ answer'[dw].d = e
  <2>1. ~UNCHANGED answer OBVIOUS
  <2>2. PICK lot \in BOOLEAN : answer' = [answer EXCEPT ![dv] =
          [st |-> "answer", d |-> d, scope |-> active[dv], lot |-> lot]]
    BY <1>2, <2>1, FlushIs
  <2>3. dv = dw BY <2>2 DEF DCTypeOK
  <2>4. answer'[dw].d = d BY <2>2, <2>3 DEF DCTypeOK
  <2> QED BY <1>2, <2>3, <2>4
<1>3. ASSUME NEW dv \in Device, Reconcile(dv) \/ Discard(dv) PROVE FALSE
  BY <1>3 DEF Reconcile, Discard, DCTypeOK
<1>4. ASSUME NEW dv \in Device,
             \/ \E i \in Item, op \in {"upsert", "delete"} : Change(dv, i, op)
             \/ \E d \in Dinner : Confirm(dv, d)
             \/ Flushed(dv) \/ Import(dv) \/ Page(dv) \/ Finish(dv) \/ Enter(dv) \/ Purge(dv)
      PROVE  FALSE
  BY <1>4 DEF Change, Confirm, Flushed, Import, Page, Finish, Enter, Purge
<1>5. ASSUME NEW u \in User, Transfer(u) \/ Leave(u) \/ \E h \in House : Join(u, h) PROVE FALSE
  BY <1>5 DEF Join, Transfer, Leave
<1> QED BY <1>1, <1>2, <1>3, <1>4, <1>5 DEF DCNext

LEMMA BoxSteps ==
  ASSUME DCTypeOK, [DCNext]_DCvars, NEW dw \in Device, NEW e \in Dinner,
         box'[dw][e] # box[dw][e], box'[dw][e].st = "acknowledged"
  PROVE  Reconcile(dw) /\ answer[dw].d = e
<1>1. CASE UNCHANGED DCvars BY <1>1 DEF DCvars
<1>2. ASSUME NEW dv \in Device, NEW d \in Dinner, Confirm(dv, d) PROVE FALSE
  <2> DEFINE new == [st |-> "pending", scope |-> active[dv], at |-> now',
                     lot |-> Lot \in held[dv][active[dv]]]
  <2>1. box' = [box EXCEPT ![dv][d] = new] BY <1>2 DEF Confirm
  <2>2. new.st = "pending" OBVIOUS
  <2> HIDE DEF new
  <2> QED BY <2>1, <2>2 DEF DCTypeOK
<1>3. ASSUME NEW dv \in Device, Reconcile(dv) PROVE Reconcile(dw) /\ answer[dw].d = e
  <2> DEFINE d == answer[dv].d
             to == answer[dv].scope
  <2>1. box' = [box EXCEPT ![dv][d].st = "acknowledged", ![dv][d].scope = to]
    BY <1>3 DEF Reconcile
  <2> HIDE DEF d, to
  <2>2. dv = dw /\ d = e BY <2>1 DEF DCTypeOK
  <2> QED BY <1>3, <2>2 DEF d
<1>4. ASSUME NEW dv \in Device, Purge(dv) PROVE FALSE
  <2>1. box' = [box EXCEPT ![dv] =
          [d \in Dinner |-> IF box[dv][d] # NoRecord /\ box[dv][d].scope = active[dv]
                            THEN NoRecord ELSE box[dv][d]]]
    BY <1>4 DEF Purge
  <2>2. box'[dw][e] \in {NoRecord, box[dw][e]} BY <2>1 DEF DCTypeOK
  <2>3. NoRecord.st # "acknowledged" BY DEF NoRecord
  <2> QED BY <2>2, <2>3
<1>5. ASSUME NEW dv \in Device,
             \/ \E i \in Item, op \in {"upsert", "delete"} : Change(dv, i, op)
             \/ \E d \in Dinner : Flush(dv, d)
             \/ Discard(dv) \/ Flushed(dv) \/ Import(dv) \/ Page(dv) \/ Finish(dv) \/ Enter(dv)
      PROVE  FALSE
  BY <1>5 DEF Change, Flush, Discard, Flushed, Import, Page, Finish, Enter
<1>6. ASSUME NEW u \in User, Transfer(u) \/ Leave(u) \/ \E h \in House : Join(u, h) PROVE FALSE
  BY <1>6 DEF Join, Transfer, Leave
<1> QED BY <1>1, <1>2, <1>3, <1>4, <1>5, <1>6 DEF DCNext

LEMMA AnswersStep ==
  ASSUME DCTypeOK, AnswersReceipted, [DCNext]_DCvars
  PROVE  AnswersReceipted'
<1> SUFFICES ASSUME NEW dv \in Device, answer'[dv] # NoAnswer
             PROVE  (\E s \in Scope : answer'[dv].d \in receipt'[s]) \/ answer'[dv].d \in wiped'
  BY DEF AnswersReceipted, Receipted
<1>1. CASE answer'[dv] = answer[dv]
  <2>1. answer[dv].d \in Dinner BY <1>1 DEF DCTypeOK, AnswerFound
  <2>2. Receipted(answer[dv].d) \/ answer[dv].d \in wiped BY <1>1 DEF AnswersReceipted
  <2>3. PICK d \in Dinner : d = answer[dv].d BY <2>1
  <2>4. Receipted(d)' \/ d \in wiped' BY <2>2, <2>3, ReceiptsStay
  <2> QED BY <1>1, <2>3, <2>4 DEF Receipted
<1>2. CASE answer'[dv] # answer[dv]
  <2>1. PICK d \in Dinner : Flush(dv, d) /\ answer'[dv].d = d BY <1>2, AnswerSteps
  <2>2. active[dv] \in Scope BY DEF DCTypeOK
  <2>3. d \in receipt'[active[dv]]
    <3>1. CASE FlushNew(dv, d) BY <2>2, <3>1 DEF FlushNew, DCTypeOK
    <3>2. CASE FlushAgain(dv, d) BY <3>2 DEF FlushAgain
    <3> QED BY <2>1, <3>1, <3>2, FlushIs
  <2> QED BY <2>1, <2>2, <2>3
<1> QED BY <1>1, <1>2

LEMMA AcknowledgedStep ==
  ASSUME DCTypeOK, AnswersReceipted, Acknowledged, [DCNext]_DCvars
  PROVE  Acknowledged'
<1> SUFFICES ASSUME NEW dv \in Device, NEW d \in Dinner, box'[dv][d].st = "acknowledged"
             PROVE  Receipted(d)' \/ d \in wiped'
  BY DEF Acknowledged, Receipted
<1>1. CASE box'[dv][d] = box[dv][d] BY <1>1, ReceiptsStay DEF Acknowledged
<1>2. CASE box'[dv][d] # box[dv][d]
  <2>1. Reconcile(dv) /\ answer[dv].d = d BY <1>2, BoxSteps
  <2>2. Receipted(d) \/ d \in wiped BY <2>1 DEF Reconcile, AnswersReceipted
  <2> QED BY <2>2, ReceiptsStay
<1> QED BY <1>1, <1>2

LEMMA GoAlongIs == ReceiptsGoAlong <=> Acknowledged /\ Rowed
BY DEF ReceiptsGoAlong, Acknowledged, Rowed

LEMMA DinnerInit == DCInit => DinnerInv
<1> SUFFICES ASSUME DCInit PROVE DinnerInv OBVIOUS
<1>1. Covered /\ TakenOnce BY DEF DCInit, Covered, TakenOnce
<1>2. RowsDated /\ QueuesDated BY DEF DCInit, RowsDated, QueuesDated
<1>3. AnswersReceipted BY DEF DCInit, AnswersReceipted
<1>4. Acknowledged
  <2>1. \A dv \in Device, d \in Dinner : box[dv][d] = NoRecord BY DEF DCInit
  <2> QED BY <2>1 DEF NoRecord, Acknowledged
<1>5. Rowed BY DEF DCInit, Rowed
<1> QED BY <1>1, <1>2, <1>3, <1>4, <1>5, GoAlongIs DEF DinnerInv

LEMMA DinnerNext == DCTypeOK /\ DinnerInv /\ [DCNext]_DCvars => DinnerInv'
<1> SUFFICES ASSUME DCTypeOK, DinnerInv, [DCNext]_DCvars PROVE DinnerInv' OBVIOUS
<1>1. /\ Covered /\ TakenOnce /\ RowsDated /\ QueuesDated /\ AnswersReceipted
      /\ Acknowledged /\ Rowed
  BY GoAlongIs DEF DinnerInv
<1>2. Covered' /\ TakenOnce' BY <1>1, TakenOnceStep
<1>3. QueuesDated' BY <1>1, QueuesDatedStep
<1>4. RowsDated' /\ Rowed' BY <1>1, RowsStep
<1>5. AnswersReceipted' BY <1>1, AnswersStep
<1>6. Acknowledged' BY <1>1, AcknowledgedStep
<1>7. ReceiptsGoAlong' BY <1>4, <1>6 DEF ReceiptsGoAlong, Acknowledged, Rowed
<1> QED BY <1>2, <1>3, <1>4, <1>5, <1>7 DEF DinnerInv

(* However often a dinner is sent, and from whatever scope, its            *)
(* ingredients leave a pantry once: what was taken from the pantry of a    *)
(* scope has its receipt in that scope, and consumeDinner takes nothing    *)
(* for a dinner that has a receipt anywhere.                               *)
THEOREM TakenOnceHolds == DCSpec => []TakenOnce
<1>1. DinnerInv => TakenOnce BY DEF DinnerInv
<1> QED BY <1>1, DinnerInit, DinnerNext, DCTypeCorrect, PTL DEF DCSpec

(* A dinner a device has as acknowledged keeps its receipt on the server   *)
(* until its house ends, and a receipt has the diary row of its dinner:    *)
(* rows and receipts move together.                                        *)
THEOREM ReceiptsGoAlongHolds == DCSpec => []ReceiptsGoAlong
<1>1. DinnerInv => ReceiptsGoAlong BY DEF DinnerInv
<1> QED BY <1>1, DinnerInit, DinnerNext, DCTypeCorrect, PTL DEF DCSpec

-----------------------------------------------------------------------------
(* Dinners: a device keeps nothing of a house it has lost.                 *)
LEMMA LostInit == DCInit => NothingOfALostHouse
<1> SUFFICES ASSUME DCInit PROVE NothingOfALostHouse OBVIOUS
<1>1. \A dv \in Device, h \in House : held[dv][h] = {}
  BY ScopesApart DEF DCInit, Pairing
<1>2. \A dv \in Device, d \in Dinner : box[dv][d] = NoRecord BY DEF DCInit
<1> QED BY <1>1, <1>2 DEF NothingOfALostHouse

(* A step that writes a device's data writes its active scope.             *)
LEMMA LostStep ==
  ASSUME DCTypeOK, NothingOfALostHouse, [DCNext]_DCvars
  PROVE  NothingOfALostHouse'
<1> SUFFICES ASSUME NEW dw \in Device, NEW h \in House, h # active'[dw]
             PROVE  /\ held'[dw][h] = {}
                    /\ \A d \in Dinner : box'[dw][d] # NoRecord => box'[dw][d].scope # h
  BY DEF NothingOfALostHouse
<1> DEFINE Goal == /\ held'[dw][h] = {}
                   /\ \A d \in Dinner : box'[dw][d] # NoRecord => box'[dw][d].scope # h
<1>0. /\ h \in Scope /\ h \notin User
      /\ active \in [Device -> Scope] /\ held \in [Device -> [Scope -> SUBSET Item]]
      /\ box \in [Device -> [Dinner -> {NoRecord} \cup OutboxRecord]]
  BY ScopesApart DEF DCTypeOK, Pairing
<1>1. ASSUME UNCHANGED <<held, box, active>> PROVE Goal
  BY <1>1 DEF NothingOfALostHouse
<1>2. ASSUME NEW dv \in Device, NEW i \in Item, NEW op \in {"upsert", "delete"}, Change(dv, i, op)
      PROVE  Goal
  <2>1. PICK new : held' = [held EXCEPT ![dv][active[dv]] = new] BY <1>2 DEF Change
  <2>2. UNCHANGED <<active, box>> BY <1>2 DEF Change
  <2>3. held'[dw][h] = held[dw][h] BY <1>0, <2>1, <2>2
  <2> QED BY <2>2, <2>3 DEF NothingOfALostHouse
<1>3. ASSUME NEW dv \in Device, NEW d \in Dinner, Confirm(dv, d) PROVE Goal
  <2>1. held' = [held EXCEPT ![dv][active[dv]] = @ \cup {d}] BY <1>3 DEF Confirm
  <2> DEFINE new == [st |-> "pending", scope |-> active[dv], at |-> now',
                     lot |-> Lot \in held[dv][active[dv]]]
  <2>2. box' = [box EXCEPT ![dv][d] = new] /\ UNCHANGED active BY <1>3 DEF Confirm
  <2>3. new.scope = active[dv] OBVIOUS
  <2> HIDE DEF new
  <2>4. held'[dw][h] = held[dw][h] BY <1>0, <2>1, <2>2
  <2>5. \A e \in Dinner : \/ box'[dw][e] = box[dw][e]
                          \/ box'[dw][e].scope = active[dw]
    BY <1>0, <2>2, <2>3
  <2> QED BY <2>2, <2>4, <2>5 DEF NothingOfALostHouse
<1>4. ASSUME NEW dv \in Device, Reconcile(dv) PROVE Goal
  <2> DEFINE d    == answer[dv].d
             from == box[dv][d].scope
             to   == answer[dv].scope
             keeps == [s \in Scope |->
               IF s = to THEN (held[dv][s] \ {Lot}) \cup {d} \cup IF answer[dv].lot THEN {Lot} ELSE {}
               ELSE IF s = from THEN held[dv][s] \ {d} ELSE held[dv][s]]
  <2>1. held' = [held EXCEPT ![dv] = keeps] BY <1>4 DEF Reconcile
  <2>2. box' = [box EXCEPT ![dv][d].st = "acknowledged", ![dv][d].scope = to]
    BY <1>4 DEF Reconcile
  <2>3. to = active[dv] /\ UNCHANGED active BY <1>4 DEF Reconcile, SameContext
  <2>4. d \in Dinner
    <3>1. answer[dv] \in AnswerFound BY <1>4 DEF Reconcile, DCTypeOK
    <3> QED BY <3>1 DEF AnswerFound
  <2>5. h # to => keeps[h] \subseteq held[dv][h] BY <1>0
  <2> HIDE DEF d, from, to, keeps
  <2>6. held'[dw][h] = {} BY <1>0, <2>1, <2>3, <2>5 DEF NothingOfALostHouse
  <2>7. box[dv][d] \in OutboxRecord
    <3>1. box[dv][d].st = "pending" BY <1>4 DEF Reconcile, SameContext, Pending, d
    <3> QED BY <1>0, <2>4, <3>1 DEF NoRecord
  <2>8. box'[dv][d].scope = to BY <1>0, <2>2, <2>4, <2>7 DEF OutboxRecord
  <2>9. \A e \in Dinner : (dv # dw \/ e # d) => box'[dw][e] = box[dw][e] BY <1>0, <2>2, <2>4
  <2> QED BY <2>3, <2>6, <2>8, <2>9 DEF NothingOfALostHouse
<1>5. ASSUME NEW dv \in Device, Page(dv) PROVE Goal
  <2>1. PICK new : held' = [held EXCEPT ![dv][active[dv]] = new] BY <1>5 DEF Page
  <2>2. UNCHANGED <<active, box>> BY <1>5 DEF Page
  <2>3. held'[dw][h] = held[dw][h] BY <1>0, <2>1, <2>2
  <2> QED BY <2>2, <2>3 DEF NothingOfALostHouse
<1>6. ASSUME NEW dv \in Device, Enter(dv) PROVE Goal
  <2>1. Account(dv) \in User /\ Account(dv) \in Scope BY AccountTyped, ScopesApart DEF Pairing
  <2>2. held' = [held EXCEPT ![dv][Account(dv)] = {}] /\ UNCHANGED box BY <1>6 DEF Enter
  <2>3. \/ active'[dw] = active[dw]
        \/ active[dw] = Account(dv)
    BY <1>0, <1>6 DEF Enter
  <2>4. h # active[dw] BY <1>0, <2>1, <2>3
  <2>5. held'[dw][h] = held[dw][h] BY <1>0, <2>1, <2>2
  <2> QED BY <2>2, <2>4, <2>5 DEF NothingOfALostHouse
<1>7. ASSUME NEW dv \in Device, Purge(dv) PROVE Goal
  <2> DEFINE gone == active[dv]
             boxed == [d \in Dinner |-> IF box[dv][d] # NoRecord /\ box[dv][d].scope = gone
                                        THEN NoRecord ELSE box[dv][d]]
  <2>1. held' = [held EXCEPT ![dv][gone] = {}] /\ box' = [box EXCEPT ![dv] = boxed]
    BY <1>7 DEF Purge
  <2>2. active' = [active EXCEPT ![dv] = Account(dv)] BY <1>7 DEF Purge
  <2>3. \A d \in Dinner : boxed[d] # NoRecord => boxed[d] = box[dv][d] /\ boxed[d].scope # gone
    OBVIOUS
  <2> HIDE DEF boxed
  <2>4. CASE dw = dv /\ h = gone BY <1>0, <2>1, <2>3, <2>4
  <2>5. CASE dw = dv /\ h # gone BY <1>0, <2>1, <2>3, <2>5 DEF NothingOfALostHouse
  <2>6. CASE dw # dv
    <3>1. active'[dw] = active[dw] /\ held'[dw] = held[dw] /\ box'[dw] = box[dw]
      BY <1>0, <2>1, <2>2, <2>6
    <3> QED BY <3>1 DEF NothingOfALostHouse
  <2> QED BY <2>4, <2>5, <2>6
<1>8. ASSUME UNCHANGED DCvars PROVE Goal BY <1>1, <1>8 DEF DCvars
<1>9. ASSUME NEW dv \in Device,
             \/ \E d \in Dinner : Flush(dv, d)
             \/ Discard(dv) \/ Flushed(dv) \/ Import(dv) \/ Finish(dv)
      PROVE  Goal
  <2>1. UNCHANGED <<held, box, active>> BY <1>9 DEF Flush, Discard, Flushed, Import, Finish
  <2> QED BY <1>1, <2>1
<1>10. ASSUME NEW u \in User, Transfer(u) \/ Leave(u) \/ \E g \in House : Join(u, g) PROVE Goal
  <2>1. UNCHANGED <<held, box, active>> BY <1>10 DEF Join, Transfer, Leave
  <2> QED BY <1>1, <2>1
<1> HIDE DEF Goal
<1>11. Goal BY <1>2, <1>3, <1>4, <1>5, <1>6, <1>7, <1>8, <1>9, <1>10 DEF DCNext
<1> QED BY <1>11 DEF Goal

(* Whatever answer comes back after a device lost its house, it keeps      *)
(* nothing of that house: every step that writes a device's data writes    *)
(* its active scope, and losing the house clears what was stored for it.   *)
THEOREM NothingOfALostHouseHolds == DCSpec => []NothingOfALostHouse
BY LostInit, LostStep, DCTypeCorrect, PTL DEF DCSpec
===============================================================================
