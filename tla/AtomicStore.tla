---------------------------- MODULE AtomicStore ----------------------------
(***************************************************************************)
(* What the synchronization server promises of the entities whose writes   *)
(* it serializes: every mutation is processed at most once per scope, and  *)
(* processing one reads the row, decides and writes it in one step.  The   *)
(* order of the mutations is the server's choice.                          *)
(*                                                                         *)
(* An entry is a mutation together with the version the server prepared    *)
(* from it.                                                                *)
(***************************************************************************)
EXTENDS SyncVersion

CONSTANTS
  StoreKey,    \* the <<scope, entity>> pairs of the store
  Entry        \* the [scope, entity, version] records that may be processed

VARIABLES
  rows,        \* the version of each key, or NoItem
  done         \* the entries processed

storeVars == <<rows, done>>

EntryKey(e) == <<e.scope, e.entity>>

StoreInit == rows = [k \in StoreKey |-> NoItem] /\ done = {}

(* One mutation, from the check of the ledger to the write of the row.     *)
Apply(e) ==
  LET k     == EntryKey(e)
      value == Outcome(e.entity, e.version, rows[k])
  IN /\ k \in StoreKey
     /\ \A f \in done : f.scope = e.scope => f.version.mutation # e.version.mutation
     /\ ~LinksExceeded(e.entity, e.version, rows[k])
     /\ done' = done \cup {e}
     /\ rows' = IF value = NoItem THEN rows ELSE [rows EXCEPT ![k] = value]

(* A scope disappears with everything in it.                               *)
Wipe(s) ==
  /\ rows' = [k \in StoreKey |-> IF k[1] = s THEN NoItem ELSE rows[k]]
  /\ done' = {e \in done : e.scope # s}

StoreNext == \/ \E e \in Entry : Apply(e)
             \/ \E k \in StoreKey : Wipe(k[1])

StoreSpec == StoreInit /\ [][StoreNext]_storeVars
=============================================================================
