---------------------------- MODULE SyncVersion ----------------------------
(***************************************************************************)
(* The version of a synchronized entity, the order in which versions       *)
(* replace one another, and what a mutation does to the row it finds.  A   *)
(* version is what a row of sync_items carries: the effective client time, *)
(* the server time read when the mutation was prepared, the device and the *)
(* mutation that wrote it last, its tombstone flag, and its payload.  The  *)
(* payload is abstracted to the mutation it came from, `body`, and, for a  *)
(* dinner entry, to the set of recipes linked to it, `links`.              *)
(*                                                                         *)
(* Times, devices and mutation ids are naturals: the code only compares    *)
(* them.                                                                   *)
(***************************************************************************)
EXTENDS Naturals, FiniteSets

CONSTANTS
  Recipe,        \* recipes a dinner entry can be linked to
  DinnerEntity,  \* the entities of type dinner_entry
  MaxLinks,      \* DIARY_MAX_RECIPES
  NoItem         \* an entity without a row

Version == [client   : Nat,        \* clientUpdatedAt, after the skew clamp
            server   : Nat,        \* updatedAt
            device   : Nat,        \* deviceId
            mutation : Nat,        \* mutationId
            deleted  : BOOLEAN,
            body     : Nat,        \* mutation the payload comes from
            links    : SUBSET Recipe]

Row == Version \cup {NoItem}

(* `wins`: client time, then server time, then device, then mutation id.   *)
Wins(incoming, existing) ==
  IF incoming.client # existing.client THEN incoming.client > existing.client
  ELSE IF incoming.server # existing.server THEN incoming.server > existing.server
  ELSE IF incoming.device # existing.device THEN incoming.device > existing.device
  ELSE incoming.mutation > existing.mutation

(* The same order, stated the other way round: existing is at least as     *)
(* good as v, field by field.                                              *)
Stands(existing, v) ==
  /\ existing.client >= v.client
  /\ existing.client = v.client =>
       /\ existing.server >= v.server
       /\ existing.server = v.server =>
            /\ existing.device >= v.device
            /\ existing.device = v.device => existing.mutation >= v.mutation

(* `prepareMutation`: a client time more than `skew` ahead of the server   *)
(* is replaced by the server time.                                         *)
EffectiveClientTime(client, now, skew) ==
  IF client > now + skew THEN now ELSE client

-----------------------------------------------------------------------------
(* A mutation v of entity e against the row it finds.                      *)

(* Both are live dinner entries: their links are united.                   *)
UnitesLinks(e, v, found) ==
  /\ e \in DinnerEntity /\ found # NoItem
  /\ ~v.deleted /\ ~found.deleted

(* SyncDiaryRecipeLimitError.                                              *)
LinksExceeded(e, v, found) ==
  UnitesLinks(e, v, found) /\ Cardinality(found.links \cup v.links) > MaxLinks

(* `normalizeDiaryMutation`; a dinner tombstone keeps the payload that it  *)
(* deletes.                                                                *)
Normalized(e, v, found) ==
  IF UnitesLinks(e, v, found) THEN [v EXCEPT !.links = found.links \cup @]
  ELSE IF e \in DinnerEntity /\ v.deleted /\ found # NoItem
       THEN [v EXCEPT !.links = found.links, !.body = found.body]
  ELSE v

(* Mutant: a losing dinner entry is discarded with its links.              *)
NeverMergesStale(e, v, found) == FALSE

(* `mergeStaleDinnerRecipeLinks`: a losing dinner entry that brings new    *)
(* links adds them to the stored payload, at the stored client time.       *)
MergesStale(e, v, found) ==
  UnitesLinks(e, v, found) /\ ~(v.links \subseteq found.links)

StaleMerge(v, found) ==
  [v EXCEPT !.client = found.client, !.body = found.body,
            !.links = found.links \cup @]

(* The version to write, NoItem when the mutation is discarded.            *)
Outcome(e, v, found) ==
  IF found = NoItem \/ Wins(v, found) THEN Normalized(e, v, found)
  ELSE IF MergesStale(e, v, found) THEN StaleMerge(v, found)
  ELSE NoItem
=============================================================================
