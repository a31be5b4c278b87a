-------------------------- MODULE DinnerConsumption --------------------------
(***************************************************************************)
(* Confirming a dinner: commitDinnerConsumption takes the ingredients from *)
(* the device's pantry, writes the diary entry and puts a record into an   *)
(* outbox, all in one IndexedDB transaction; flushDinnerConsumptionOutbox  *)
(* sends it before anything else a synchronization sends; consumeDinner    *)
(* does the same again on the server's pantry and keeps a receipt; and     *)
(* reconcileDinnerConsumption puts the server's outcome in the place of    *)
(* the device's own.                                                       *)
(*                                                                         *)
(* An operation and its entry have fresh random ids: both are one dinner   *)
(* here.  The pantry is one lot that every dinner takes something of; how  *)
(* much is left out, who wrote it last is not.  Server transactions hold   *)
(* the pantry's advisory lock and are single actions.  The processed       *)
(* marker of an operation is written, moved and wiped with its receipt and *)
(* is left out.  Clocks agree: every write has an instant of its own.      *)
(***************************************************************************)
EXTENDS Naturals, FiniteSets

CONSTANTS
  User, House,
  NoHouse,     \* no membership
  Device,
  Owner,       \* the user signed in on each device
  Dinner,
  Lot,         \* the pantry lot
  MaxTime,     \* bound on the instants
  MaxChanges   \* bound on the edits of the diary and of the pantry

ASSUME DCNamesDistinct == NoHouse \notin House /\ Lot \notin Dinner
ASSUME ScopesDistinct  == User \cap House = {}
ASSUME OwnerTyped      == Owner \in [Device -> User]
ASSUME DCBoundsTyped   == MaxTime \in Nat /\ MaxChanges \in Nat

VARIABLES
  member,    \* house_memberships: the house of each user
  row,       \* sync_items of each scope: [st, at, by]
  receipt,   \* dinner_consumption_receipts of each scope
  closed,    \* the houses that were deleted with their rows and receipts
  takings,   \* history: the takings from the pantry of each scope, still held
  active,    \* the active data scope of each device
  held,      \* the diary entries and the lot stored on a device, per scope
  box,       \* the dinner outbox of each device: [st, scope, at, lot]
  queue,     \* the sync queue of each device
  answer,    \* the answer each device is waiting to apply
  paging,    \* the devices whose run has flushed the outbox and sends pages
  now, changes,
  wiped,     \* history: the dinners whose receipt went with its house
  unsent     \* history: the edits a device gave up without sending them

server == <<member, row, receipt, closed, takings, wiped>>
DCvars == <<member, row, receipt, closed, takings, wiped, active, held, box,
            queue, answer, paging, now, changes, unsent>>

Scope == User \cup House
Item  == Dinner \cup {Lot}

NoRow    == [st |-> "none", at |-> 0]
NoRecord == [st |-> "none"]
NoAnswer == [st |-> "none"]

(* A row of the server; a record of the outbox, a mutation of the queue    *)
(* and an answer on a device.                                              *)
ItemRow      == [st : {"none", "alive", "deleted"}, at : 0 .. MaxTime]
OutboxRecord == [st : {"pending", "acknowledged"}, scope : Scope,
                 at : 0 .. MaxTime, lot : BOOLEAN]
QueuedChange == [scope : Scope, item : Item, op : {"upsert", "delete"},
                 at : 0 .. MaxTime]
AnswerFound  == [st : {"answer"}, d : Dinner, scope : Scope, lot : BOOLEAN]

(* resolveScopeForCurrentMembership: the only scope a member may write.    *)
ScopeOf(u) == IF member[u] = NoHouse THEN u ELSE member[u]

Account(dv) == Owner[dv]
Tick        == now < MaxTime /\ now' = now + 1

DCInit ==
  /\ member \in [User -> House \cup {NoHouse}]
  /\ row = [s \in Scope |-> [i \in Item |-> NoRow]]
  /\ receipt = [s \in Scope |-> {}]
  /\ closed = {} /\ takings = {} /\ wiped = {}
  /\ active = [dv \in Device |-> ScopeOf(Owner[dv])]
  /\ held = [dv \in Device |-> [s \in Scope |-> {}]]
  /\ box = [dv \in Device |-> [d \in Dinner |-> NoRecord]]
  /\ queue = [dv \in Device |-> {}]
  /\ answer = [dv \in Device |-> NoAnswer]
  /\ paging = {}
  /\ now = 0 /\ changes = 0 /\ unsent = {}

(***************************************************************************)
(* The user of a device.                                                   *)
(***************************************************************************)
Pending(dv, d)  == box[dv][d].st = "pending"
PendingOf(dv)   == {d \in Dinner : Pending(dv, d)}

(* The user edits or removes a dinner of the diary, or the lot: the local  *)
(* snapshot is written and a mutation queued under the active scope.       *)
Change(dv, i, op) ==
  /\ changes < MaxChanges /\ changes' = changes + 1 /\ Tick
  /\ i \in Dinner => i \in held[dv][active[dv]]
  /\ op = "delete" => i \in held[dv][active[dv]]
  /\ held' = [held EXCEPT ![dv][active[dv]] =
                 IF op = "delete" THEN @ \ {i} ELSE @ \cup {i}]
  /\ queue' = [queue EXCEPT ![dv] =
                 @ \cup {[scope |-> active[dv], item |-> i, op |-> op, at |-> now']}]
  /\ UNCHANGED <<server, active, box, answer, paging, unsent>>

(* commitDinnerConsumption.  The ids are drawn for this confirmation: no   *)
(* other device has them.                                                  *)
Confirm(dv, d) ==
  /\ Tick
  /\ \A dw \in Device : box[dw][d] = NoRecord
  /\ \A s \in Scope : row[s][d] = NoRow
  /\ box' = [box EXCEPT ![dv][d] =
               [st |-> "pending", scope |-> active[dv], at |-> now',
                lot |-> Lot \in held[dv][active[dv]]]]
  /\ held' = [held EXCEPT ![dv][active[dv]] = @ \cup {d}]
  /\ UNCHANGED <<server, active, queue, answer, paging, changes, unsent>>

(***************************************************************************)
(* The server.                                                             *)
(***************************************************************************)
Receipted(d) == \E s \in Scope : d \in receipt[s]

(* Mutant: a receipt is looked for in the scope alone, and a new operation *)
(* may take the id of an entry that exists.                                *)
VerdictOfScope(s, d) == IF d \in receipt[s] THEN "duplicate" ELSE "new"

(* What consumeDinner makes of a request: a replay needs the receipt of    *)
(* the operation in this very scope and its entry alive, a new operation   *)
(* an entry id that no row has.                                            *)
Verdict(s, d) ==
  IF Receipted(d)
  THEN IF d \in receipt[s] /\ row[s][d].st = "alive" THEN "duplicate" ELSE "conflict"
  ELSE IF row[s][d] = NoRow THEN "new" ELSE "conflict"

(* The rows a new consumption writes, at the server's instant.             *)
Taken(s, d) ==
  [i \in Item |->
     IF i = d \/ (i = Lot /\ row[s][Lot].st = "alive")
     THEN [st |-> "alive", at |-> now'] ELSE row[s][i]]

(* The queued mutations Q against the rows of scope s: last writer wins.   *)
Written(s, Q) ==
  [i \in Item |->
     LET of == {e \in Q : e.item = i /\ \A f \in Q : f.item = i => f.at <= e.at}
     IN  IF of = {} THEN row[s][i]
         ELSE LET e == CHOOSE e \in of : TRUE
              IN  IF e.at < row[s][i].at THEN row[s][i]
                  ELSE [st |-> IF e.op = "delete" THEN "deleted" ELSE "alive",
                        at |-> e.at]]

(* The rows of a house with those of an account moved in: the newer row of *)
(* each entry, and the lots of both.                                       *)
Merged(theirs, own) ==
  [i \in Item |->
     LET newer == IF own[i].at > theirs[i].at THEN own[i] ELSE theirs[i]
     IN  IF i = Lot /\ "alive" \in {own[i].st, theirs[i].st}
         THEN [newer EXCEPT !.st = "alive"] ELSE newer]

(* Mutant: the receipts of the account are deleted with its rows.          *)
ReceiptsForgotten(u, h) == [receipt EXCEPT ![u] = {}]

(* The receipts of an account move with its entries.                       *)
ReceiptsMoved(u, h) == [receipt EXCEPT ![u] = {}, ![h] = @ \cup receipt[u]]

(* migrateUserSharedDataToHouse with the mutations Q the account still had *)
(* queued, written to the account first; one transaction.                  *)
Migrate(u, Q) ==
  LET h == member[u] IN
  /\ row' = [row EXCEPT ![u] = [i \in Item |-> NoRow],
                        ![h] = Merged(row[h], Written(u, Q))]
  /\ receipt' = ReceiptsMoved(u, h)
  /\ takings' = {IF x.scope = u THEN [x EXCEPT !.scope = h] ELSE x : x \in takings}
  /\ UNCHANGED <<member, closed, wiped>>

(* A user creates a house or is added to one.                              *)
Join(u, h) ==
  /\ member[u] = NoHouse /\ h \notin closed
  /\ member' = [member EXCEPT ![u] = h]
  /\ UNCHANGED <<row, receipt, closed, takings, wiped, active, held, box, queue,
                 answer, paging, now, changes, unsent>>

(* The transfer of the account that follows it, and that every read of the *)
(* house repeats.                                                          *)
Transfer(u) ==
  /\ member[u] # NoHouse
  /\ Migrate(u, {})
  /\ UNCHANGED <<active, held, box, queue, answer, paging, now, changes, unsent>>

(* The receipts left when a house is deleted.                              *)
ReceiptsWithout(h) == [receipt EXCEPT ![h] = {}]

(* leaveHouse, or the removal of a member: the last one takes the house,   *)
(* its rows and its receipts along.                                        *)
Leave(u) ==
  LET h == member[u] IN
  /\ h # NoHouse
  /\ member' = [member EXCEPT ![u] = NoHouse]
  /\ IF \E w \in User \ {u} : member[w] = h
     THEN UNCHANGED <<row, receipt, closed, takings, wiped>>
     ELSE /\ row' = [row EXCEPT ![h] = [i \in Item |-> NoRow]]
          /\ receipt' = ReceiptsWithout(h)
          /\ closed' = closed \cup {h}
          /\ takings' = {x \in takings : x.scope # h}
          /\ wiped' = wiped \cup receipt[h]
  /\ UNCHANGED <<active, held, box, queue, answer, paging, now, changes, unsent>>

(***************************************************************************)
(* A synchronization of a device.                                          *)
(***************************************************************************)
(* The device may work in its scope: what the server checks of a request.  *)
Admitted(dv) == active[dv] = ScopeOf(Owner[dv])

(* The oldest record of the outbox, those of the account first.            *)
Oldest(dv, d) ==
  /\ Pending(dv, d)
  /\ \A e \in PendingOf(dv) \ {d} :
        \/ box[dv][d].scope = Account(dv) /\ box[dv][e].scope # Account(dv)
        \/ box[dv][d].scope = box[dv][e].scope /\ box[dv][d].at < box[dv][e].at

(* flushDinnerConsumptionOutbox sends a record, rewritten to the active    *)
(* scope, and consumeDinner answers; the answer may be lost.               *)
Flush(dv, d) ==
  LET s == active[dv] IN
  /\ dv \notin paging /\ answer[dv] = NoAnswer
  /\ Oldest(dv, d) /\ Admitted(dv) /\ Verdict(s, d) # "conflict"
  /\ IF Verdict(s, d) = "new"
     THEN /\ Tick
          /\ row' = [row EXCEPT ![s] = Taken(s, d)]
          /\ receipt' = [receipt EXCEPT ![s] = @ \cup {d}]
          /\ takings' = takings \cup {[d |-> d, scope |-> s, at |-> now']}
     ELSE UNCHANGED <<row, receipt, takings, now>>
  /\ \/ answer' = [answer EXCEPT ![dv] =
          [st |-> "answer", d |-> d, scope |-> s, lot |-> row'[s][Lot].st = "alive"]]
     \/ UNCHANGED answer
  /\ UNCHANGED <<member, closed, wiped, active, held, box, queue, paging, changes, unsent>>

(* Mutant: an answer is applied whatever scope the device is in by then.   *)
AnyContext(dv) == Pending(dv, answer[dv].d)

(* assertContext, and the record still pending.                            *)
SameContext(dv) == active[dv] = answer[dv].scope /\ Pending(dv, answer[dv].d)

(* isDinnerConsumptionSupersededMutation.                                  *)
Superseded(dv, d, e) ==
  /\ e.scope = box[dv][d].scope /\ e.at <= box[dv][d].at
  /\ \/ e.item = d /\ e.op = "upsert"
     \/ e.item = Lot /\ box[dv][d].lot

(* reconcileDinnerConsumption, one IndexedDB transaction.                  *)
Reconcile(dv) ==
  LET d    == answer[dv].d
      from == box[dv][d].scope
      to   == answer[dv].scope
      old  == {e \in queue[dv] : Superseded(dv, d, e)}
  IN
  /\ answer[dv] # NoAnswer /\ SameContext(dv)
  /\ held' = [held EXCEPT ![dv] =
       [s \in Scope |->
          IF s = to THEN (@[s] \ {Lot}) \cup {d} \cup IF answer[dv].lot THEN {Lot} ELSE {}
          ELSE IF s = from THEN @[s] \ {d} ELSE @[s]]]
  /\ box' = [box EXCEPT ![dv][d].st = "acknowledged", ![dv][d].scope = to]
  /\ queue' = [queue EXCEPT ![dv] = @ \ old]
  /\ unsent' = unsent \cup old
  /\ answer' = [answer EXCEPT ![dv] = NoAnswer]
  /\ UNCHANGED <<server, active, paging, now, changes>>

(* The context changed under the request: the run fails.                   *)
Discard(dv) ==
  /\ answer[dv] # NoAnswer /\ ~SameContext(dv)
  /\ answer' = [answer EXCEPT ![dv] = NoAnswer]
  /\ UNCHANGED <<server, active, held, box, queue, paging, now, changes, unsent>>

(* The outbox read as empty: the run goes on to the queue.                 *)
Flushed(dv) ==
  /\ dv \notin paging /\ answer[dv] = NoAnswer /\ PendingOf(dv) = {}
  /\ paging' = paging \cup {dv}
  /\ UNCHANGED <<server, active, held, box, queue, answer, now, changes, unsent>>

(* isDinnerConsumptionRelatedMutation: what importPendingAccountQueue      *)
(* leaves in the account queue while its dinner waits in the outbox.       *)
Related(dv, e) ==
  \E d \in PendingOf(dv) :
     /\ box[dv][d].scope = Account(dv)
     /\ e.item = d \/ (e.item = Lot /\ box[dv][d].lot)

Importable(dv) ==
  {e \in queue[dv] : e.scope = Account(dv) /\ ~Related(dv, e)}

(* importPendingAccountQueue in a run of a house.                          *)
Import(dv) ==
  /\ dv \in paging /\ active[dv] \in House /\ Admitted(dv)
  /\ Importable(dv) # {}
  /\ Migrate(Owner[dv], Importable(dv))
  /\ queue' = [queue EXCEPT ![dv] = @ \ Importable(dv)]
  /\ UNCHANGED <<active, held, box, answer, paging, now, changes, unsent>>

(* A page of the run: the queue of the scope is sent, its rows come back.  *)
(* The outbox is not looked at again.                                      *)
Page(dv) ==
  LET s == active[dv]
      Q == {e \in queue[dv] : e.scope = s}
  IN
  /\ dv \in paging /\ Admitted(dv)
  /\ \A e \in queue[dv] : e.scope = s
  /\ row' = [row EXCEPT ![s] = Written(s, Q)]
  /\ held' = [held EXCEPT ![dv][s] =
       {i \in Item : \/ row'[s][i].st = "alive"
                     \/ row'[s][i] = NoRow /\ i \in @}]
  /\ queue' = [queue EXCEPT ![dv] = {}]
  /\ UNCHANGED <<member, receipt, closed, takings, wiped, active, box, answer,
                 paging, now, changes, unsent>>

(* The run ends.                                                           *)
Finish(dv) ==
  /\ dv \in paging
  /\ paging' = paging \ {dv}
  /\ UNCHANGED <<server, active, held, box, queue, answer, now, changes, unsent>>

(* initializeSessionScope of a member: the house is read, which transfers  *)
(* the account, the account's queue is imported and its snapshots cleared. *)
Enter(dv) ==
  /\ active[dv] = Account(dv) /\ member[Owner[dv]] # NoHouse
  /\ Migrate(Owner[dv], Importable(dv))
  /\ active' = [active EXCEPT ![dv] = member[Owner[dv]]]
  /\ held' = [held EXCEPT ![dv][Account(dv)] = {}]
  /\ queue' = [queue EXCEPT ![dv] = @ \ Importable(dv)]
  /\ paging' = paging \ {dv}
  /\ UNCHANGED <<box, answer, now, changes, unsent>>

(* The device learns that its house is lost: clearDataScope.               *)
Purge(dv) ==
  LET h == active[dv] IN
  /\ h \in House /\ ~Admitted(dv)
  /\ active' = [active EXCEPT ![dv] = Account(dv)]
  /\ held' = [held EXCEPT ![dv][h] = {}]
  /\ queue' = [queue EXCEPT ![dv] = {e \in @ : e.scope # h}]
  /\ box' = [box EXCEPT ![dv] =
       [d \in Dinner |-> IF @[d] # NoRecord /\ @[d].scope = h THEN NoRecord ELSE @[d]]]
  /\ paging' = paging \ {dv}
  /\ UNCHANGED <<server, answer, now, changes, unsent>>

DCNext ==
  \/ \E dv \in Device, i \in Item, op \in {"upsert", "delete"} : Change(dv, i, op)
  \/ \E dv \in Device, d \in Dinner : Confirm(dv, d) \/ Flush(dv, d)
  \/ \E u \in User, h \in House : Join(u, h)
  \/ \E u \in User : Transfer(u) \/ Leave(u)
  \/ \E dv \in Device :
        \/ Reconcile(dv) \/ Discard(dv) \/ Flushed(dv) \/ Import(dv)
        \/ Page(dv) \/ Finish(dv) \/ Enter(dv) \/ Purge(dv)

DCSpec == DCInit /\ [][DCNext]_DCvars

(***************************************************************************)
(* Properties.                                                             *)
(***************************************************************************)
(* Every component has its kind of value: rows, receipts and takings of the *)
(* server, records, mutations and answers of the devices.                  *)
DCTypeOK ==
  /\ member \in [User -> House \cup {NoHouse}]
  /\ row \in [Scope -> [Item -> ItemRow]]
  /\ receipt \in [Scope -> SUBSET Dinner]
  /\ takings \subseteq [d : Dinner, scope : Scope, at : 0 .. MaxTime]
  /\ active \in [Device -> Scope]
  /\ held \in [Device -> [Scope -> SUBSET Item]]
  /\ box \in [Device -> [Dinner -> {NoRecord} \cup OutboxRecord]]
  /\ queue \in [Device -> SUBSET QueuedChange]
  /\ answer \in [Device -> {NoAnswer} \cup AnswerFound]
  /\ unsent \subseteq QueuedChange
  /\ closed \subseteq House /\ wiped \subseteq Dinner /\ paging \subseteq Device
  /\ now \in 0 .. MaxTime /\ changes \in 0 .. MaxChanges

(* However often a dinner is sent, from whatever scope its device is in by *)
(* then, its ingredients are taken from a pantry once (the receipts of     *)
(* consumeDinner, moved by migrateUserSharedDataToHouse).                  *)
TakenOnce == \A x, y \in takings : x.d = y.d => x = y

(* Receipts go where their dinners go, through migrations, imports and the *)
(* end of a house: a dinner the device holds as acknowledged has its       *)
(* receipt on the server, unless it went with its house, so that a later   *)
(* retry is recognised (reconcileDinnerConsumption against the migration   *)
(* of the receipts); and no receipt is without the diary row of its dinner. *)
ReceiptsGoAlong ==
  /\ \A dv \in Device, d \in Dinner :
       box[dv][d].st = "acknowledged" => Receipted(d) \/ d \in wiped
  /\ \A s \in Scope : \A d \in receipt[s] : row[s][d] # NoRow

(* An answer that comes after the device lost its house brings nothing of  *)
(* the house back: no entry, no lot, no outbox record (assertContext of    *)
(* reconcileDinnerConsumption against clearDataScope).                     *)
NothingOfALostHouse ==
  \A dv \in Device : \A h \in House \ {active[dv]} :
    /\ held[dv][h] = {}
    /\ \A d \in Dinner : box[dv][d] # NoRecord => box[dv][d].scope # h

(* A queued edit leaves the device only by being sent.                     *)
EditsAreSent == unsent = {}

(* The retry of a dinner the user confirmed, under the same operation id,  *)
(* is safe: the server does not refuse it as a conflict.                   *)
RetryIsSafe ==
  \A dv \in Device, d \in Dinner :
    Pending(dv, d) /\ Admitted(dv) => Verdict(active[dv], d) # "conflict"
=============================================================================
