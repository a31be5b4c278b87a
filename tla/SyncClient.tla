----------------------------- MODULE SyncClient -----------------------------
(***************************************************************************)
(* The devices of a house keeping one shopping list: the store the user    *)
(* edits, its copy in IndexedDB, the queue of mutations, the cursor, and   *)
(* the loop of syncNow that uploads the queue and applies the feed.  Every *)
(* await of the code is a point where another action may come first.       *)
(*                                                                         *)
(* The server is AtomicStore, which SyncServer implements for a house,     *)
(* with the numbers its feed is read by.  A request that the device has    *)
(* given up goes on at the server.                                         *)
(*                                                                         *)
(* A list maps an item to the mutation its content comes from, or to 0     *)
(* when the item is not on the list.  Real time advances whenever a        *)
(* mutation is stamped, which is when it is queued and not when the user   *)
(* made the edit.                                                          *)
(***************************************************************************)
EXTENDS SyncVersion, Sequences

CONSTANTS
  Device,       \* deviceIds
  Editor,       \* the devices whose users edit the list
  Item,         \* ids of shopping list items
  HouseScope,   \* the scope the list is kept in
  Ahead,        \* how far the clock of each device is ahead of real time
  Skew,         \* maxClientClockSkewMs
  BatchLimit,   \* MAX_MUTATIONS_PER_REQUEST
  PageLimit,    \* SERVER_CHANGE_PAGE_SIZE, the limit of readChanges
  MaxPages,     \* MAX_SYNC_PAGES
  MaxEdits,     \* bound on the number of edits
  MaxFaults     \* bound on the reloads and failed requests of each device

ASSUME DevicesTyped == Device \subseteq Nat /\ Editor \subseteq Device
ASSUME AheadTyped   == Ahead \in [Device -> Nat]
ASSUME LimitsTyped  == /\ BatchLimit \in Nat \ {0} /\ PageLimit \in Nat \ {0}
                       /\ MaxPages \in Nat \ {0}
                       /\ Skew \in Nat /\ MaxEdits \in Nat
                       /\ MaxFaults \in [Device -> Nat]
                       /\ MaxLinks \in Nat
ASSUME ItemsPlain   == IsFiniteSet(Item) /\ Item \cap DinnerEntity = {}
ASSUME NoItemIsNone == NoItem \notin Version

VARIABLES
  now,        \* real time
  edits,      \* the number of edits made so far, the last mutationId
  created,    \* the items some device has created
  store,      \* items of useShoppingListStore
  disk,       \* the list in IndexedDB
  writes,     \* pendingStorageWrites: the lists that are still to be written
  enqueues,   \* pendingQueueWrites: the drafts of mutations still to be queued
  queue,      \* the sync queue in IndexedDB
  cursor,     \* the cursor in IndexedDB
  sync,       \* the run of syncNow
  faults,     \* the reloads and failed requests of each device
  requests,   \* the requests at the server
  rows,       \* the rows of the server
  done,       \* the mutations the server has processed
  number      \* the server sequence of each row, 0 without a row

local == <<now, edits, created, store, disk, writes, enqueues, queue, cursor>>
server == <<rows, done, number>>
vars == <<now, edits, created, store, disk, writes, enqueues, queue, cursor,
          sync, faults, requests, rows, done, number>>

Server == INSTANCE AtomicStore WITH
  StoreKey <- {HouseScope} \X Item,
  Entry    <- {}

List     == [Item -> Nat]
Draft    == [id : Nat, item : Item, deleted : BOOLEAN]
Mutation == [id : Nat, device : Device, item : Item, deleted : BOOLEAN, client : Nat]
Change   == [item : Item, shown : Nat]

Attempt  == UNION {{d} \X (0..MaxFaults[d]) : d \in Device}

NoRequest == [open |-> FALSE, rest |-> {}, from |-> 0]
Requests  == [open : BOOLEAN, rest : SUBSET Mutation, from : Nat]

Idle == [pc |-> "idle", waits |-> 0, from |-> 0, next |-> 0, more |-> FALSE,
         batch |-> {}, changes |-> {}, list |-> [i \in Item |-> 0], pages |-> 0]

SyncType == [pc : {"idle", "queue", "answer", "read", "write", "listen", "advance",
                   "delete"},
             waits : Nat, from : Nat, next : Nat, more : BOOLEAN,
             batch : SUBSET Mutation, changes : SUBSET Change, list : List,
             pages : Nat]

(* The request a device is waiting for.                                    *)
Current(d) == <<d, faults[d]>>

TypeOK ==
  /\ now \in Nat /\ edits \in Nat /\ created \subseteq Item
  /\ store \in [Device -> List] /\ disk \in [Device -> List]
  /\ writes \in [Device -> Seq(List)]
  /\ enqueues \in [Device -> Seq(Draft)]
  /\ queue \in [Device -> SUBSET Mutation]
  /\ cursor \in [Device -> Nat]
  /\ sync \in [Device -> SyncType]
  /\ faults \in [Device -> Nat] /\ \A d \in Device : faults[d] <= MaxFaults[d]
  /\ requests \in [Attempt -> Requests]
  /\ \A d \in Device : sync[d].pc = "answer" <=> requests[Current(d)].open
  /\ rows \in [{HouseScope} \X Item -> Row]
  /\ done \subseteq [scope : {HouseScope}, entity : Item, version : Version]
  /\ number \in [Item -> Nat]

Init ==
  /\ now = 0 /\ edits = 0 /\ created = {}
  /\ store = [d \in Device |-> [i \in Item |-> 0]] /\ disk = store
  /\ writes = [d \in Device |-> <<>>] /\ enqueues = [d \in Device |-> <<>>]
  /\ queue = [d \in Device |-> {}] /\ cursor = [d \in Device |-> 0]
  /\ sync = [d \in Device |-> Idle] /\ faults = [d \in Device |-> 0]
  /\ requests = [a \in Attempt |-> NoRequest]
  /\ number = [i \in Item |-> 0]
  /\ Server!StoreInit

-----------------------------------------------------------------------------
(* The user edits the list.                                                *)

(* persistAndQueue: the whole list joins the chain of storage writes, the  *)
(* mutation the chain of queue writes; neither waits for the other.        *)
PersistAndQueue(d, i, deleted) ==
  LET id   == edits + 1
      list == [store[d] EXCEPT ![i] = IF deleted THEN 0 ELSE id]
  IN /\ d \in Editor /\ edits < MaxEdits /\ edits' = id
     /\ store' = [store EXCEPT ![d] = list]
     /\ writes' = [writes EXCEPT ![d] = Append(@, list)]
     /\ enqueues' = [enqueues EXCEPT ![d] =
          Append(@, [id |-> id, item |-> i, deleted |-> deleted])]
     /\ UNCHANGED <<now, disk, queue, cursor, sync, faults, requests, rows, done, number>>

(* addItem: the id is new.                                                 *)
AddItem(d, i) ==
  /\ i \notin created /\ created' = created \cup {i}
  /\ PersistAndQueue(d, i, FALSE)

(* updateItem, togglePurchased.                                            *)
UpdateItem(d, i) ==
  /\ store[d][i] # 0
  /\ PersistAndQueue(d, i, FALSE)
  /\ UNCHANGED created

RemoveItem(d, i) ==
  /\ store[d][i] # 0
  /\ PersistAndQueue(d, i, TRUE)
  /\ UNCHANGED created

(* The oldest write of the chain reaches IndexedDB.                        *)
Persist(d) ==
  /\ writes[d] # <<>>
  /\ disk' = [disk EXCEPT ![d] = Head(writes[d])]
  /\ writes' = [writes EXCEPT ![d] = Tail(@)]
  /\ UNCHANGED <<now, edits, created, store, enqueues, queue, cursor, sync, faults,
                 requests, rows, done, number>>

(* createPantryMutation: the mutation of a draft, with the clock of the    *)
(* device.                                                                 *)
Stamped(d, draft) ==
  [id |-> draft.id, device |-> d, item |-> draft.item, deleted |-> draft.deleted,
   client |-> now + 1 + Ahead[d]]

(* Mutant: a run is not told of the queue writes it waits for.             *)
EnqueueUncounted(d) ==
  /\ enqueues[d] # <<>>
  /\ now' = now + 1
  /\ queue' = [queue EXCEPT ![d] = @ \cup {Stamped(d, Head(enqueues[d]))}]
  /\ enqueues' = [enqueues EXCEPT ![d] = Tail(@)]
  /\ UNCHANGED <<edits, created, store, disk, writes, cursor, sync, faults, requests,
                 rows, done, number>>

(* The oldest draft of the chain is stamped and queued.                    *)
Enqueue(d) ==
  /\ enqueues[d] # <<>>
  /\ now' = now + 1
  /\ queue' = [queue EXCEPT ![d] = @ \cup {Stamped(d, Head(enqueues[d]))}]
  /\ enqueues' = [enqueues EXCEPT ![d] = Tail(@)]
  /\ sync' = [sync EXCEPT ![d].waits = IF @ = 0 THEN 0 ELSE @ - 1]
  /\ UNCHANGED <<edits, created, store, disk, writes, cursor, faults, requests,
                 rows, done, number>>

-----------------------------------------------------------------------------
(* syncNow.                                                                *)

Goto(d, from, to) == sync[d].pc = from /\ sync' = [sync EXCEPT ![d].pc = to]

(* The app has loaded or is online again; one run at a time.  The run      *)
(* waits for the queue writes that have been issued by now.                *)
StartSync(d) ==
  /\ sync[d].pc = "idle"
  /\ sync' = [sync EXCEPT ![d] = [Idle EXCEPT !.pc = "queue", !.from = cursor[d],
                                              !.waits = Len(enqueues[d])]]
  /\ UNCHANGED <<local, faults, requests, server>>

(* compareMutations.                                                       *)
Earlier(m, n) == m.client < n.client \/ (m.client = n.client /\ m.id < n.id)

First(m, ms) == m \in ms /\ \A n \in ms \ {m} : Earlier(m, n)

Batch(d) == {m \in queue[d] :
               Cardinality({n \in queue[d] : Earlier(n, m)}) < BatchLimit}

(* The oldest mutations of the queue are sent with the cursor.             *)
SendRequest(d) ==
  /\ sync[d].pc = "queue" /\ sync[d].waits = 0
  /\ sync' = [sync EXCEPT ![d].pc = "answer", ![d].batch = Batch(d)]
  /\ requests' = [requests EXCEPT ![Current(d)] =
                    [open |-> TRUE, rest |-> Batch(d), from |-> sync[d].from]]
  /\ UNCHANGED <<local, faults, server>>

(* Mutant: a failed request is cleaned up like a successful one.           *)
FailRequestAccepted(d) ==
  /\ sync[d].pc = "answer" /\ faults[d] < MaxFaults[d]
  /\ sync' = [sync EXCEPT ![d].pc = "delete"]
  /\ faults' = [faults EXCEPT ![d] = @ + 1]
  /\ UNCHANGED <<local, requests, server>>

(* The request fails or times out; what the server does with it is         *)
(* unknown.                                                                *)
FailRequest(d) ==
  /\ sync[d].pc = "answer" /\ faults[d] < MaxFaults[d]
  /\ sync' = [sync EXCEPT ![d] = Idle]
  /\ faults' = [faults EXCEPT ![d] = @ + 1]
  /\ UNCHANGED <<local, requests, server>>

(* What the list becomes by the changes of a page.                         *)
Merged(list, changes) ==
  [i \in Item |-> IF \E c \in changes : c.item = i
                  THEN (CHOOSE c \in changes : c.item = i).shown ELSE list[i]]

(* applyServerChanges: the list is read from IndexedDB, ...                *)
ReadList(d) ==
  /\ sync[d].pc = "read" /\ sync[d].changes # {}
  /\ sync' = [sync EXCEPT ![d].pc = "write",
                          ![d].list = Merged(disk[d], sync[d].changes)]
  /\ UNCHANGED <<local, faults, requests, server>>

NothingToApply(d) ==
  /\ Goto(d, "read", "advance") /\ sync[d].changes = {}
  /\ UNCHANGED <<local, faults, requests, server>>

(* ... written back as a whole, ...                                        *)
WriteList(d) ==
  /\ Goto(d, "write", "listen")
  /\ disk' = [disk EXCEPT ![d] = sync[d].list]
  /\ UNCHANGED <<now, edits, created, store, writes, enqueues, queue, cursor,
                 faults, requests, server>>

(* Mutant: the store is not told.                                          *)
NotifyNobody(d) ==
  /\ Goto(d, "listen", "advance")
  /\ UNCHANGED <<local, faults, requests, server>>

(* ... and handed to the store.                                            *)
NotifyStore(d) ==
  /\ Goto(d, "listen", "advance")
  /\ store' = [store EXCEPT ![d] = sync[d].list]
  /\ UNCHANGED <<now, edits, created, disk, writes, enqueues, queue, cursor,
                 faults, requests, server>>

(* Mutant: the cursor is written as soon as the answer is there.           *)
WriteCursorEarly(d) ==
  /\ sync[d].pc \in {"read", "advance"}
  /\ sync' = [sync EXCEPT ![d].pc = IF @ = "read" THEN "read" ELSE "delete",
                          ![d].from = sync[d].next]
  /\ cursor' = [cursor EXCEPT ![d] = sync[d].next]
  /\ UNCHANGED <<now, edits, created, store, disk, writes, enqueues, queue,
                 faults, requests, server>>

(* The cursor only moves forward.                                          *)
WriteCursor(d) ==
  LET next == IF sync[d].next > sync[d].from THEN sync[d].next ELSE sync[d].from
  IN /\ sync[d].pc = "advance"
     /\ sync' = [sync EXCEPT ![d].pc = "delete", ![d].from = next]
     /\ cursor' = [cursor EXCEPT ![d] = next]
     /\ UNCHANGED <<now, edits, created, store, disk, writes, enqueues, queue,
                    faults, requests, server>>

(* Mutant: the queue is emptied, not only the batch.                       *)
DropQueue(d) ==
  /\ sync[d].pc = "delete" /\ sync[d].batch # {}
  /\ queue' = [queue EXCEPT ![d] = {}]
  /\ sync' = [sync EXCEPT ![d].batch = {}]
  /\ UNCHANGED <<now, edits, created, store, disk, writes, enqueues, cursor,
                 faults, requests, server>>

(* The mutations of the batch leave the queue one by one.                  *)
DeleteQueued(d) ==
  /\ sync[d].pc = "delete"
  /\ \E m \in sync[d].batch :
       /\ First(m, sync[d].batch)
       /\ queue' = [queue EXCEPT ![d] = @ \ {m}]
       /\ sync' = [sync EXCEPT ![d].batch = @ \ {m}]
  /\ UNCHANGED <<now, edits, created, store, disk, writes, enqueues, cursor,
                 faults, requests, server>>

Complete(d) == queue[d] = {} /\ ~sync[d].more

FinishSync(d) ==
  /\ sync[d].pc = "delete" /\ sync[d].batch = {}
  /\ Complete(d) \/ sync[d].pages + 1 = MaxPages
  /\ sync' = [sync EXCEPT ![d] = Idle]
  /\ UNCHANGED <<local, faults, requests, server>>

NextPage(d) ==
  /\ sync[d].pc = "delete" /\ sync[d].batch = {}
  /\ ~Complete(d) /\ sync[d].pages + 1 < MaxPages
  /\ sync' = [sync EXCEPT ![d].pc = "queue", ![d].pages = @ + 1]
  /\ UNCHANGED <<local, faults, requests, server>>

(* Mutant: the answer of before the reload is still awaited.               *)
ReloadAwaiting(d) ==
  /\ faults[d] < MaxFaults[d]
  /\ store' = [store EXCEPT ![d] = disk[d]]
  /\ writes' = [writes EXCEPT ![d] = <<>>]
  /\ enqueues' = [enqueues EXCEPT ![d] = <<>>]
  /\ sync' = [sync EXCEPT ![d] = Idle]
  /\ UNCHANGED <<now, edits, created, disk, queue, cursor, faults, requests, server>>

(* The app is closed or reloaded: what was only in memory is gone, and the *)
(* store is hydrated from IndexedDB.                                       *)
Reload(d) ==
  /\ faults[d] < MaxFaults[d]
  /\ faults' = [faults EXCEPT ![d] = @ + 1]
  /\ store' = [store EXCEPT ![d] = disk[d]]
  /\ writes' = [writes EXCEPT ![d] = <<>>]
  /\ enqueues' = [enqueues EXCEPT ![d] = <<>>]
  /\ sync' = [sync EXCEPT ![d] = Idle]
  /\ UNCHANGED <<now, edits, created, disk, queue, cursor, requests, server>>

-----------------------------------------------------------------------------
(* POST /v1/sync.                                                          *)

(* The entry the server makes of a mutation.                               *)
EntryOf(m) ==
  [scope |-> HouseScope, entity |-> m.item,
   version |-> [client |-> EffectiveClientTime(m.client, now, Skew),
                server |-> now, device |-> m.device, mutation |-> m.id,
                deleted |-> m.deleted, body |-> m.id, links |-> {}]]

Processed(m) == \E e \in done : e.version.mutation = m.id

(* A row that is written takes the next number of the sequence.            *)
Renumbered ==
  \E top \in {0} \cup {number[i] : i \in Item} :
    /\ \A i \in Item : number[i] <= top
    /\ number' = [i \in Item |-> IF rows'[<<HouseScope, i>>] = rows[<<HouseScope, i>>]
                                 THEN number[i] ELSE top + 1]

(* applyMutation, for the mutations of a request in their order.           *)
ApplyMutation(a) ==
  /\ \E m \in requests[a].rest :
       /\ First(m, requests[a].rest)
       /\ IF Processed(m) THEN UNCHANGED server
          ELSE Server!Apply(EntryOf(m)) /\ Renumbered
       /\ requests' = [requests EXCEPT ![a].rest = @ \ {m}]
  /\ UNCHANGED <<local, sync, faults>>

Pending(above) == {i \in Item : number[i] > above}
Page(above) == {i \in Pending(above) :
                  Cardinality({k \in Pending(above) : number[k] < number[i]}) < PageLimit}

(* What a device shows of a row.                                           *)
Shown(i) == LET row == rows[<<HouseScope, i>>]
            IN IF row = NoItem \/ row.deleted THEN 0 ELSE row.body

(* readChanges and the answer, which only a device that still waits for it *)
(* receives.  A full page means that there may be more.                    *)
Answer(a) ==
  LET d    == a[1]
      page == Page(requests[a].from)
  IN /\ requests[a].open /\ requests[a].rest = {}
     /\ requests' = [requests EXCEPT ![a] = NoRequest]
     /\ IF a = Current(d)
        THEN \E next \in {requests[a].from} \cup {number[i] : i \in page} :
               /\ \A i \in page : number[i] <= next
               /\ page # {} => next # requests[a].from
               /\ sync' = [sync EXCEPT
                    ![d].pc = "read", ![d].next = next,
                    ![d].more = Cardinality(page) >= PageLimit,
                    ![d].changes = {[item |-> i, shown |-> Shown(i)] : i \in page}]
        ELSE UNCHANGED sync
     /\ UNCHANGED <<local, faults, server>>

-----------------------------------------------------------------------------
UserStep(d) == \E i \in Item : AddItem(d, i) \/ UpdateItem(d, i) \/ RemoveItem(d, i)

SyncStep(d) ==
  \/ SendRequest(d) \/ ReadList(d) \/ NothingToApply(d) \/ WriteList(d)
  \/ NotifyStore(d) \/ WriteCursor(d) \/ DeleteQueued(d) \/ FinishSync(d)
  \/ NextPage(d)

ServerStep(a) == ApplyMutation(a) \/ Answer(a)

Next ==
  \/ \E d \in Device : \/ UserStep(d) \/ Persist(d) \/ Enqueue(d) \/ StartSync(d)
                       \/ SyncStep(d) \/ FailRequest(d) \/ Reload(d)
  \/ \E a \in Attempt : ServerStep(a)

Spec == Init /\ [][Next]_vars

(* Writes to IndexedDB and started runs go on, the app is loaded or comes  *)
(* online again and again, and the server answers the requests that are    *)
(* not given up.                                                           *)
LiveSpec ==
  /\ Spec
  /\ \A d \in Device : /\ WF_vars(Persist(d)) /\ WF_vars(Enqueue(d))
                       /\ WF_vars(StartSync(d)) /\ WF_vars(SyncStep(d))
                       /\ WF_vars(ServerStep(Current(d)))

-----------------------------------------------------------------------------
(* Properties.                                                             *)

(* A mutation leaves the queue of its device only after the server has     *)
(* processed it, whatever answers are lost, whatever is edited while the   *)
(* run goes on and wherever a reload cuts the run short.                   *)
QueuedUntilProcessed ==
  [][\A d \in Device : \A m \in queue[d] \ queue'[d] : Processed(m)]_vars

(* A change is written to IndexedDB before the cursor passes it, so that a *)
(* reload between the two loses nothing: on a device whose user does not   *)
(* edit, the rows up to the cursor are the ones on its list.               *)
CursorBehindList ==
  \A d \in Device \ Editor, i \in Item :
    0 < number[i] /\ number[i] <= cursor[d] => disk[d][i] = Shown(i)

(* What is queued reaches the server, through failed requests and reloads. *)
EventuallyUploaded ==
  \A d \in Editor : \A id \in 1..MaxEdits :
    (\E m \in queue[d] : m.id = id) ~> (\E e \in done : e.version.mutation = id)

(* A device whose user does not edit ends up showing the list of the       *)
(* server.                                                                 *)
EventuallyShown ==
  \A d \in Device \ Editor : <>[](\A i \in Item : store[d][i] = Shown(i))

Quiet(d) == sync[d].pc = "idle" /\ writes[d] = <<>> /\ enqueues[d] = <<>>

(* docs/superpowers/plans/2026-09-13-shopping-list.md:24: a remote change  *)
(* updates local IndexedDB.  Of the items a device never edited, those its *)
(* cursor has passed are on its list as the server has them once nothing   *)
(* is under way.                                                           *)
RemoteChangeUpdatesList ==
  \A d \in Device, i \in Item :
    /\ Quiet(d) /\ 0 < number[i] /\ number[i] <= cursor[d]
    /\ \A e \in done : e.entity = i => e.version.device # d
    => disk[d][i] = Shown(i)
=============================================================================
