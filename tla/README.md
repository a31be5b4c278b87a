# iKuck: a TLA+ model of synchronization, houses, plans, dinners, pantries and AI dispatch

iKuck is a local-first recipe and pantry app. A device keeps its lists in
IndexedDB and queues what the user changes; a Fastify server on PostgreSQL takes
the queues, decides what wins and hands out a numbered feed of changes. Users who
cook together share a *house*, to which the shared part of their data moves. They
plan their meals by commands, confirm the dinners they cooked, and may let an AI
provider suggest recipes or chat, if they consent.

This directory models what of it has state and concurrency in TLA+, checks it
with TLC on small instances and proves the most important invariants with TLAPS.
Paths below are relative to the root of the repository; `repository.ts` alone is
`backend/src/sync/repository.ts`.

## 1. The system

### Components

| Component | State | Operations | What is hard | What makes it correct |
|---|---|---|---|---|
| Sync server (`backend/src/sync/repository.ts`, `routes/sync.ts`, migration `0012`) | `sync_items` (one row per scope and entity, with version and server sequence), `processed_sync_mutations`, the sequence | `applyMutation`, `readChanges` | concurrent transactions at READ COMMITTED, retries, numbers drawn before commit, membership changes | last write wins; a mutation is processed once; a reader by cursor misses nothing; only members write |
| Sync client (`frontend/src/sync/syncQueue.ts`) | queue, cursor and device id in IndexedDB; the run of `syncNow` | `enqueuePantryMutation`, `syncNow`, `applyServerChanges` | every `await` is an interleaving point; lost answers, reloads, clocks | nothing leaves the queue unprocessed; the cursor never passes what the device lacks; everything arrives |
| Shopping list store (`frontend/src/store/shoppingListStore.ts`, `storage/shoppingListStorage.ts`) | list in memory, list in IndexedDB, two chains of pending writes | add, update, remove, hydrate | whole-list writes of two writers | a remote change reaches the list |
| Houses (`backend/src/house`, `profile/repository.ts`) | houses, memberships with roles, pending marks, accounts | create, add, change role, remove, leave, delete account, `GET /v1/house`, import | last-admin checks under concurrency; a migration of three transactions that may stop anywhere | an admin in every house; no rows without an account; every migration completes |
| Service grants (`backend/src/s2s`) | grants and credentials hanging on a membership | create, rotate, revoke, read a snapshot | granting races with demotion | a grant has a sponsor who is an admin |
| Meal plan (`repository.ts` 2744-3328, `frontend/src/mealPlan`) | plan rows, receipts, conflicts, quarantine; outbox of the device | commands, import, recovery | repeated commands, revisions, migration of two plans | a receipt replays the same answer; no command of an old revision |
| Dinner consumption (`repository.ts` 3548-3723, `storage/dinnerConsumptionStorage.ts`) | receipts, lots, outbox | consume, undo, upload | several rows in one transaction, retries | a dinner consumes its lots once |
| AI consent and dispatch (`repository.ts` 2676-2732 and 3490-3547, `sync/dispatchCapacity.ts`, `ai/chefChat*.ts`) | consent row, gate with queue, quota reservations | update consent, dispatch, reserve, settle | revocation against a running dispatch; time-outs; process death | nothing is sent without consent; no slot is lost |
| Accounts (`backend/src/auth`) | users, sessions, one-time tokens, counters in Redis | register, verify, log in, reset | a login in progress during a reset | a token works once |
| Scopes of the device (`frontend/src/sync/scopeWriteFence.ts`, `scopeContext.ts`) | revoked and uncertain scopes, pending writes | revoke, purge, resume | late writes after a purge | no data of one account in another |
| Pantry on the device (`frontend/src/storage/pantryStorage.ts`, `store/localPantryStore.ts`) | a row in IndexedDB, its mirror in localStorage, a backup of copies, an archive, a marker; the memory of each tab | hydrate, edit, write, fall back, choose a copy, reopen | several tabs, two storages that fail separately, tabs closed in between | an edit that was reported as saved is in the pantry or in a copy; no copy is dropped |
| Bring and candidates (`backend/src/bring`, `pantry/candidates*.ts`) | sealed session, candidates | read list, change items, accept, ignore | an external list that changes meanwhile | a candidate is resolved once |
| Pure algorithms (`shared/src`, `frontend/src/domain`) | none | consumption by expiry, merges, parsing | arithmetic at boundaries | agreement with a reference definition |
| Providers, user interface, configuration, deployment | none of their own worth modelling | | | |

### How they interact

The store calls `enqueueEntityMutation` and never waits for it. `syncNow` sends a
batch of the queue together with the cursor to `POST /v1/sync`; the route calls
`applyMutation` once per mutation and `readChanges` once, and answers with a page.
`applyServerChanges` writes the page into the storage of each entity type and
calls the listeners of the stores. Houses, accounts and grants share tables and
row locks with the sync server: `resolveTransactionScope` locks the user and the
house of a mutation, and joining a house moves the rows of the account with
`migrateUserSharedDataToHouse`.

## 2. The modules

| Module | What it is |
|---|---|
| `SyncVersion` | versions of an entity, the order `wins`, what one mutation makes of the row it finds (`normalizeDiaryMutation`, `mergeStaleDinnerRecipeLinks`) |
| `AtomicStore` | abstract specification of the sync server: a mutation is one step |
| `SyncServer` | `applyMutation` and `readChanges` as concurrent transactions; shown to implement `AtomicStore` |
| `SyncClient` | devices with store, IndexedDB, queue and the loop of `syncNow`, composed with `AtomicStore` as their server |
| `HouseMembership` | houses, roles, leaving, account deletion, grants, and the pending mark of the migration |
| `LockOrder` | the locks of every transaction of the server, in the order they are taken |
| `MealPlan` | commands of the meal plan, receipts, the move of a plan into a house, conflicts |
| `DinnerConsumption` | confirming a dinner: device, outbox, queue and pantry of the server together |
| `AiDispatch` | consent, dispatch gate, pool of connections, quotas of chat and generation |
| `DeviceScope` | what one browser keeps of a house: sessions, bootstrap, write fence, purge |
| `PantryStorage` | the pantry of one scope in the tabs of a browser: row, mirror, conflicts, recovery |
| `MC...` | instances of each for TLC |
| `SyncServerProofs`, `SyncClientProofs`, `HouseMembershipProofs`, `LockOrderProofs`, `MealPlanProofs`, `AiDispatchProofs`, `DeviceScopeProofs` | theorems about each; `SyncServerProofs` also that `SyncServer` implements `AtomicStore` |
| `PantryProofs` | theorems about `PantryStorage` and `DinnerConsumption`, whose specification has names with `DC` so that one module can extend both |

The modules meet where the code does. `SyncServer` implements `AtomicStore`, and
`SyncClient` has `AtomicStore` as its server. `LockOrder` justifies what the others
assume of locks: that a transaction which waits is served in the end, and that a
migration is one step for the writers of its account, so that `MealPlan`,
`DinnerConsumption` and `HouseMembership` may make it one action.

### SyncServer

A transaction has a program counter that names the statement it performs next:

| pc | statement of `applyMutation` | actions |
|---|---|---|
| `idle` | request arrives; `prepareMutation` reads the clock | `Begin` |
| `scope` | `users FOR SHARE`, the membership, the scope | `ResolveScope`, `RejectScope` |
| `house` | `houses FOR UPDATE`, the membership again | `LockHouse`, `RejectHouse` |
| `pantry` | advisory lock of the pantry | `LockPantry` |
| `check` | look into `processed_sync_mutations` | `CheckLedger`, `ReplayProcessed` |
| `claim` | insert into it | `ClaimLedger`, `ClaimViolation` |
| `row` | `FOR UPDATE` of a dinner row of an account | `LockRow` |
| `read` | read the row and decide | `ReadExisting`, `RejectLinks` |
| `write` | insert or update; the trigger orders and numbers | `Write`, `InsertViolation` |
| `commit` | the changes become visible | `Commit` |

`Crash` rolls a transaction back at any point. Locks are held until the end of a
transaction, so they are functions of the program counters (`HoldsHouse`,
`HoldsPantry`, `Claims`, `HoldsRow`, `HoldsCommitOrder`). `items`, `sequence` and
`ledger` are the committed tables; what a transaction has written before its
commit is in its own record. `JoinHouse`, `LeaveHouse` and `ReadChanges` are one
action each, with the locks they take.

Abstractions: a payload is the id of the mutation it comes from and, for a
dinner, its set of recipes. Times, devices and mutation ids are numbers, because
the code only compares them. A sequence number drawn and thrown away (the
`nextval` of the update statement, which the trigger replaces) is not drawn.
Not modelled: the branch of `ai_consent` and its lock, `meal_plan_entry` (which
`applyMutation` refuses), the composite scope of `readChanges`, the refusal while
a migration is pending (it is in `HouseMembership`), payload validation, the
in-memory repository used by tests.

### SyncClient

One action per step between two awaits. `PersistAndQueue` puts a whole list on
the chain of storage writes and a draft on the chain of queue writes; `Persist`
and `Enqueue` are the chains. `StartSync` .. `FinishSync` are the loop of
`syncNow`: wait for the queue writes issued so far, send, read the list, write it,
tell the store, write the cursor, delete the batch one by one, go on or finish.
`FailRequest` is a time-out or a lost answer: the device gives the request up and
the server goes on with it. `Reload` closes the app: memory is lost, IndexedDB
stays. At the server the mutations of a request are applied one at a time, by
`AtomicStore!Apply`, and requests of several devices interleave; that is sound
because the list is kept in a house scope, where `SyncServer` implements
`AtomicStore`.

Abstractions: one scope and one entity type. An item's content is the mutation it
comes from. Real time advances with every stamp, so no two stamps are equal unless
the clocks of two devices differ. Not modelled: `restoreItem` and `clearPurchased`,
which go through the same `persistAndQueue`, changes of scope or session in the
middle of a run (`current(...)` throws there, which ends a run like
`FailRequest`), failing writes to IndexedDB, the localStorage fallback, several
tabs on one IndexedDB, the errors for a stalled cursor or a foreign scope.

### HouseMembership

A request reads something (`Begin...`), takes its locks and then makes its change
in one action under the lock of the house, because every change of a membership is
made under `houses FOR UPDATE` after a second look at the membership. What was
read before the lock stays in the record of the request. Joining is followed by
`SetPending`, `Migrate`, `Clear`, one transaction each; `Crash` may cut a request
off before any of them. `unmoved` is the set of users with shared rows in their
account scope: `WriteAccount` (a mutation of the account) fills it, `Migrate` and
`ImportQueue` empty it. Deleting a house deletes the pending marks that name it
(foreign key with cascade); deleting a membership deletes its grants.
Not modelled: the content of the rows (`SyncServer` has it), the time zone of a
house, profiles, credentials and their rotation (`rotate` does not change which
memberships sponsor a grant), guest imports.

### LockOrder

A transaction has a kind, and a kind has a plan: the list of locks it takes, in
order. It takes the first ones (`LooksAfter`), reads which house its user is in
(`Look`), takes the rest (`Acquire`), looks at the membership again once the house
is locked (`NoLongerMember`), and commits. A lock names what it is on and its mode;
the modes conflict as PostgreSQL's row locks do (`Conflict`), and the advisory
locks are as strong as `FOR UPDATE`. `Plan` has one definition per kind, read off
the statements of the transaction, with the row locks of the trigger and of
foreign keys. `creator` is `houses.created_by_user_id`: deleting a user sets it to null
in every house the user created (`schema.ts:73`), which locks those rows, also of
houses the user has left (`CreatorLock`). Users may be members and creators of any
houses at the start. Two kinds are known to break the order by themselves, `mark` and
`erase`, and deletions of accounts break it among themselves; `Kinds` says which ones
a run has. Abstractions: all rows of one table in one scope are one lock, which can
only add waiting; the locks of a membership and its grants are named by the pair of
user and house; `CandidatePlan` is the transaction of several candidates, of which
that of a single one takes a part; what is read without a lock is left out, except the
membership. Not modelled: the session lock of the AI dispatch, which is
released before another one is waited for (`AiDispatch` has it).

### MealPlan

One date. `plan` is the row of each scope, `receipts` what each command was
answered in each scope, `conflicts` and `quarantined` what a move left behind. A
command is made once (`Choose`, `Heal`), and may then be applied any number of
times, by `Apply` under the scope it was made for or by `Import` under the house
its user has joined since; so lost answers, retries and late arrivals need no
actions of their own. `Execute` is `runDrizzleMealPlanCommand`: a receipt replays,
`Applies` is `decidePlanCommand`, `Written` the new row. `Migrate` is
`migrateUserMealPlanToHouse` with its three outcomes: the row moves, stays behind as
a conflict, or goes into quarantine. `Resolve` is `resolveMealPlanRecovery`. Every
transaction is one action, as it holds the advisory lock of its plan. Abstractions:
the dish is the operation that chose it; a revision and a sequence number are one;
joining takes a tick of the clock. `chosen` is a history variable. Not modelled:
the feed of plans and its pages, the capability probe, time zones, rows written by
earlier versions (what the quarantine is for), the overlay of unsent commands.

### DinnerConsumption

A dinner is confirmed on a device (`Confirm`: diary, pantry and outbox in one
IndexedDB transaction), sent before everything else of a run (`Flush`), consumed on
the server (`Verdict`, `Taken`), and reconciled (`Reconcile`). Around it are what the
same rows go through: edits with their queue (`Change`, `Page`), the import of an
account's queue (`Import`), the move of rows and receipts into a house (`Migrate`, in
`Transfer`, `Import` and `Enter`), leaving with the end of a house (`Leave`), and the
purge of a device (`Purge`). An answer may be lost (second branch of `Flush`), and
may arrive after the device has changed its scope (`Discard`). Abstractions: the
pantry is one lot and an amount is not kept, `takings` is a history of who took;
every write has an instant of its own; as payloads are not kept, `Superseded` leaves out
the mutations the code drops for having the payload of the dinner although they are newer. Not modelled: amounts, units and expiry, the
journal that replaces IndexedDB transactions where they are missing, the cook event.

### AiDispatch

One server process. `pc` of a call follows `/v1/chef-chat` and `/v1/ai-recipes`:

| pc | code | actions |
|---|---|---|
| `idle`, `reserving` | the quota is reserved, or a generation charged | `BeginChat`, `BeginGeneration`, `ReserveStore`, `ReserveMirror`, `CancelStore`, `ReleaseMirror` |
| `acquire`, `queued` | `dispatchCapacity.ts` | `Acquire`, `Enqueue`, `RefuseSlot`, `WaitTimesOut` |
| `connect`, `lock`, `consent` | `withDatabaseAiConsentDispatchLock` | `Connect`, `ConnectFails`, `Lock`, `LockTimesOut`, `CheckConsent` |
| `dispatch`, `dispatching`, `calling` | the callback under the lock | `DispatchChat`, `DispatchStore`, `Generate`, `Generated` |
| `leaving` | `finally`: lock, connection, slot | `Leave` |
| `sent`, `cancelling` | after the lock | `AnswerChat`, `CancelChat`, `Settle` |

`check` is the flag `checking` of the quota wrapper, with the operation behind it,
which goes on when the route has given up (`CheckTimesOut`). Connections and locks
are functions of the program counters. Devices change the consent by `BeginUpdate`
and `ApplyUpdate`. Faults: Redis or the store fails, the route times out, the
client closes the connection (`Abort`), the process restarts, the operator disables
the chat. The chat is not wired in production: `server.ts` passes no `chefChat`, and
`chefChatQuota.md:3` says so; what is modelled of it is the route the tests build.
Not modelled: a connection lost while its lock is held, an error of the release of
a reservation or of a refund itself, the deletion of the account, which removes the
consent without the session lock (a prompt may then still be sent), the
limit per minute, `cleanup` (nothing schedules it) and `quarantine` (nothing calls
it), the fenced Redis of the deployment, several processes, the dinner endpoint.

### DeviceScope

One tab, one house. Each stored value remembers the *stay* it was submitted in and,
for what came with an answer, the stay that asked for it; a stay ends when a purge
begins. `pending` are the writes of `trackScopedWrite`, which ask `Writable` when
they are taken and again before their put (`CheckWrite`, `LandWrite`). `Revokes` ..
`CompletePurge` are `clearDataScope`. `RunEffect` .. `FailBoot` are the effect of
`App.tsx` with `initializeSessionScope`, one action per step between two awaits.
`StartSync` .. `EndSync` are a synchronization of the house, as far as it can meet a
purge. Three steps are coarser than the code: `OpenHouse` does not wait for what the
account still has pending, which only adds behaviours; `LeaveLost` always clears the
store of the house, where `App.tsx` does so unless the effect has been torn down;
`CompletePurge` deletes the cursor and the import ledger together with the mark of the
purge, which a reload in between would only repeat. `refused` is kept for a session: an
error of membership of an earlier stay of the same session is not told apart. `Reload`
drops the memory of the tab at any point; the browser's storage and
the cookie stay. Not modelled: a second tab (which has another fence), a denied
localStorage, account scopes, the outboxes, the pages of a synchronization.

### PantryStorage

Each tab has the state of its store, what it last observed of the row (`observed`,
`latest`), the copies of a conflict it knows (`active`), the chain of its writes
(`queue`) and the one under way (`job`):

| pc | code | actions |
|---|---|---|
| `idle` | `persistPantrySnapshotWithCrossTabCheck` reads, asks the gate and numbers the write; or the user chooses a copy | `Prepare`, `Choose` |
| `compare` | the transaction that replaces the row if it is the one the tab observed | `Compare`, `CompareFails`, `CloseInConflict` |
| `fallback` | IndexedDB has failed: the mirror alone, under the Web Lock | `Fallback` |
| `mirror` | the mirror follows the row, under the Web Lock | `Mirror`, `MirrorDenied` |
| `refresh` | the row says that its mirror is fresh | `Refresh` |
| `commit`, `copy`, `finalize`, `clear` | `recoverPantrySnapshot`, holding the Web Lock | `Commit`, `CopyToMirror`, `Finalize`, `ClearPause` |

`Hydrate` (of `Open` and `Retry`) reads the pantry into the store and, as Zustand
does, writes back what the store holds. `Edit` stands for every operation of the
store and puts two writes in the chain: that of Zustand, and the one whose end is
reported to the user. `Choose` sets no marker: the code does so only when it restores
a backup, so that a tab may edit while it recovers a conflict without one. `AskPause` is `assertPantrySyncAvailable`, `Reopen` is
`reopenPantryArchivedConflict`. `Close` closes a tab between any two steps.
A revision is the later of the clock and one more than the latest that is known
(`nextPantryRevision`); `ClockMoves` lets the clock the tabs share go on between any two
steps, and it may stand still for as many. Abstractions: a snapshot is the set of the
edits it was built with; the clock does not go back, and all that counts is whether it
has passed the revisions; the storage read for one decision is read in one step; the
conflicts found while two revisions are equal are stored in that step. `saved`,
`lost`, `blind` and `opened` are history: `blind` is a tab whose store does not show what
the row it compares with has (opened during a pause, edited during its own recovery, or
after a fallback), `lost` what such a tab, or a recovery without a copy, overwrote. Not modelled: formats and their
normalization, snapshots without a revision, failing reads, a fallback whose mirror
refuses the value too, browsers without IndexedDB or Web Locks, the pantry of a guest
and its migration, `clearPantrySnapshot`, and the writes of a synchronization or a
dinner, which take the same path with an update function.

## 3. What the runs check

| Run | Instance | Distinct states | Shows |
|---|---|---|---|
| `writes` | 5 mutations, 2 connections, a dinner of a house and a lot of an account, clock 0..1, one device ahead of the tolerance; members join and leave | 729,194 | `LastWriterWins`, `NoLinkLost`, `NothingInWipedHouse`, `OnlyMembersWrite`, `ImplementsStore` |
| `feed` | 3 mutations, one of which may exceed the recipe limit, 1 reader, pages of 1 row | 21,602 | `NoChangeSkipped`, `ProcessedOnce`, `EventuallyProcessed`, `EventuallyRead` |
| `client_progress` | 2 devices, one of which edits twice with its clock ahead and may fail or reload once; batches and pages of 1 | 220,088 | `CursorBehindList`, `QueuedUntilProcessed`, `EventuallyUploaded`, `EventuallyShown` |
| `houses` | 2 users, one with a verified address, 1 house, 2 concurrent requests, 1 crash | 184,364 | `AdminInEveryHouse`, `GrantsHaveAdmins`, `ChangedByAdmins`, `EventuallyMoved`, `EventuallyUnmarked` |
| `locks` | 2 transactions of any of 18 kinds, 2 users, 2 houses with any members and creators | 253,391 | `DeadlockNeedsCreators`, `AccountQuietDuringMigration` |
| `mealplan` | 2 users, 1 house founded by one of them, 3 commands on 1 date | 1,702,447 | `NoChoiceLost`, `NothingQuarantined`, `ConflictIsFinal`, `ResolvedByItsChoice` |
| `dinner` | 2 users with a device each, 1 house, 1 dinner, 1 lot, 1 edit | 107,236 | `TakenOnce`, `ReceiptsGoAlong`, `NothingOfALostHouse` |
| `ai` | 2 chats and 1 generation of one user, 1 device, 2 slots, 1 place in their queue, 3 connections, 2 days, 1 fault | 1,431,643 | `NoSlotLost`, `WorkIsCounted`, `EachDayCounted`, `SentUnderConsent`, `GivenKnowingly` |
| `device` | 2 users of one browser, 2 sign-ins, 1 edit, fault or change of membership | 531,070 | `PurgedStaysGone`, `ShownIsConfirmed`, `PurgedWhenRefused`, `EveryBootEnds` |
| `pantry` | 2 tabs, 2 edits, 2 reads, 2 failed writes, closings, decisions of the user or moves of the clock | 4,219,027 | `AcknowledgedKept`, `OneTabNeverPaused`, `CopiesKept`, `ChosenIsRead` |
| `device_cursor` | 1 user, 1 sign-in, 2 events | violated | `AnswersAreOfThisStay` |
| `ai_unsent` | as `ai` | violated | `UnsentIsCancelled` |

`TypeOK` (`DCTypeOK` in `DinnerConsumption`) is proved in every module and is in no run. What
else is proved the runs still check: a change of the code breaks it there first.

### Bounds

* `Tx`: two connections. Every race of the code is between two transactions: a
  third one can only wait or have finished. For deadlocks it could matter, and
  there the theorem covers any number.
* `Request`: the mutations of a run are fixed, may be sent at any time, by any
  connection, and again and again; so retries, duplicates and every order of
  arrival occur. Their times are chosen so that one is ahead of the tolerance,
  two are equal and one is late.
* `MaxClock`, `MaxCrashes`, `MaxEdits`, `MaxFaults`, `MaxEvents`: bounds in guards.
  One crash or fault is enough to stop each request once at each of its points; the
  proofs hold for any number.
* `PageLimit`, `BatchLimit`: 1, so that a feed of two rows needs two pages and a
  queue of two mutations two requests. `MaxPages` is 2, so that runs end
  incomplete as well. The faults of `client_progress` are those of the device that
  edits: with one edit instead of two the other one may fail and reload as well
  (21,084 states), and the properties hold.
* `MaxLinks`: 1 in `feed`, where the limit is hit, 2 in `writes`.
* Two users are enough for a race of two admins. `HouseRoles.cfg` is the larger
  instance, run by hand: three users, the third being the member who is left
  without an admin, no crash, 163,939 states; it also checks `NoOrphanedRows`. With
  a second house and no verified user the liveness properties hold on 969,158
  states. The three safety properties are proved for any number.
* `MealPlan`: `MaxOps` 3 is a choice, its rival and the choice that heals their
  conflict; two members who resolve it at once need a fourth and are covered by the
  theorem `ResolvedByItsChoiceHolds` alone; two instants order them in every way, and a third user or house takes
  no part in a move. Starting from every membership, instead of a house just
  founded, gives 2.54 million states that satisfy the properties as well. So do
  four instants with two commands (1.10 million states), where a user can leave and
  join again, and two houses (219 thousand); the theorems hold for any number.
* `DinnerConsumption`: larger instances satisfy the properties as well: 5 instants
  and 2 edits (1.65 million states), 2 dinners (1.47 million), one user with two
  devices (294 thousand).
* `AiDispatch`: two slots let one call wait for the consent lock of another, and one
  place in the queue lets the third call wait, be refused or be woken; three
  connections are one more than slots, the least that the configuration accepts.
  All calls are of one user, so that they meet at its lock and quota; its device
  switches all off or the chat on, under whatever revision it has seen; a client that
  goes away counts as the fault. What the run has little room for the theorems have for
  any number: the global limit (`WorkIsCountedHolds`) and grants that follow a
  revocation (`GivenKnowinglyHolds`).
* `PantryStorage`: two tabs are what a conflict is between; two edits are the one
  that was saved and the one that would replace it; two reads let both tabs open, or
  one open again after it was closed. `MaxEvents` bounds failed writes, closings,
  decisions of the user and moves of the clock together: two let a conflict be recovered
  and reopened, or a write fail and its conflict be recovered. `Stride` is 20, more than
  the revisions of a run count on their own, so that one move of the clock passes all.
* `DeviceScope`: with 3 events, two of which may be faults, the safety properties
  hold on 4.28 million states; the liveness property is checked with one.

`CHECK_DEADLOCK FALSE` is said where a run may have nothing left to do:
`HouseMembership` and `LockOrder` (every account deleted, no lock waited for),
`MealPlan`, `DinnerConsumption`, `AiDispatch`, `DeviceScope` and `PantryStorage` (the
bounds on clocks, calls and events are used up). What deadlock could hide there is a property of
its own where the code can block: `DeadlockNeedsCreators`, `NoSlotLost`, `EveryBootEnds`.

### Fairness

* `SyncServer!LiveSpec`: strong fairness of the steps of a transaction, because
  PostgreSQL serves lock requests in the order of arrival and so a step that is
  enabled again and again is taken; strong fairness of sending each mutation,
  because a device keeps it queued until it is accepted; and of reading, because
  every run of `syncNow` ends with a read. Ticks, crashes, joining and leaving are
  not fair.
* `SyncClient!LiveSpec`: weak fairness of the write chains, of a run once begun, of
  starting one (the app is opened or comes online again) and of the server for a
  request that is still awaited. Edits and faults are not fair, and a request
  that was given up may hang at the server for ever.
* `HouseMembership!LiveSpec`: strong fairness of accepted requests, and of
  `GET /v1/house`, which the app of a member sends whenever it starts. Nobody is
  obliged to leave, remove or write.
* `DeviceScope!FairSpec`: weak fairness of what the browser has begun (a pending
  write, a purge, the steps of the bootstrap and of a run) and of the server's
  answers, which time-outs guarantee one way or the other. Nothing the user does is
  fair, nor any fault.
* `LockOrder`, `MealPlan`, `DinnerConsumption`, `AiDispatch` and `PantryStorage` claim no
  liveness.

### Where the code departs from what it says

* **`device_cursor`** (`frontend/src/sync/syncQueue.ts:1250`). A run compares session,
  active scope and personal scope with what they were when it began. When the
  house is lost, purged and entered again meanwhile, all three are the same as
  before, and the answer of the earlier stay is applied: its cursor comes back, and
  what is below it is never downloaded again. syncQueue.ts:612-613 says "Never
  reactivate that House's old queue or cursor on re-admission."
* **`ai_unsent`** (`backend/src/ai/chefChatQuota.ts:31`). The wrapper has one flag for
  all users; a cancel that meets the operation of another call is refused and not
  repeated. The row stays reserved for ever, counts as active and bars its user
  from the chat. chefChatQuota.md:25 and chefChat.test.ts:71 expect a chat that was
  definitely not sent to be cancelled.

### Further counterexamples

Twelve more configurations are not part of the runs and are kept for the traces they
give: `tlc -config <cfg> <MC module>` violates the property named.

| Configuration | Property | What happens |
|---|---|---|
| `SyncServerConflict` | `LastWriterWinsInEveryScope` | A shopping item, diet profile or activity of an account is read and written with no lock in between, so of two requests the older version may be written last (`repository.ts:3765`, 3823). README.md:151 and :153 promise last write wins with a deterministic result. |
| `SyncServerDinnerPayload` | `DinnerPayloadLastWriterWins` | Merging the recipes of a losing dinner writes its device, mutation and server time next to the payload and client time of the winner (`repository.ts:308-320`, 3810-3822); the next entry with that client time is compared with a version the payload does not have. |
| `SyncClientLostChange` | `RemoteChangeUpdatesList` | `applyServerChanges` and the store both write the whole list. An edit between the read and the hand-over to the store removes a remote change of another item from the device, and the cursor has passed it (`frontend/src/sync/syncQueue.ts:826-835`, `frontend/src/store/shoppingListStore.ts:51`). |
| `HousePendingStuck` | `MarkResumed` | A user who leaves, or is removed, while the mark of the migration is set keeps it: `GET /v1/house` resumes only the migration of a member (`backend/src/house/service.ts:105`), and reads of the feed stay refused (`repository.ts:3874-3881`). |
| `LockOrderMark` | `NoDeadlock` | `setHouseMigrationPending` (`repository.ts:4206`) inserts a row whose foreign keys lock the house before the user; adding a member locks the user before the house. `backend/src/profile/repository.ts:95` names the order: "Match the user-then-house lock order of membership creation and shared writes." |
| `LockOrderDelete` | `NoDeadlock` | Two members of different houses, each the creator of the other's house, delete their accounts at once. Each holds its house `FOR UPDATE`, and deleting the user then sets `created_by_user_id` of the other house to null (`schema.ts:73`, `backend/src/profile/repository.ts:132`). PostgreSQL aborts one of the two. `backend/src/profile/repository.ts:95` promises the user-then-house order, which these houses are outside of. |
| `MealPlanOffer` | `OfferCanBeTaken` | The page sends the revision a choice had lost to (`frontend/src/pages/PlanPage.tsx:967`), the server wants the current one (`repository.ts:3468`): after any other change of that date the button "Risolvi" never works again. |
| `DinnerUnsent` | `EditsAreSent` | Reconciling a dinner deletes queued edits of it and of the lot that were never sent (`frontend/src/storage/dinnerConsumptionStorage.ts:557`, 728). docs/shared-households.md:46 says that only an answer lets the client delete mutations. |
| `DinnerRetry` | `RetryIsSafe` | A dinner whose entry a housemate deleted, or whose house was left, is answered 409 for ever (`repository.ts:3579`, 3630), and the outbox is sent before the queue (`frontend/src/sync/syncQueue.ts:1164`). docs/shared-households.md:46 calls the replay safe. |
| `PantrySaved` | `SavedIsKept` | A tab that read before another one's edit was saved writes what it holds. Its IndexedDB write fails; the fallback compares the mirror only, and writes it under a higher revision (`frontend/src/storage/pantryStorage.ts:1403`, 1528). The saved edit is in no reader's selection and in no copy. pantryStorage.test.ts:2442 is named "keeps both successful concurrent tab writes in a durable conflict instead of losing the first edit". |
| `PantryRecovered` | `SavedSurvivesRecovery` | A write that passed the gate before a pause is saved during it, and the recovery replaces it with the copy that was chosen (`frontend/src/storage/indexedDb.ts:399`, `frontend/src/storage/pantryStorage.ts:1811`). pantryStorage.ts:151 tells the user that "both copies are preserved and writes are paused pending explicit recovery". It takes one failed IndexedDB write; without one the property holds. |
| `PantryPaused` | `EditsWaitForRecovery` | A conflict found at the mirror stores its backup and sets no marker (`frontend/src/storage/pantryStorage.ts:1403-1430`); only restoring one does (723, 1785-1790). While such a conflict is recovered the tab can edit; the recovery then sets its store to the chosen copy (`frontend/src/store/localPantryStore.ts:410-430`), the queued edit is saved, and the next one overwrites it. pantryStorage.ts:151 says that "writes are paused pending explicit recovery". |

Smaller observations from `PantryStorage`, none of them a claim of the code: a tab
closed while the transaction of a conflict runs leaves the marker without a backup,
a pause with nothing to choose (`CloseInConflict`); a tab opened during a pause starts
empty and, when another tab has recovered, its next write replaces the recovered
row; opening a second tab writes the row again, so the first tab's next edit is a
conflict although the contents agree.

## 4. What is proved

For every value of the constants (any number of users, houses, entities,
mutations, connections, devices, commands, calls, edits and crashes), from the named
assumptions the modules state about their constants. Most of these say that sets of
names are disjoint or finite and that bounds are natural numbers. Two say more:
`RequestsFit` of `SyncServer` says that a request carries no more links than the
limit, which validation has checked before (`isDinnerEntry` bounds them, and
`backend/src/sync/validation.ts:66` accepts nothing else); `PoolTyped` of `AiDispatch`
says that there are more connections than slots, which the configuration enforces.

| Theorem | Module | Along which argument |
|---|---|---|
| `TypeCorrect` | `SyncServerProofs` | `TypeOK` is inductive |
| `LastWriterWinsHolds` | `SyncServerProofs` | below |
| `NothingInWipedHouseHolds`, `OnlyMembersWriteHolds` | `SyncServerProofs` | `MInv`: whoever has passed the house lock is a member |
| `ProcessedOnceHolds` | `SyncServerProofs` | `RInv`, below |
| `ImplementsStoreHolds` | `SyncServerProofs` | refinement mapping, below |
| `NoLinkLostHolds` | `SyncServerProofs` | `DInv`, below |
| `NoChangeSkippedHolds` | `SyncServerProofs` | `FInv`, below |
| `TypeCorrect` | `SyncClientProofs` | `TypeOK` with `LaterClosed`: the requests a device has not made yet are closed |
| `QueuedUntilProcessedHolds` | `SyncClientProofs` | below |
| `CursorBehindListHolds` | `SyncClientProofs` | `CInv`, below |
| `TypeCorrect` | `HouseMembershipProofs` | a mark names a house that exists, since deleting a house deletes its marks |
| `AdminInEveryHouseHolds`, `GrantsHaveAdminsHolds` | `HouseMembershipProofs` | `Roles` |
| `NoOrphanedRowsHolds`, of `NoOrphanedRows` | `HouseMembershipProofs` | rows are only written for an account that exists at that moment |
| `ChangedByAdminsHolds` | `HouseMembershipProofs` | from the invariants, one case per action |
| `TypeCorrect` | `MealPlanProofs` | `TypeOK` with `HealsInHouse` |
| `NothingQuarantinedHolds`, `ConflictIsFinalHolds` | `MealPlanProofs` | `RInv`, below |
| `NoChoiceLostHolds`, `ResolvedByItsChoiceHolds` | `MealPlanProofs` | below |
| `TypeCorrect`, `NoSlotLostHolds`, `WorkIsCountedHolds`, `EachDayCountedHolds`, `SentUnderConsentHolds`, `GivenKnowinglyHolds` | `AiDispatchProofs` | `IInv`, below |
| `TypeCorrect`, `PurgedStaysGoneHolds`, `ShownIsConfirmedHolds`, `PurgedWhenRefusedHolds` | `DeviceScopeProofs` | `IInv`, below |
| `TypeCorrect` | `PantryProofs` | `TypeOK` is inductive; the job of a tab has the fields its `pc` tells (`JobTyped`) |
| `CopiesKeptHolds` | `PantryProofs` | `Inv`, below |
| `OneTabNeverPausedHolds` | `PantryProofs` | `OneInv`, below |
| `OneTabKeepsSaved` | `PantryProofs` | `SavedInv`, below |
| `ChosenIsReadHolds` | `PantryProofs` | `ChoiceInv`, below; under `TwoTabs` |
| `DCTypeCorrect` | `PantryProofs` | `DCTypeOK` is inductive |
| `TakenOnceHolds`, `ReceiptsGoAlongHolds` | `PantryProofs` | `DinnerInv`, below |
| `NothingOfALostHouseHolds` | `PantryProofs` | with the types inductive as it stands: a step that writes a device's data writes its active scope, which for an answer is `assertContext` |
| `TypeCorrect`, `LocksAreOrdered`, `NothingWaitsInCircles`, `AccountIsQuiet` | `LockOrderProofs` | below; under `Ordered`, that is without the kinds `mark` and `erase`; `NothingWaitsInCircles` also without `delete` |

**`LastWriterWins`** is not inductive: it speaks of what is committed, and a
transaction decides on what it read before. `IInv` in `SyncServerProofs` adds

* `HouseExclusive`, `PantryExclusive`: at most one transaction holds the lock of a
  house or of a pantry;
* `Fresh`: what a transaction that is about to write or commit a serialized row
  has read is what the table has now, and its decision is `Outcome` of it;
* `Numbered`: a decision to write is committed with a number and a decision to
  discard without one.

`Fresh` is preserved because a transaction that commits a serialized row holds its
lock, by exclusiveness no other one can have read that row and not yet
committed (`DeciderLocks`, `DecidesAlone`), and a house is only wiped when its lock
is free. At a commit the new row is at least as good as the old one and as the
mutation (`CommitStands`), and `Stands` is transitive (`StandsTransitive`).

**Membership**: `MInv` says that whoever is past the lock of its house, or works in
an account, belongs to its scope *now* (`Placed`), because leaving and joining take
the locks it holds, and that nobody is a member of a deleted house
(`MembersHaveHouse`). A commit in a deleted house would be one by a member of it.

**`ProcessedOnce`, `ImplementsStore`**: `RInv` adds to `IInv` that what a transaction
prepared it prepared from its request (`Known`), that one transaction at a time has
claimed a mutation in the ledger (`ClaimExclusive`), that a claimed mutation is new
(`ClaimedIsNew`), and that recipes which fitted when the row was read still do (`Fits`).
The refinement mapping shows of the tables what is serialized. Then a commit on a
serialized key is `Apply` of the entry it commits (`CommitApplies`), which by `Fresh` reads
what the transaction has read; the deletion of a house is `Wipe` (`LeaveWipes`); a commit on
another key and every other step change nothing the mapping shows (`Stutters`).

**`NoLinkLost`**: `DInv` adds to `RInv` that what is stored of a dinner is within the
limit (`RowsBounded`), so that merging a losing entry into it either fits or fails the
request, and that a deleted row was deleted by a processed entry (`DeadIsRecorded`).
By `Fresh` the merge starts from the row the commit replaces, so its links survive.

**`NoChangeSkipped`**: `FInv` says that a key has a number exactly when it has a row
(`RowsNumbered`), and that a number drawn by a transaction is above every committed
number and every cursor, and the only one of its kind (`InOrder`): the trigger holds
the lock of the commit order from the draw to the commit. A page has no gaps
(`PageHasNoGaps`), so the cursor can move to its last row.

**`QueuedUntilProcessed`**: `IInv` in `SyncClientProofs` adds to the types that the
requests a device has not made yet are closed, so that what it waits for after a
fault is never an answer to an earlier request (`LaterClosed`), and `BatchSent`: whatever is
in the batch of a run is either still to be applied by the current request or
processed. A batch is deleted only after an answer, which needs an empty rest.

**`CursorBehindList`**: `CInv` follows a page from the answer to the cursor, for a
device whose user does not edit (`Follows`): it is complete between the cursor and
its last row, then merged into the list that was read, then on the disk, and only
then the cursor moves. What the server writes meanwhile is numbered beyond every
position a device has seen (`GrowthUnseen`).

**Roles**: `AdminInEveryHouse` needs that an admin is a member
(`AdminsAreMembers`), and that nobody is a member of a house that is gone; both
are invariant only with the last-admin checks made under the lock of the house:
without the one in `Demote`, the step for that action can no longer be proved.

**`DeadlockNeedsCreators`**: `LockOrderProofs` gives every lock a rank. The locks a
transaction still wants have a rank above those it holds, or are contended only by
transactions that an earlier lock keeps apart from it (a house row by the lock of the
house, an account row in a migration by the membership). Only the locks of created houses
are out of order. A deletion that waits for one holds, above the houses, its own
membership and grants, and nobody gets as far as these without the lock of its house,
which the deletion holds too; so with one such deletion in a circle the others still
climb the ranks, and a circle takes two. So whoever waits is held up by somebody who waits
for a lock of a higher rank, if at all, and the ranks end. Without deletions there is
no circle at all, which is `NothingWaitsInCircles`. The invariant has
the shape of a transaction in each of its stages (`Shape`), that conflicting locks are
never held by two (`Exclusive`), and that an account stays where its transactions have
found it (`AccountStays`, `MigratedStays`).
`AccountQuietDuringMigration` follows from it: a write in an account keeps its user
locked FOR SHARE, and joining a house takes that lock FOR UPDATE.

**`CopiesKept`**: a new conflict replaces a backup that is resolved, and a recovery replaces
an entry of the archive that has its identity and choice. `Inv` says that a resolved
backup is archived (`ResolvedArchived`), that a backup has all that is archived under
its identity (`Grows`), and that no identity is given twice (`Numbered`). Every step
of `PantryStorage` does one of five things to backup and archive (`StepShape`), and
each of the five keeps `Inv` and the copies.

**`OneTabNeverPaused`**: `OneInv` says that a tab which was never opened is closed, and that
a tab without any other is `Alone`: no pause, no copies, no two contents under one
revision, and at each place of its write the row and the mirror are what it expects there
(`Undisturbed`). A closed tab loses its memory, not that: a write that stopped between the
row and the mirror leaves the row under the higher revision, and the next revision is
above both (`NextTyped`).

**`OneTabKeepsSaved`**: what was reported as saved in a browser with one tab is selected by
every later reader. `SavedInv` says that the writes of the tab form a chain from what a
reader selects now to the state of the store (`Follows`), in which each has all edits of
the one before it, so that a write which lands, in the row or after a failure in the
mirror, replaces nothing; that the write a retry would repeat is the last of the chain
(`Again`); and that after the row was written the reader selects it, under the old mirror,
the new one or none (`Landed`). TLC finds no state against it with 3 edits, 3 reads
and 4 events of one tab (205,613 states).

**`ChosenIsRead`**: a recovery that is final is what a reader selects, and until it has
ended only a write prepared after it changes that. It holds the Web Lock, and the backup it
resolves pauses the pantry until it has done so (`Held`), whether or not a marker was set.
So the writes that can still land before it is final are those prepared before the pause.
Such a write lands where the row is the one it expects. `ChoiceInv` says that a tab knows
no fresh row newer than the one stored (`Behind`; a row is fresh once its mirror is), and
that the revision of a recovery is above all fresh rows a tab knows or is about to know
(`Choosing`). Hence no write expects the row that the recovery puts (`Settled`), its
`Finalize` finds that row or gives up, and the mirror is the recovery's own. While it then
clears its pause other tabs may read and write again; a write that has read an older row
still meets the recovery's row and does not expect it. A write is numbered above what it
has read (`Numbers`), which is where the clock would hurt if a revision were the clock alone.
`TwoTabs` bounds the tabs at two: with a third one, two tabs can hold equal attempts, the
same snapshot under the same revision, and the one's landing is then taken for the other's.
The number of edits, reads, failures, decisions and moves of the clock is any.

**Dinners**: neither property is inductive. `DinnerInv` adds that what was taken from the
pantry of a scope has its receipt in that very scope (`Covered`), so that a dinner without
any receipt was never taken; that an answer under way is for a dinner with a receipt
(`AnswersReceipted`), which reconciling then acknowledges; and that a row or a queued
mutation has an instant (`RowsDated`, `QueuesDated`), without which a row could lose to none
in a move and its receipt arrive in the house alone. A step does one of five things to
rows and receipts (`ServerSteps`): a consumption, a move with any mutations of the
account, mutations written to a scope, the end of a house, or nothing.

**The meal plan**: `RInv` says of a row that it is what its command makes of it, with
the instant it was applied at (`RowsMade`); that an account's row is shown by the
receipt of its command (`AccountsShown`), which is what a move looks for, so nothing
is quarantined; and that a house's order is never below one it has refused a choice
for (`RefusedIsBelow`). A row that moves was made at an earlier tick (`MovedIsPast`), so
the order of a command applied in the house afterwards differs from it.
`ConflictIsFinal` follows, in a form that took a counterexample to find: with four
instants a command can be refused in a house, be applied in the account after its user
has left, and win the move when the user joins again. It comes back then, but with an
order later than the row it had lost to. `NoChoiceLost` is kept by each of the three
outcomes of a move: orders only grow in a scope (`InPlan`), and what a house does not
take it keeps as a conflict. `ResolvedByItsChoice` is inductive once it says that the
conflict a command has healed is one of its own house (`HealsAreMarked`), because the
resolution, its receipt and its row are written in one transaction.

**`NoSlotLost`**: the gate keeps a number and a list, the calls have program counters.
`QueueOK` says that the list is the waiting calls, each once, and `SlotsOK` that the
number is the cardinality of the holders and that nobody waits below capacity. A step
moves the gate in one of a few ways (`GateMoves`): it leaves it alone, restarts it, or
one call gets, passes on or gives back a slot; the last two need that a call which
times out or is woken is in the list exactly once.

**`SentUnderConsent`, `GivenKnowingly`**: between the check and the call of the provider
the consent is in force (`ConsentHeld`), because every update waits for the lock; what a
device expects it has read, and a revision names one consent (`RevisionsOK`).

**`WorkIsCounted`, `EachDayCounted`**: `LedgerOK` has one active chat per user, at most
the global limit of them, and at most the daily limit of counted ones for each user and
day. A day never gets a chat from a later one: a chat that is still reserved has the
last day of its user. `SentOK` says that what the provider works on is dispatched in
the ledger, on its day. `ChargesOK` says that the counter of a day is the number of the
generations that have not been given back. Operations of the ledger outlive the call
that waits for them; `CheckOK` says which call an operation is for, if it still waits.

**The device**: `PurgeHolds` says that a purge goes on under its mark and the
revocation, and that what it has cleared stays clear, as no write is left that could
land (`WritesAwaited` ties the writes of an answer to its run). `OfThisStay` says that
without the mark all that is stored or under way is of this stay; that is
`PurgedStaysGone` with the writes under way. `OpenedIsConfirmed` and `DeniedIsRefused`
carry what the server said from the answer to the step that acts on it.

### Only model-checked

* Liveness (`EventuallyProcessed`, `EventuallyRead`, `EventuallyUploaded`,
  `EventuallyShown`, `EventuallyMoved`, `EventuallyUnmarked`, `EveryBootEnds`) and
  whatever needs ENABLED: out of the prover's reach.
* `AcknowledgedKept` of `PantryStorage`: a theorem for one tab (`OneTabKeepsSaved`), not
  for several. A fallback compares the mirror and not the row (`pantryStorage.ts:1535`),
  and a refused mirror lets a write be acknowledged without another look at the row
  (`pantryStorage.ts:1560`). By hand one can argue for a long history, of some six
  failures and decisions, in which a fallback then puts a mirror under a higher revision
  than a row acknowledged after the fallback was prepared; no run has reached it, nor did
  95 million states of random histories with 3 edits, 4 reads and 7 events. With the
  events of the run the property holds; an invariant for every history would have to
  except this one as well.
* `ChosenIsRead` with more than two tabs: see the argument above.
* What a recursive definition computes for every input cannot be proved, as it
  takes induction over data; there is none in these modules.

## 5. Not modelled, and why

* **Accounts and sessions.** One-time tokens, passwords and sessions are a service
  of its own; the other parts use it only through a session, which `DeviceScope`
  has. Its two races (a login during a reset, a token used twice) are each a pair
  of statements with no other state around them.
* **Pantry and other stores of the device.** What `PantryStorage` leaves out is listed
  there: validation and normalization of snapshots, and the pantry of a guest. The
  activity and diary stores have the structure of the shopping list in `SyncClient`.
* **Candidates and Bring.** The list is kept by an external service whose answers are
  not specified in this repository. The locks of its transactions are in
  `LockOrder`.
* **Pure algorithms** (consumption by expiry, merges of pantries and diet profiles,
  parsing): sequential functions of amounts and names, tested case by case.
* **Providers, user interface, configuration, deployment**: no state of the program
  worth a model. What the interface calls are inputs of the modelled actions.
* **Across modules.** The composite read of account and house moves one cursor over
  both; `SyncServer` reads one scope. Two tabs share storage but not their fences;
  `PantryStorage` alone has several. `localStorage` in place of IndexedDB is modelled
  for the pantry only.
