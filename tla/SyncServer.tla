----------------------------- MODULE SyncServer -----------------------------
(***************************************************************************)
(* The write and read path of the synchronization server: applyMutation    *)
(* and readChanges of createDrizzleSyncRepository, run by concurrent       *)
(* PostgreSQL transactions at READ COMMITTED, with membership changes and  *)
(* crashes between any two of their statements.                            *)
(*                                                                         *)
(* A transaction performs one mutation.  Its program counter names the     *)
(* statement it performs next; the locks it holds follow from the program  *)
(* counter (they are released only by commit or rollback), so no separate  *)
(* lock table is kept.  What a transaction wrote is invisible until it     *)
(* commits: `items`, `sequence` and `ledger` are the committed tables.     *)
(*                                                                         *)
(* All entities here are of the shared types other than meal_plan_entry;   *)
(* ai_consent takes a branch of its own in applyMutation.                  *)
(***************************************************************************)
EXTENDS SyncVersion

CONSTANTS
  User,          \* accounts; a user is also the name of its account scope
  House,         \* houses; a house is also the name of its scope
  NoHouse,       \* houseId of a user without membership
  Entity,        \* entity ids of the shared types
  PantryEntity,  \* those of type pantry_item or pantry_lot
  Request,       \* the mutations clients may send, any number of times
  Reader,        \* the (user, scope) pairs that pull the change feed
  Tx,            \* database connections, each running one transaction
  NoRequest,     \* the request of an idle connection
  Skew,          \* maxClientClockSkewMs
  PageLimit,     \* rows of one page of readChanges
  MaxClock,      \* bound on the server clock
  MaxCrashes     \* bound on the number of rollbacks by crash

Scope == User \cup House
Key   == Scope \X Entity

RequestType == [mutation : Nat, user : User, scope : Scope, entity : Entity,
                client : Nat, device : Nat, deleted : BOOLEAN,
                links : SUBSET Recipe]

ASSUME ScopesDisjoint == User \cap House = {} /\ NoHouse \notin House
ASSUME EntityFinite   == IsFiniteSet(Entity)
ASSUME EntityKinds    == /\ PantryEntity \subseteq Entity
                         /\ DinnerEntity \subseteq Entity
                         /\ PantryEntity \cap DinnerEntity = {}
ASSUME RequestsTyped  == Request \subseteq RequestType
ASSUME RequestsFit    == \A r \in Request :          \* isDinnerEntry, validation.ts
                           IsFiniteSet(r.links) /\ Cardinality(r.links) <= MaxLinks
ASSUME MutationIds    == \A r, q \in Request : r.mutation = q.mutation => r = q
ASSUME ReadersTyped   == Reader \subseteq [user : User, scope : Scope]
ASSUME NoItemAssumption == NoItem \notin Version /\ NoRequest \notin Request
ASSUME BoundsTyped    == /\ Skew \in Nat /\ MaxLinks \in Nat
                         /\ PageLimit \in Nat \ {0}
                         /\ MaxClock \in Nat /\ MaxCrashes \in Nat

VARIABLES
  clock,      \* the server clock
  member,     \* house_memberships: the house of each user, or NoHouse
  wiped,      \* houses deleted with their last member
  items,      \* sync_items: the version of each key, or NoItem
  sequence,   \* sync_items.server_sequence of each key (0 without a row)
  nextSeq,    \* next value of sync_server_sequence
  ledger,     \* processed_sync_mutations, with the prepared version (history)
  tx,         \* the transaction of each connection
  crashes,    \* rollbacks by crash so far
  cursor,     \* the cursor of each reader
  view        \* the rows each reader has received, by entity

server == <<clock, member, wiped, items, sequence, nextSeq, ledger, tx, crashes>>
vars   == <<clock, member, wiped, items, sequence, nextSeq, ledger, tx, crashes,
            cursor, view>>

LedgerEntry == [scope : Scope, entity : Entity, version : Version]

(* The statements of applyMutation, in order.                              *)
Statement == {"scope", "house", "pantry", "check", "claim", "row", "read",
              "write", "commit"}

Idle == [pc |-> "idle", request |-> NoRequest, prepared |-> NoItem,
         found |-> NoItem, value |-> NoItem, locked |-> FALSE, seq |-> 0]

TxType == [pc : {"idle"} \cup Statement, request : Request \cup {NoRequest},
           prepared : Row, found : Row, value : Row, locked : BOOLEAN,
           seq : Nat]

TypeOK ==
  /\ clock \in Nat /\ nextSeq \in Nat \ {0} /\ crashes \in Nat
  /\ member \in [User -> House \cup {NoHouse}] /\ wiped \subseteq House
  /\ items \in [Key -> Row]
  /\ sequence \in [Key -> Nat]
  /\ ledger \subseteq LedgerEntry
  /\ tx \in [Tx -> TxType]
  /\ \A t \in Tx : tx[t].pc # "idle" =>
       tx[t].request \in Request /\ tx[t].prepared \in Version
  /\ cursor \in [Reader -> Nat]
  /\ view \in [Reader -> [Entity -> Row]]

Init ==
  /\ clock = 0 /\ nextSeq = 1 /\ crashes = 0
  /\ member \in [User -> House \cup {NoHouse}] /\ wiped = {}
  /\ items = [k \in Key |-> NoItem]
  /\ sequence = [k \in Key |-> 0]
  /\ ledger = {}
  /\ tx = [t \in Tx |-> Idle]
  /\ cursor = [r \in Reader |-> 0]
  /\ view = [r \in Reader |-> [e \in Entity |-> NoItem]]

-----------------------------------------------------------------------------
(* Locks, as functions of the program counters.                            *)

KeyOf(t) == <<tx[t].request.scope, tx[t].request.entity>>

AfterScope  == Statement \ {"scope"}
AfterHouse  == AfterScope \ {"house"}
AfterPantry == AfterHouse \ {"pantry"}
AfterClaim  == AfterPantry \ {"check", "claim"}

(* users FOR SHARE, taken by resolveTransactionScope.                      *)
SharesUser(t, u) == tx[t].pc \in AfterScope /\ tx[t].request.user = u

(* Mutant: the house lock is released before the row is read.              *)
HoldsHouseUntilClaim(t, h) ==
  tx[t].pc \in {"pantry", "check", "claim"} /\ tx[t].request.scope = h

(* houses FOR UPDATE, taken for a house scope.                             *)
HoldsHouse(t, h) == tx[t].pc \in AfterHouse /\ tx[t].request.scope = h

(* The advisory lock of a pantry, one per scope.                           *)
HoldsPantry(t, s) == /\ tx[t].pc \in AfterPantry
                     /\ tx[t].request.scope = s
                     /\ tx[t].request.entity \in PantryEntity

(* The uncommitted insert of a ledger row: the unique index on scope and   *)
(* mutation id makes a second insert of it wait.                           *)
Claims(t, s, m) == /\ tx[t].pc \in AfterClaim
                   /\ tx[t].request.scope = s
                   /\ tx[t].request.mutation = m

(* An uncommitted write of the row itself, or its FOR UPDATE lock.         *)
Wrote(t)       == tx[t].pc = "commit" /\ tx[t].seq # 0
HoldsRow(t, k) == /\ tx[t].pc \in {"read", "write", "commit"}
                  /\ KeyOf(t) = k
                  /\ tx[t].locked \/ Wrote(t)

(* The advisory lock the trigger on sync_items takes before it numbers a   *)
(* row; it is kept until the end of the transaction.                       *)
HoldsCommitOrder(t) == Wrote(t)

(* Mutants: locks that are not waited for.                                 *)
HouseNeverBusy(h)  == TRUE
PantryNeverBusy(s) == TRUE
LedgerNeverBusy(s, m) == TRUE
NumbersUnordered   == TRUE

HouseFree(h)       == \A t \in Tx : ~HoldsHouse(t, h)
PantryFree(s)      == \A t \in Tx : ~HoldsPantry(t, s)
LedgerFree(s, m)   == \A t \in Tx : ~Claims(t, s, m)
RowFree(t, k)      == \A u \in Tx \ {t} : ~HoldsRow(u, k)
CommitOrderFree    == \A t \in Tx : ~HoldsCommitOrder(t)

-----------------------------------------------------------------------------
(* applyMutation.                                                          *)

Step(t, from, to) == tx[t].pc = from /\ tx' = [tx EXCEPT ![t].pc = to]

(* The transaction ends without effect: a rejection, a unique violation or *)
(* the early return for a mutation processed before.                       *)
Ends(t, at) == tx[t].pc = at /\ tx' = [tx EXCEPT ![t] = Idle]

tables == <<clock, member, wiped, items, sequence, nextSeq, ledger, crashes, cursor, view>>

Prepared(r, now) ==
  [client |-> EffectiveClientTime(r.client, now, Skew), server |-> now,
   device |-> r.device, mutation |-> r.mutation, deleted |-> r.deleted,
   body |-> r.mutation, links |-> IF r.deleted THEN {} ELSE r.links]

(* Mutant: the server time is not read when the request arrives.           *)
BeginUnprepared(t, r) ==
  /\ tx[t].pc = "idle"
  /\ tx' = [tx EXCEPT ![t] = [Idle EXCEPT !.pc = "scope", !.request = r]]
  /\ UNCHANGED tables

(* A request reaches a free connection; its clock is read before any lock. *)
Begin(t, r) ==
  /\ tx[t].pc = "idle"
  /\ tx' = [tx EXCEPT ![t] = [Idle EXCEPT !.pc = "scope", !.request = r,
                                          !.prepared = Prepared(r, clock)]]
  /\ UNCHANGED tables

(* `resolveScopeForCurrentMembership` accepts the scope of the request.    *)
Belongs(u, s) == IF s \in House THEN member[u] = s
                 ELSE s = u /\ member[u] = NoHouse

(* users FOR SHARE, then the membership is read.                           *)
ResolveScope(t) ==
  /\ Step(t, "scope", IF tx[t].request.scope \in House THEN "house" ELSE "pantry")
  /\ Belongs(tx[t].request.user, tx[t].request.scope)
  /\ UNCHANGED tables

RejectScope(t) ==
  /\ Ends(t, "scope")
  /\ ~Belongs(tx[t].request.user, tx[t].request.scope)
  /\ UNCHANGED tables

(* Mutant: the membership is not read again under the house lock.          *)
LockHouseUnchecked(t) ==
  /\ Step(t, "house", "pantry")
  /\ HouseFree(tx[t].request.scope)
  /\ UNCHANGED tables

(* houses FOR UPDATE, then the membership is read again.                   *)
LockHouse(t) ==
  /\ Step(t, "house", "pantry")
  /\ HouseFree(tx[t].request.scope)
  /\ member[tx[t].request.user] = tx[t].request.scope
  /\ UNCHANGED tables

RejectHouse(t) ==
  /\ Ends(t, "house")
  /\ HouseFree(tx[t].request.scope)
  /\ member[tx[t].request.user] # tx[t].request.scope
  /\ UNCHANGED tables

(* The pantry lock, for pantry items and lots only.                        *)
LockPantry(t) ==
  /\ Step(t, "pantry", "check")
  /\ tx[t].request.entity \in PantryEntity => PantryFree(tx[t].request.scope)
  /\ UNCHANGED tables

Processed(s, m) == \E e \in ledger : e.scope = s /\ e.version.mutation = m

CheckLedger(t) ==
  /\ Step(t, "check", "claim")
  /\ ~Processed(tx[t].request.scope, tx[t].request.mutation)
  /\ UNCHANGED tables

ReplayProcessed(t) ==
  /\ Ends(t, "check")
  /\ Processed(tx[t].request.scope, tx[t].request.mutation)
  /\ UNCHANGED tables

(* INSERT into processed_sync_mutations; the unique index decides.         *)
ClaimLedger(t) ==
  /\ Step(t, "claim", "row")
  /\ LedgerFree(tx[t].request.scope, tx[t].request.mutation)
  /\ ~Processed(tx[t].request.scope, tx[t].request.mutation)
  /\ UNCHANGED tables

ClaimViolation(t) ==
  /\ Ends(t, "claim")
  /\ LedgerFree(tx[t].request.scope, tx[t].request.mutation)
  /\ Processed(tx[t].request.scope, tx[t].request.mutation)
  /\ UNCHANGED tables

(* SELECT ... FOR UPDATE of the row, for a dinner entry of an account; it  *)
(* locks nothing when there is no row yet.                                 *)
LocksRow(t) == /\ tx[t].request.scope \in User
               /\ tx[t].request.entity \in DinnerEntity
               /\ items[KeyOf(t)] # NoItem

LockRow(t) ==
  /\ tx[t].pc = "row"
  /\ LocksRow(t) => RowFree(t, KeyOf(t))
  /\ tx' = [tx EXCEPT ![t].pc = "read", ![t].locked = LocksRow(t)]
  /\ UNCHANGED tables

(* The plain SELECT of the row and the decision taken on what it returned. *)
ReadExisting(t) ==
  LET e     == tx[t].request.entity
      found == items[KeyOf(t)]
      value == Outcome(e, tx[t].prepared, found)
  IN /\ tx[t].pc = "read"
     /\ ~LinksExceeded(e, tx[t].prepared, found)
     /\ tx' = [tx EXCEPT ![t].found = found, ![t].value = value,
                         ![t].pc = IF value = NoItem THEN "commit" ELSE "write"]
     /\ UNCHANGED tables

(* Mutant: the error leaves the transaction open.                          *)
RejectLinksOpen(t) ==
  /\ tx[t].pc = "read"
  /\ LinksExceeded(tx[t].request.entity, tx[t].prepared, items[KeyOf(t)])
  /\ UNCHANGED vars

RejectLinks(t) ==
  /\ Ends(t, "read")
  /\ LinksExceeded(tx[t].request.entity, tx[t].prepared, items[KeyOf(t)])
  /\ UNCHANGED tables

(* INSERT, or UPDATE by row id, as the row was found; the trigger takes    *)
(* the commit-order lock and numbers the row.                              *)
Write(t) ==
  /\ tx[t].pc = "write"
  /\ CommitOrderFree /\ RowFree(t, KeyOf(t))
  /\ tx[t].found = NoItem => items[KeyOf(t)] = NoItem
  /\ tx' = [tx EXCEPT ![t].pc = "commit", ![t].seq = nextSeq]
  /\ nextSeq' = nextSeq + 1
  /\ UNCHANGED <<clock, member, wiped, items, sequence, ledger, crashes, cursor, view>>

(* Another transaction inserted the row in the meantime; the trigger has   *)
(* drawn a number by then.                                                 *)
InsertViolation(t) ==
  /\ Ends(t, "write")
  /\ CommitOrderFree /\ RowFree(t, KeyOf(t))
  /\ tx[t].found = NoItem /\ items[KeyOf(t)] # NoItem
  /\ nextSeq' = nextSeq + 1
  /\ UNCHANGED <<clock, member, wiped, items, sequence, ledger, crashes, cursor, view>>

Commit(t) ==
  /\ Ends(t, "commit")
  /\ ledger' = ledger \cup {[scope |-> tx[t].request.scope,
                             entity |-> tx[t].request.entity,
                             version |-> tx[t].prepared]}
  /\ IF Wrote(t)
     THEN /\ items' = [items EXCEPT ![KeyOf(t)] = tx[t].value]
          /\ sequence' = [sequence EXCEPT ![KeyOf(t)] = tx[t].seq]
     ELSE UNCHANGED <<items, sequence>>
  /\ UNCHANGED <<clock, member, wiped, nextSeq, crashes, cursor, view>>

(* The process or the connection dies; PostgreSQL rolls the transaction    *)
(* back, except for the number it drew from the sequence.                  *)
Crash(t) ==
  /\ tx[t].pc # "idle" /\ crashes < MaxCrashes
  /\ tx' = [tx EXCEPT ![t] = Idle]
  /\ crashes' = crashes + 1
  /\ UNCHANGED <<clock, member, wiped, items, sequence, nextSeq, ledger, cursor, view>>

Proceed(t) ==
  \/ ResolveScope(t) \/ RejectScope(t) \/ LockHouse(t) \/ RejectHouse(t)
  \/ LockPantry(t) \/ CheckLedger(t) \/ ReplayProcessed(t)
  \/ ClaimLedger(t) \/ ClaimViolation(t) \/ LockRow(t)
  \/ ReadExisting(t) \/ RejectLinks(t)
  \/ Write(t) \/ InsertViolation(t) \/ Commit(t)

-----------------------------------------------------------------------------
(* The rest of the system.                                                 *)

Tick ==
  /\ clock < MaxClock /\ clock' = clock + 1
  /\ UNCHANGED <<member, wiped, items, sequence, nextSeq, ledger, tx, crashes, cursor, view>>

(* createHouse, addExistingMember: the user and the house are locked FOR   *)
(* UPDATE and the membership inserted.  The rows of the account move in a  *)
(* transaction of its own, which is not part of this module.               *)
JoinHouse(u, h) ==
  /\ member[u] = NoHouse /\ h \notin wiped
  /\ \A t \in Tx : ~SharesUser(t, u)
  /\ HouseFree(h)
  /\ member' = [member EXCEPT ![u] = h]
  /\ UNCHANGED <<clock, wiped, items, sequence, nextSeq, ledger, tx, crashes, cursor, view>>

(* removeMember, leaveHouse: only the house is locked.  The last member    *)
(* takes the house, its rows and its processed mutations along.            *)
LeaveHouse(u) ==
  LET h    == member[u]
      last == \A w \in User \ {u} : member[w] # h
  IN /\ h # NoHouse
     /\ HouseFree(h)
     /\ member' = [member EXCEPT ![u] = NoHouse]
     /\ IF last
        THEN /\ wiped' = wiped \cup {h}
             /\ items' = [k \in Key |-> IF k[1] = h THEN NoItem ELSE items[k]]
             /\ sequence' = [k \in Key |-> IF k[1] = h THEN 0 ELSE sequence[k]]
             /\ ledger' = {e \in ledger : e.scope # h}
        ELSE UNCHANGED <<wiped, items, sequence, ledger>>
     /\ UNCHANGED <<clock, nextSeq, tx, crashes, cursor, view>>

(* Mutant: the page is taken from the wrong end of the feed.               *)
LastPage(s, above) ==
  LET above_ == {e \in Entity : sequence[<<s, e>>] > above}
  IN {e \in above_ :
        Cardinality({f \in above_ : sequence[<<s, f>>] > sequence[<<s, e>>]}) < PageLimit}

(* The committed rows of a scope above a cursor, and the page of the       *)
(* PageLimit lowest ones.                                                  *)
Pending(s, above) == {e \in Entity : sequence[<<s, e>>] > above}
Page(s, above) ==
  {e \in Pending(s, above) :
     Cardinality({f \in Pending(s, above) : sequence[<<s, f>>] < sequence[<<s, e>>]})
       < PageLimit}

(* readChanges: houses FOR SHARE, the membership, one page of the feed; the *)
(* route answers with the highest sequence of the page as the next cursor. *)
ReadChanges(r) ==
  LET page == Page(r.scope, cursor[r])
  IN /\ member[r.user] # NoHouse => HouseFree(member[r.user])
     /\ Belongs(r.user, r.scope)
     /\ \E last \in page :
          /\ \A e \in page : sequence[<<r.scope, e>>] <= sequence[<<r.scope, last>>]
          /\ cursor' = [cursor EXCEPT ![r] = sequence[<<r.scope, last>>]]
     /\ view' = [view EXCEPT ![r] =
                   [e \in Entity |-> IF e \in page THEN items[<<r.scope, e>>]
                                     ELSE view[r][e]]]
     /\ UNCHANGED server

Next ==
  \/ \E t \in Tx : Proceed(t) \/ Crash(t) \/ \E r \in Request : Begin(t, r)
  \/ Tick
  \/ \E u \in User : LeaveHouse(u) \/ \E h \in House : JoinHouse(u, h)
  \/ \E r \in Reader : ReadChanges(r)

Spec == Init /\ [][Next]_vars

(* PostgreSQL grants contended locks in the order of the requests, so a    *)
(* transaction whose step is enabled again and again is served.  A client  *)
(* keeps a mutation queued, and sends it again, until it is accepted; it   *)
(* pulls the feed with every synchronization.                              *)
LiveSpec ==
  /\ Spec
  /\ \A t \in Tx : SF_vars(Proceed(t))
  /\ \A r \in Request : SF_vars(\E t \in Tx : Begin(t, r))
  /\ \A r \in Reader : SF_vars(ReadChanges(r))

-----------------------------------------------------------------------------
(* Properties.                                                             *)

(* Keys whose read-modify-write of the row is serialized by a lock: the    *)
(* house lock, or the pantry lock of the account.                          *)
Serialized(k) == k[1] \in House \/ k[2] \in PantryEntity

LedgerKey(e) == <<e.scope, e.entity>>

(* Last write wins: the stored version of an entity is at least as good as *)
(* every version ever processed for it, so no interleaving of applyMutation *)
(* calls lets an older write replace a newer one.  Dinner entries are      *)
(* merged and have properties of their own.                                *)
LastWriterWins ==
  \A e \in ledger :
    Serialized(LedgerKey(e)) /\ e.entity \notin DinnerEntity =>
      /\ items[LedgerKey(e)] # NoItem
      /\ Stands(items[LedgerKey(e)], e.version)

(* README.md:151 and :153 promise last write wins for every entity,        *)
(* whatever its scope: the later of two processed versions is kept.        *)
LastWriterWinsInEveryScope ==
  \A e \in ledger :
    e.entity \notin DinnerEntity =>
      /\ items[LedgerKey(e)] # NoItem
      /\ Stands(items[LedgerKey(e)], e.version)

(* A recipe linked to a dinner of the house by any device stays linked, in *)
(* whatever order the devices' dinner entries arrive, until the dinner is  *)
(* deleted.                                                                *)
NeverDeleted(k) == \A e \in ledger : LedgerKey(e) = k => ~e.version.deleted

NoLinkLost ==
  \A e \in ledger :
    LET k == LedgerKey(e) IN
    Serialized(k) /\ e.entity \in DinnerEntity /\ NeverDeleted(k) =>
      /\ items[k] # NoItem
      /\ e.version.links \subseteq items[k].links
      /\ Cardinality(items[k].links) <= MaxLinks

(* The rest of a dinner entry (its note, its verdict) is subject to last   *)
(* write wins as well, README.md:151: the stored payload is that of the    *)
(* best version processed.                                                 *)
DinnerPayloadLastWriterWins ==
  \A e, f \in ledger :
    LET k == LedgerKey(e) IN
    /\ Serialized(k) /\ k = LedgerKey(f) /\ e.entity \in DinnerEntity
    /\ NeverDeleted(k) /\ items[k] # NoItem /\ items[k].body = f.version.mutation
    => Stands(f.version, e.version)

(* A retried mutation is processed once: whatever the interleaving of a    *)
(* request with its own retries on other connections, a transaction that   *)
(* commits it finds no record of it from another one.                      *)
ProcessedOnce ==
  [][\A t \in Tx :
       tx[t].pc = "commit" /\ tx'[t].pc = "idle" /\ crashes' = crashes =>
         ~Processed(tx[t].request.scope, tx[t].request.mutation)]_vars

(* Whoever pulls the feed by cursor misses nothing: a committed row at or  *)
(* below the cursor of a reader is the row the reader has.  It needs the   *)
(* commit order of rows to be the order of their numbers.                  *)
NoChangeSkipped ==
  \A r \in Reader, e \in Entity :
    LET k == <<r.scope, e>> IN
    items[k] # NoItem /\ sequence[k] <= cursor[r] => view[r][e] = items[k]

(* A row of a scope changes only by a user who is a member of it (of the   *)
(* house, or of no house for an account) at the moment the change is       *)
(* committed, or with the deletion of the house.                           *)
OnlyMembersWrite ==
  [][\A k \in Key : items'[k] # items[k] =>
       \/ \E t \in Tx : /\ tx[t].pc = "commit" /\ tx'[t].pc = "idle"
                        /\ KeyOf(t) = k /\ Belongs(tx[t].request.user, k[1])
       \/ k[1] \in wiped' \ wiped]_vars

(* No transaction leaves a row in a house that has been deleted.           *)
NothingInWipedHouse ==
  \A k \in Key : k[1] \in wiped => items[k] = NoItem

(* Every mutation of a user who stays in its scope is processed in the     *)
(* end, whatever retries and conflicts with others it meets; only a dinner *)
(* entry whose recipes no longer fit is not.                               *)
EventuallyProcessed ==
  \A r \in Request :
    <>[]Belongs(r.user, r.scope) =>
      <>(\/ Processed(r.scope, r.mutation)
         \/ LinksExceeded(r.entity, Prepared(r, clock), items[<<r.scope, r.entity>>]))

(* A reader who stays in its scope ends up with the rows of that scope.    *)
EventuallyRead ==
  \A r \in Reader :
    <>[]Belongs(r.user, r.scope) =>
      <>[](\A e \in Entity : view[r][e] = items[<<r.scope, e>>])

-----------------------------------------------------------------------------
(* Refinement: on the serialized keys the server implements AtomicStore,   *)
(* the commit of a transaction being the step that applies its mutation.   *)

SerializedKeys == {k \in Key : Serialized(k)}

(* The entries a request can lead to, whenever its clock is read.          *)
EntriesOf(r) ==
  {[scope |-> r.scope, entity |-> r.entity, version |-> Prepared(r, now)] :
     now \in 0..MaxClock}

Store == INSTANCE AtomicStore WITH
  StoreKey <- SerializedKeys,
  Entry    <- UNION {EntriesOf(r) : r \in Request},
  rows     <- [k \in SerializedKeys |-> items[k]],
  done     <- {e \in ledger : Serialized(LedgerKey(e))}

(* Every behaviour of the server, seen on its serialized keys, is one in   *)
(* which each mutation is checked, decided and written in a single step:   *)
(* the interleaved statements of applyMutation are invisible.              *)
ImplementsStore == Store!StoreSpec
=============================================================================
