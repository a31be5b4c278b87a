--------------------------- MODULE HouseMembership ---------------------------
(***************************************************************************)
(* Houses, their members and admins: createDrizzleHouseRepository, the     *)
(* service above it, deleteAccount, and the grants of the service reader   *)
(* that hang on a membership.  Joining a house is followed by the transfer *)
(* of the account's shared rows, in three more transactions that a crash   *)
(* or another request may come between.                                    *)
(*                                                                         *)
(* Every change of a membership is made under FOR UPDATE of its house, and *)
(* is one action here: the lock, the second look at the membership and the *)
(* change.  What a request reads before it has the lock, and the users it  *)
(* holds FOR UPDATE meanwhile, stay in `tx`.  The checks of the service    *)
(* before its transaction are left out where the transaction repeats them. *)
(***************************************************************************)
EXTENDS Naturals, FiniteSets

CONSTANTS
  User, House,
  Verified,      \* the users whose e-mail is verified: only they sponsor grants
  NoHouse,       \* no membership, no migration pending
  NoUser,        \* the actor of an idle connection
  Tx,            \* database connections, each serving one request
  MaxCrashes     \* bound on the number of requests that are cut off

ASSUME NamesDistinct == NoHouse \notin House /\ NoUser \notin User
ASSUME VerifiedTyped == Verified \subseteq User
ASSUME BoundTyped    == MaxCrashes \in Nat

VARIABLES
  accounts,   \* the users that exist
  open,       \* the houses that exist
  used,       \* the house ids given out
  member,     \* house_memberships: the house of each user
  admins,     \* the users whose membership has the role admin
  granted,    \* the users who sponsor an unrevoked grant
  pending,    \* house_migration_pending: the house of each user
  unmoved,    \* the users with shared rows in their account scope
  tx,         \* the request of each connection
  crashes     \* the requests cut off so far

tables == <<accounts, open, used, member, admins, granted, pending, unmoved>>
vars == <<accounts, open, used, member, admins, granted, pending, unmoved, tx, crashes>>

Pc == {"idle", "add", "lock", "insert", "promote", "demote", "remove", "leave",
       "delete", "grant", "write", "set", "migrate", "clear"}

Idle == [pc |-> "idle", actor |-> NoUser, target |-> NoUser,
         house |-> NoHouse, to |-> NoHouse]

(* `house` is the house the request works on, `to` the one that the rows   *)
(* of a new member are moved to.                                           *)
TxType == [pc : Pc, actor : User \cup {NoUser}, target : User \cup {NoUser},
           house : House \cup {NoHouse}, to : House \cup {NoHouse}]

TypeOK ==
  /\ accounts \subseteq User /\ open \subseteq used /\ used \subseteq House
  /\ member \in [User -> House \cup {NoHouse}]
  /\ admins \subseteq User /\ granted \subseteq User
  /\ pending \in [User -> open \cup {NoHouse}]
  /\ unmoved \subseteq User
  /\ tx \in [Tx -> TxType] /\ crashes \in Nat
  /\ \A t \in Tx : tx[t].pc # "idle" => tx[t].actor \in User /\ tx[t].target \in User

Init ==
  /\ accounts = User /\ open = {} /\ used = {}
  /\ member = [u \in User |-> NoHouse] /\ pending = member
  /\ admins = {} /\ granted = {} /\ unmoved = {}
  /\ tx = [t \in Tx |-> Idle] /\ crashes = 0

-----------------------------------------------------------------------------
(* users FOR UPDATE, held while the request waits for the house.           *)
HoldsUser(t, u) ==
  \/ tx[t].pc = "insert" /\ tx[t].target = u
  \/ tx[t].pc \in {"delete", "grant"} /\ tx[t].actor = u

UserFree(u) == \A t \in Tx : ~HoldsUser(t, u)

Members(h)      == {u \in User : member[u] = h}
AdminsOf(h)     == Members(h) \cap admins
IsAdmin(u, h)   == u \in AdminsOf(h)
LastAdmin(u, h) == AdminsOf(h) = {u}

Begin(t, pc, actor, target, house) ==
  /\ tx[t].pc = "idle" /\ actor \in accounts
  /\ tx' = [tx EXCEPT ![t] = [pc |-> pc, actor |-> actor, target |-> target,
                              house |-> house, to |-> house]]
  /\ UNCHANGED <<tables, crashes>>

Ends(t)     == tx' = [tx EXCEPT ![t] = Idle]
Goto(t, pc) == tx' = [tx EXCEPT ![t].pc = pc]
Refused(t)  == Ends(t) /\ UNCHANGED <<tables, crashes>>

(* A membership is deleted, and the grants it sponsors with it.            *)
Expel(u) == /\ member' = [member EXCEPT ![u] = NoHouse]
            /\ admins' = admins \ {u}
            /\ granted' = granted \ {u}

(* Mutant: house_migration_pending.house_id has no ON DELETE CASCADE.       *)
WithoutHouseOnly(h) == pending

(* Deleting a house deletes the migrations that are pending for it.        *)
WithoutHouse(h) == [v \in User |-> IF pending[v] = h THEN NoHouse ELSE pending[v]]

-----------------------------------------------------------------------------
(* createHouse: one transaction, under FOR UPDATE of the user.             *)
CreateHouse(t, u, h) ==
  /\ tx[t].pc = "idle" /\ u \in accounts /\ UserFree(u)
  /\ member[u] = NoHouse /\ h \notin used
  /\ open' = open \cup {h} /\ used' = used \cup {h}
  /\ member' = [member EXCEPT ![u] = h] /\ admins' = admins \cup {u}
  /\ tx' = [tx EXCEPT ![t] = [pc |-> "set", actor |-> u, target |-> u,
                              house |-> h, to |-> h]]
  /\ UNCHANGED <<accounts, granted, pending, unmoved, crashes>>

(* addMember reads the house of the actor, ...                             *)
BeginAdd(t, a, u) == member[a] # NoHouse /\ Begin(t, "add", a, u, member[a])

(* ... addExistingMember reads it again, without a lock, ...               *)
ReadAdmin(t) ==
  LET a == tx[t].actor IN
  /\ tx[t].pc = "add"
  /\ IF a \in admins /\ tx[t].target \in accounts
     THEN tx' = [tx EXCEPT ![t].pc = "lock", ![t].house = member[a]]
     ELSE Ends(t)
  /\ UNCHANGED <<tables, crashes>>

(* ... locks the user to be added, ...                                     *)
LockTarget(t) ==
  /\ tx[t].pc = "lock" /\ UserFree(tx[t].target)
  /\ Goto(t, "insert")
  /\ UNCHANGED <<tables, crashes>>

MayJoin(t) == /\ IsAdmin(tx[t].actor, tx[t].house)
              /\ tx[t].target \in accounts /\ member[tx[t].target] = NoHouse

(* ... and looks at everything again under the lock of the house.          *)
InsertMember(t) ==
  LET u == tx[t].target IN
  /\ tx[t].pc = "insert" /\ MayJoin(t)
  /\ member' = [member EXCEPT ![u] = tx[t].house]
  /\ Goto(t, "set")
  /\ UNCHANGED <<accounts, open, used, admins, granted, pending, unmoved, crashes>>

RefuseInsert(t) == tx[t].pc = "insert" /\ ~MayJoin(t) /\ Refused(t)

(* updateMemberRole.                                                       *)
BeginRole(t, a, u) ==
  \E pc \in {"promote", "demote"} : a \in admins /\ Begin(t, pc, a, u, member[a])

(* Mutant: the role of the actor is the one that was read without a lock.   *)
MayChangeUnchecked(t) == member[tx[t].target] = tx[t].house

MayChange(t) == /\ IsAdmin(tx[t].actor, tx[t].house)
                /\ member[tx[t].target] = tx[t].house

Promote(t) ==
  /\ tx[t].pc = "promote" /\ MayChange(t)
  /\ admins' = admins \cup {tx[t].target}
  /\ Ends(t)
  /\ UNCHANGED <<accounts, open, used, member, granted, pending, unmoved, crashes>>

(* Mutant: the grants of a demoted admin stay.                             *)
DemoteKeepingGrants(t) ==
  LET u == tx[t].target IN
  /\ tx[t].pc = "demote" /\ MayChange(t) /\ ~LastAdmin(u, tx[t].house)
  /\ admins' = admins \ {u}
  /\ Ends(t)
  /\ UNCHANGED <<accounts, open, used, member, granted, pending, unmoved, crashes>>

(* Demoting an admin revokes the grants it sponsors.                       *)
Demote(t) ==
  LET u == tx[t].target IN
  /\ tx[t].pc = "demote" /\ MayChange(t) /\ ~LastAdmin(u, tx[t].house)
  /\ admins' = admins \ {u} /\ granted' = granted \ {u}
  /\ Ends(t)
  /\ UNCHANGED <<accounts, open, used, member, pending, unmoved, crashes>>

(* removeMember.                                                           *)
BeginRemove(t, a, u) == a \in admins /\ Begin(t, "remove", a, u, member[a])

Remove(t) ==
  LET u == tx[t].target IN
  /\ tx[t].pc = "remove" /\ MayChange(t) /\ ~LastAdmin(u, tx[t].house)
  /\ Expel(u)
  /\ Ends(t)
  /\ UNCHANGED <<accounts, open, used, pending, unmoved, crashes>>

RefuseChange(t) ==
  /\ tx[t].pc \in {"promote", "demote", "remove"}
  /\ ~MayChange(t) \/ (tx[t].pc # "promote" /\ LastAdmin(tx[t].target, tx[t].house))
  /\ Refused(t)

-----------------------------------------------------------------------------
(* leaveHouse, deleteAccount: the last admin stays while there are others, *)
(* and the last member takes the house along.                              *)
MustStay(u, h) == LastAdmin(u, h) /\ Members(h) # {u}

TakesHouse(u, h) == Members(h) = {u}

Quits(u, h) ==
  /\ Expel(u)
  /\ IF TakesHouse(u, h) THEN open' = open \ {h} ELSE UNCHANGED open

BeginLeave(t, u) == member[u] # NoHouse /\ Begin(t, "leave", u, u, member[u])

Leave(t) ==
  LET u == tx[t].actor
      h == tx[t].house
  IN /\ tx[t].pc = "leave" /\ member[u] = h /\ ~MustStay(u, h)
     /\ Quits(u, h)
     /\ pending' = IF TakesHouse(u, h) THEN WithoutHouse(h) ELSE pending
     /\ Ends(t)
     /\ UNCHANGED <<accounts, used, unmoved, crashes>>

(* FOR UPDATE of the user is taken before the membership is read.          *)
BeginDelete(t, u) == UserFree(u) /\ Begin(t, "delete", u, u, member[u])

StillMember(t) == tx[t].house # NoHouse /\ member[tx[t].actor] = tx[t].house

(* Mutant: the account of the last admin is deleted like any other.        *)
DeleteAlways(t) ==
  LET u == tx[t].actor
      h == tx[t].house
  IN /\ tx[t].pc = "delete"
     /\ IF StillMember(t) THEN Quits(u, h) ELSE UNCHANGED <<open, member, admins, granted>>
     /\ accounts' = accounts \ {u} /\ unmoved' = unmoved \ {u}
     /\ pending' = [IF StillMember(t) /\ TakesHouse(u, h) THEN WithoutHouse(h) ELSE pending
                      EXCEPT ![u] = NoHouse]
     /\ Ends(t)
     /\ UNCHANGED <<used, crashes>>

Delete(t) ==
  LET u == tx[t].actor
      h == tx[t].house
  IN /\ tx[t].pc = "delete" /\ ~(StillMember(t) /\ MustStay(u, h))
     /\ IF StillMember(t) THEN Quits(u, h) ELSE UNCHANGED <<open, member, admins, granted>>
     /\ accounts' = accounts \ {u} /\ unmoved' = unmoved \ {u}
     /\ pending' = [IF StillMember(t) /\ TakesHouse(u, h) THEN WithoutHouse(h) ELSE pending
                      EXCEPT ![u] = NoHouse]
     /\ Ends(t)
     /\ UNCHANGED <<used, crashes>>

RefuseQuit(t) ==
  LET u == tx[t].actor
      h == tx[t].house
  IN /\ \/ tx[t].pc = "leave" /\ (member[u] # h \/ MustStay(u, h))
        \/ tx[t].pc = "delete" /\ StillMember(t) /\ MustStay(u, h)
     /\ Refused(t)

-----------------------------------------------------------------------------
(* createGrant: the sponsor is locked FOR UPDATE, then its house, and must *)
(* then be an admin; an earlier grant of the membership is replaced.       *)
BeginGrant(t, u) == u \in Verified /\ UserFree(u) /\ Begin(t, "grant", u, u, member[u])

Grant(t) ==
  LET u == tx[t].actor IN
  /\ tx[t].pc = "grant"
  /\ granted' = IF IsAdmin(u, tx[t].house) THEN granted \cup {u} ELSE granted
  /\ Ends(t)
  /\ UNCHANGED <<accounts, open, used, member, admins, pending, unmoved, crashes>>

(* revoke.                                                                 *)
Revoke(u) ==
  /\ u \in granted /\ UserFree(u)
  /\ granted' = granted \ {u}
  /\ UNCHANGED <<accounts, open, used, member, admins, pending, unmoved, tx, crashes>>

-----------------------------------------------------------------------------
(* The rows of an account.  POST /v1/sync of the account scope is refused  *)
(* while a migration is pending, and for shared rows of a member; the      *)
(* mutation is applied in a later transaction, which looks at the          *)
(* membership again under FOR SHARE of the user.                           *)
BeginWrite(t, u) == /\ pending[u] = NoHouse /\ member[u] = NoHouse
                    /\ Begin(t, "write", u, u, NoHouse)

WriteAccount(t) ==
  LET u == tx[t].actor IN
  /\ tx[t].pc = "write" /\ UserFree(u)
  /\ unmoved' = IF u \in accounts /\ member[u] = NoHouse THEN unmoved \cup {u} ELSE unmoved
  /\ Ends(t)
  /\ UNCHANGED <<accounts, open, used, member, admins, granted, pending, crashes>>

(* GET /v1/house and POST /v1/house/import-personal-data of a member start *)
(* a migration, as joining a house does.                                   *)
GetState(t, u) == member[u] # NoHouse /\ Begin(t, "set", u, u, member[u])

(* setHouseMigrationPending: an earlier mark stays as it is; a new one     *)
(* needs the user and the house.                                           *)
SetPending(t) ==
  LET u == tx[t].target
      h == tx[t].to
  IN /\ tx[t].pc = "set"
     /\ \/ pending[u] # NoHouse /\ Goto(t, "migrate") /\ UNCHANGED pending
        \/ /\ pending[u] = NoHouse /\ UserFree(u)
           /\ u \in accounts /\ h \in open
           /\ Goto(t, "migrate") /\ pending' = [pending EXCEPT ![u] = h]
        \/ /\ pending[u] = NoHouse /\ UserFree(u)
           /\ u \notin accounts \/ h \notin open
           /\ Ends(t) /\ UNCHANGED pending
     /\ UNCHANGED <<accounts, open, used, member, admins, granted, unmoved, crashes>>

(* Mutant: the rows of a member stay in the account.                       *)
MigrateNothing(t) ==
  LET u == tx[t].target IN
  /\ tx[t].pc = "migrate" /\ UserFree(u)
  /\ IF member[u] = tx[t].to THEN Goto(t, "clear") ELSE Ends(t)
  /\ UNCHANGED <<tables, crashes>>

(* migrateUserSharedDataToHouse, one transaction; it fails when the user   *)
(* is not a member of that house (any more), and the mark stays.           *)
Migrate(t) ==
  LET u == tx[t].target IN
  /\ tx[t].pc = "migrate" /\ UserFree(u)
  /\ IF member[u] = tx[t].to
     THEN Goto(t, "clear") /\ unmoved' = unmoved \ {u}
     ELSE Ends(t) /\ UNCHANGED unmoved
  /\ UNCHANGED <<accounts, open, used, member, admins, granted, pending, crashes>>

(* Mutant: the mark of a migration that is done stays.                     *)
ClearNothing(t) == tx[t].pc = "clear" /\ Refused(t)

(* clearHouseMigrationPending, by user.                                    *)
Clear(t) ==
  /\ tx[t].pc = "clear"
  /\ pending' = [pending EXCEPT ![tx[t].target] = NoHouse]
  /\ Ends(t)
  /\ UNCHANGED <<accounts, open, used, member, admins, granted, unmoved, crashes>>

(* importPendingAccountQueue: the queue of the device joins the rows of    *)
(* the account and is migrated with them, in one transaction.              *)
ImportQueue(u) ==
  /\ u \in accounts /\ member[u] # NoHouse /\ UserFree(u)
  /\ unmoved' = unmoved \ {u}
  /\ UNCHANGED <<accounts, open, used, member, admins, granted, pending, tx, crashes>>

(* The process or the connection dies, or a migration fails.               *)
Crash(t) ==
  /\ tx[t].pc # "idle" /\ crashes < MaxCrashes /\ crashes' = crashes + 1
  /\ Ends(t)
  /\ UNCHANGED tables

-----------------------------------------------------------------------------
Request(t) ==
  \/ \E u \in User :
       \/ BeginLeave(t, u) \/ BeginDelete(t, u) \/ BeginGrant(t, u)
       \/ BeginWrite(t, u) \/ GetState(t, u)
       \/ \E h \in House : CreateHouse(t, u, h)
  \/ \E a, u \in User : BeginAdd(t, a, u) \/ BeginRole(t, a, u) \/ BeginRemove(t, a, u)

Proceed(t) ==
  \/ ReadAdmin(t) \/ LockTarget(t) \/ InsertMember(t) \/ RefuseInsert(t)
  \/ Promote(t) \/ Demote(t) \/ Remove(t) \/ RefuseChange(t)
  \/ Leave(t) \/ Delete(t) \/ RefuseQuit(t) \/ Grant(t)
  \/ WriteAccount(t) \/ SetPending(t) \/ Migrate(t) \/ Clear(t)

Next ==
  \/ \E t \in Tx : Request(t) \/ Proceed(t) \/ Crash(t)
  \/ \E u \in User : Revoke(u) \/ ImportQueue(u)

Spec == Init /\ [][Next]_vars

(* The database serves waiting transactions, and the app of a member asks  *)
(* for the house whenever it starts.                                       *)
LiveSpec == /\ Spec
            /\ \A t \in Tx : SF_vars(Proceed(t))
            /\ \A u \in User : SF_vars(\E t \in Tx : GetState(t, u))

-----------------------------------------------------------------------------
(* Properties.                                                             *)

(* Every house has an admin among its members, whatever admins demote,     *)
(* remove or leave at the same time and whoever deletes the account, and   *)
(* nobody is a member of a house that is gone.                             *)
AdminInEveryHouse ==
  /\ \A h \in open : AdminsOf(h) # {}
  /\ \A u \in User : member[u] \in open \cup {NoHouse}

(* The service reader acts for an admin: a grant that is not revoked has a *)
(* sponsor who is an admin now, although grants are made and admins are    *)
(* demoted, removed or deleted under different locks.                      *)
GrantsHaveAdmins == granted \subseteq admins

(* The membership and the role of a user change only by the user leaving,  *)
(* creating a house or deleting the account, or by a request of an admin   *)
(* of that house, who is one when the change is made and not only when the *)
(* request arrived.                                                        *)
ChangedBy(u, t, h) ==
  \/ tx[t].target = u /\ IsAdmin(tx[t].actor, h)
       /\ tx[t].pc \in {"insert", "promote", "demote", "remove"}
  \/ tx[t].actor = u /\ tx[t].pc \in {"leave", "delete"}

MembershipChanges(u) == member'[u] # member[u] \/ (u \in admins) # (u \in admins')

Founds(u) == /\ member[u] = NoHouse /\ u \in admins'
             /\ member'[u] \in used' \ used

ChangedByAdmins ==
  [][\A u \in User : MembershipChanges(u) =>
       \/ Founds(u)
       \/ \E t \in Tx : /\ tx'[t] # tx[t]
                        /\ \E h \in House \cap {member[u], member'[u]} : ChangedBy(u, t, h)]_vars

(* profile/repository.ts:123: the rows of an account do not survive it,    *)
(* although a mutation that was accepted before waits for the user's lock. *)
NoOrphanedRows == unmoved \subseteq accounts

(* A user who stays in a house ends up with no shared rows outside it,     *)
(* wherever the migration was cut off.                                     *)
EventuallyMoved ==
  \A u \in User : <>[](member[u] # NoHouse) => <>[](u \notin unmoved)

(* ... and is not locked out of the feed for ever by the mark.             *)
EventuallyUnmarked ==
  \A u \in User : <>[](member[u] # NoHouse) => []<>(pending[u] = NoHouse)

(* house/service.ts:62: the mark of a migration stands until the migration *)
(* is done, and GET /v1/house can resume it: no mark stays for ever.       *)
MarkResumed ==
  \A u \in User : pending[u] # NoHouse ~> pending[u] = NoHouse
=============================================================================
