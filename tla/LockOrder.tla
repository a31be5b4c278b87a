------------------------------ MODULE LockOrder ------------------------------
(***************************************************************************)
(* The locks that the server's transactions take, in the order they take   *)
(* them: rows FOR SHARE and FOR UPDATE, the KEY SHARE of foreign keys, and *)
(* advisory locks that end with the transaction.  What a transaction does  *)
(* under its locks is left to the other modules, except for what decides   *)
(* which locks come next: the house its user is in, and the houses that it *)
(* has created, whose rows name it as long as it has an account.           *)
(*                                                                         *)
(* A transaction takes the first locks of its plan, looks up the house,    *)
(* takes the others and commits.  All locks are kept until then.           *)
(***************************************************************************)
EXTENDS Naturals, Sequences, FiniteSets

CONSTANTS
  User, House, Tx,
  NoHouse,        \* no membership: the transaction works on the account
  Unread,         \* the transaction has not looked at the membership yet
  Kinds           \* the kinds of transaction that are run

AllKinds == {"diary", "lot", "consume", "plan", "migrate", "import", "feed",
             "create", "zone", "add", "member", "delete", "grant", "context",
             "candidate", "consent", "chat", "settle", "mark", "erase"}

ASSUME KindsKnown    == Kinds \subseteq AllKinds
ASSUME NamesDistinct ==
  /\ NoHouse \notin House \cup User /\ Unread \notin House \cup {NoHouse}
  /\ User \cap House = {}
ASSUME HouseFinite   == IsFiniteSet(House)

VARIABLES
  home,       \* house_memberships: the house of each user
  creator,    \* houses.created_by_user_id, NoHouse when it is null or there is no such house
  tx          \* the transactions that are open

vars == <<home, creator, tx>>

(* Row locks by strength; an advisory lock is as strong as FOR UPDATE.     *)
Modes == [KeyShare |-> 1, Share |-> 2, NoKeyUpdate |-> 3, Update |-> 4]

Conflict(a, b) == Modes[a] + Modes[b] > 4

Lock(what, of, mode) == [what |-> what, of |-> of, mode |-> mode]

X(what, of) == Lock(what, of, "Update")
S(what, of) == Lock(what, of, "Share")

(* A house that a user has created is updated when that user is deleted:   *)
(* created_by_user_id is a foreign key with ON DELETE SET NULL.            *)
CreatorLock(h) == Lock("house", h, "NoKeyUpdate")

CommitOrder == X("commit-order", NoHouse)

Done == [kind |-> "done", user |-> NoHouse, target |-> NoHouse, house |-> NoHouse,
         created |-> <<>>, held |-> 0]

TxType == [kind : Kinds, user : User, target : User,
           house : House \cup {NoHouse, Unread}, created : Seq(House), held : Nat]

TypeOK == /\ home \in [User -> House \cup {NoHouse}]
          /\ creator \in [House -> User \cup {NoHouse}]
          /\ tx \in [Tx -> {Done} \cup TxType]

(* Houses are there, with any members; who created one may have left it.   *)
Init ==
  /\ home \in [User -> House \cup {NoHouse}]
  /\ creator \in [House -> User \cup {NoHouse}]
  /\ \A h \in House : creator[h] # NoHouse => \E u \in User : home[u] = h
  /\ tx = [t \in Tx |-> Done]

-----------------------------------------------------------------------------
(* The transactions, each with the locks it takes in a house h and, where   *)
(* it may work on the account u as well, those it takes there.  Most take   *)
(* their user first: FOR SHARE to write shared data, FOR UPDATE to change   *)
(* what the user belongs to.  The trigger takes the commit order after the  *)
(* row that is updated.                                                     *)

(* applyMutation of a row ...                                              *)
DiaryPlan(u, h) ==
  IF h = NoHouse THEN <<S("user", u), X("diary", u), CommitOrder>>
  ELSE <<S("user", u), X("house", h), X("diary", h), CommitOrder>>

(* ... and of a lot, under the lock of the pantry it is in.                *)
LotPlan(u, h) ==
  IF h = NoHouse THEN <<S("user", u), X("pantry", u), X("lot", u), CommitOrder>>
  ELSE <<S("user", u), X("house", h), X("pantry", h), X("lot", h), CommitOrder>>

(* consumeDinner: the lots, and a dinner and cook event that are new.      *)
ConsumePlan(u, h) ==
  IF h = NoHouse THEN <<S("user", u), X("pantry", u), X("lot", u), CommitOrder>>
  ELSE <<S("user", u), X("house", h), X("pantry", h), X("lot", h), CommitOrder, X("diary", h)>>

(* runDrizzleMealPlanCommand: the sequence is reserved after the rows are  *)
(* read and before they are written.                                       *)
PlanPlan(u, h) ==
  IF h = NoHouse THEN <<S("user", u), X("plan", u), X("planned", u), CommitOrder>>
  ELSE <<S("user", u), X("house", h), X("plan", h), X("planned", h), CommitOrder>>

(* migrateUserSharedDataToHouse moves the account's pantry, plan and diary.*)
MigratePlan(u, h) ==
  <<S("user", u), X("house", h), X("membership", <<u, h>>), X("pantry", u), X("lot", u),
    X("lot", h), CommitOrder, X("plan", h), X("planned", u), X("planned", h),
    X("diary", u), X("diary", h)>>

(* mergePantry and mergeGuestDietProfile.                                  *)
ImportPlan(u, h) ==
  <<S("user", u), X("house", h), X("membership", <<u, h>>), X("lot", h), CommitOrder>>

(* createHouse.                                                            *)
CreatePlan(u) == <<X("user", u), X("membership", <<u, NoHouse>>)>>

(* Mutant: the house is locked before the user who is to be added.          *)
HouseBeforeTarget(v, h) == <<X("house", h), X("user", v), X("membership", <<v, h>>)>>

(* Mutant: the user who is to be added is not locked.                       *)
TargetUnlocked(v, h) == <<X("house", h), X("membership", <<v, h>>)>>

(* addExistingMember locks the user to be added, and then the house.       *)
AddPlan(v, h) == <<X("user", v), X("house", h), X("membership", <<v, h>>)>>

(* updateMemberRole, removeMember and leaveHouse.                          *)
MemberPlan(v, h) ==
  <<X("house", h), X("membership", <<v, h>>), X("grant", <<v, h>>)>>

(* deleteAccount.  Deleting the user runs the actions of the foreign keys in*)
(* the order they were created: its membership goes, with the grants, the   *)
(* houses it has created lose their creator, and the rows it has written in *)
(* its house their author.                                                  *)
DeletePlan(u, h, created) ==
  LET Creators == [i \in 1 .. Len(created) |-> CreatorLock(created[i])] IN
  IF h = NoHouse THEN <<X("user", u)>> \o Creators
  ELSE <<X("user", u), X("house", h), X("membership", <<u, h>>), X("grant", <<u, h>>)>>
       \o Creators \o <<X("diary", h), CommitOrder>>

(* The same for a user in no house, some of whose rows are left in a house  *)
(* it was in: they are rewritten without a lock of that house.              *)
ErasePlan(u, h, created) ==
  DeletePlan(u, NoHouse, created) \o <<X("lot", h), CommitOrder, X("diary", h)>>

(* The time zone of the house, read and written.                           *)
ZonePlan(u, h) == <<S("user", u), X("house", h)>>

(* The feed.                                                               *)
FeedPlan(h) == <<S("house", h)>>

(* Grants of the service reader, and what it reads.                        *)
GrantPlan(u, h) ==
  <<X("key", u), X("user", u), X("house", h), X("membership", <<u, h>>),
    X("grant", <<u, h>>)>>
ContextPlan(u, h) ==
  <<S("user", u), S("house", h), S("membership", <<u, h>>), S("grant", <<u, h>>)>>

(* The inbox of the pantry: what is read from the list of the other service *)
(* (syncRecently), and what becomes of it (resolveMany).                   *)
CandidatePlan(u, h) ==
  <<S("user", u), X("house", h), Lock("membership", <<u, h>>, "KeyShare"), X("pantry", h),
    X("connection", u), X("candidate", h), X("lot", h), CommitOrder>>

(* updateAiConsent, and the chat that is let through while it is locked.   *)
ConsentPlan(u) == <<X("consent", u), X("user", u), X("consented", u), CommitOrder>>
ChatPlan(u) == <<X("consent", u), X("user", u), X("control", NoHouse)>>
SettlePlan == <<X("control", NoHouse)>>

(* setHouseMigrationPending: the foreign keys of the row are checked in the*)
(* order they were created, house_id before user_id.                       *)
MarkPlan(u, h) == <<Lock("house", h, "KeyShare"), Lock("user", u, "KeyShare")>>

Plan(k, u, v, h, created) ==
  CASE k = "diary"     -> DiaryPlan(u, h)
    [] k = "lot"       -> LotPlan(u, h)
    [] k = "consume"   -> ConsumePlan(u, h)
    [] k = "plan"      -> PlanPlan(u, h)
    [] k = "migrate"   -> MigratePlan(u, h)
    [] k = "import"    -> ImportPlan(u, h)
    [] k = "feed"      -> FeedPlan(h)
    [] k = "create"    -> CreatePlan(u)
    [] k = "zone"      -> ZonePlan(u, h)
    [] k = "add"       -> AddPlan(v, h)
    [] k = "member"    -> MemberPlan(v, h)
    [] k = "delete"    -> DeletePlan(u, h, created)
    [] k = "erase"     -> ErasePlan(u, h, created)
    [] k = "grant"     -> GrantPlan(u, h)
    [] k = "context"   -> ContextPlan(u, h)
    [] k = "candidate" -> CandidatePlan(u, h)
    [] k = "consent"   -> ConsentPlan(u)
    [] k = "chat"      -> ChatPlan(u)
    [] k = "settle"    -> SettlePlan
    [] k = "mark"      -> MarkPlan(u, h)

(* How many of them it takes before it looks up the house of its user.     *)
LooksAfter(k) ==
  CASE k \in {"feed", "add", "member", "settle", "mark"} -> 0
    [] k \in {"grant", "consent", "chat"} -> 2
    [] k \in AllKinds \ {"feed", "add", "member", "settle", "mark",
                         "grant", "consent", "chat"} -> 1

-----------------------------------------------------------------------------
Open(t) == tx[t] # Done

Locks(t) == Plan(tx[t].kind, tx[t].user, tx[t].target, tx[t].house, tx[t].created)

Held(t) == {Locks(t)[i] : i \in 1 .. tx[t].held}

ToTake(t) == IF tx[t].house = Unread THEN LooksAfter(tx[t].kind) ELSE Len(Locks(t))

Waits(t)  == Open(t) /\ tx[t].held < ToTake(t)
Wanted(t) == Locks(t)[tx[t].held + 1]

Refuses(held, l) == held.what = l.what /\ held.of = l.of /\ Conflict(held.mode, l.mode)

(* Those that hold what t waits for.                                       *)
Blockers(t) == {s \in Tx \ {t} : Open(s) /\ \E l \in Held(s) : Refuses(l, Wanted(t))}

Begin(t, k, u, v) ==
  /\ ~Open(t)
  /\ v = u \/ k \in {"add", "member"}
  /\ tx' = [tx EXCEPT ![t] = [kind |-> k, user |-> u, target |-> v,
                              house |-> Unread, created |-> <<>>, held |-> 0]]
  /\ UNCHANGED <<home, creator>>

Abort(t) == tx' = [tx EXCEPT ![t] = Done] /\ UNCHANGED <<home, creator>>

(* These work in the account when their user is in no house.               *)
InAccount == {"diary", "lot", "consume", "plan", "delete", "consent", "chat", "settle"}

(* The membership that is read once the user is locked decides what the    *)
(* transaction works on, or that it is refused.                            *)
WorksOn(r) ==
  LET h == home[r.user] IN
  CASE r.kind = "create"     -> IF h = NoHouse THEN {NoHouse} ELSE {}
    [] r.kind = "erase"      -> IF h = NoHouse THEN House ELSE {}
    [] r.kind \in InAccount  -> {h}
    [] r.kind \in AllKinds \ (InAccount \cup {"create", "erase"}) -> {h} \ {NoHouse}

(* The houses that lose their creator with the user, in the order in which  *)
(* the table is read; its own is locked already.                            *)
LosesCreator(r) ==
  LET G == {g \in House \ {home[r.user]} : creator[g] = r.user} IN
  IF r.kind \notin {"delete", "erase"} THEN {<<>>}
  ELSE {s \in [1 .. Cardinality(G) -> G] : \A i, j \in DOMAIN s : s[i] = s[j] => i = j}

AtLook(t) == Open(t) /\ tx[t].house = Unread /\ ~Waits(t)

Look(t) ==
  /\ AtLook(t)
  /\ \E h \in WorksOn(tx[t]), s \in LosesCreator(tx[t]) :
       tx' = [tx EXCEPT ![t].house = h, ![t].created = s]
  /\ UNCHANGED <<home, creator>>

LookRefused(t) == AtLook(t) /\ WorksOn(tx[t]) = {} /\ Abort(t)

(* Once the house is locked the membership is looked at again.  An account  *)
(* is deleted all the same.                                                 *)
StillMember(t) ==
  \/ tx[t].kind \in {"mark", "feed", "delete", "erase"}
  \/ Wanted(t).what = "house" => home[tx[t].user] = tx[t].house

Acquire(t) ==
  /\ Waits(t) /\ Blockers(t) = {}
  /\ StillMember(t)
  /\ tx' = [tx EXCEPT ![t].held = @ + 1] /\ UNCHANGED <<home, creator>>

NoLongerMember(t) == Waits(t) /\ Blockers(t) = {} /\ ~StillMember(t) /\ Abort(t)

(* A new house is one that nobody is in.                                   *)
Joins(r, h) ==
  IF r.kind = "create" THEN \A u \in User : home[u] # h
  ELSE r.kind = "add" /\ h = r.house /\ home[r.target] = NoHouse

(* The creators that are left: a house that nobody is in any more is deleted.*)
OfHouses(c) == [h \in House |-> IF \E u \in User : home'[u] = h THEN c[h] ELSE NoHouse]

(* A change may also be refused, as one that would leave a house no admin.  *)
Commit(t) ==
  LET r == tx[t] IN
  /\ Open(t) /\ r.house # Unread /\ ~Waits(t)
  /\ tx' = [tx EXCEPT ![t] = Done]
  /\ \/ \E h \in House :
          /\ Joins(r, h) /\ home' = [home EXCEPT ![r.target] = h]
          /\ creator' = IF r.kind = "create" THEN [creator EXCEPT ![h] = r.user] ELSE creator
     \/ /\ r.kind = "member" /\ home[r.target] = r.house
        /\ home' = [home EXCEPT ![r.target] = NoHouse]
        /\ creator' = OfHouses(creator)
     \/ /\ r.kind \in {"delete", "erase"}
        /\ home' = [home EXCEPT ![r.target] = NoHouse]
        /\ creator' = OfHouses([h \in House |->
                        IF creator[h] = r.user THEN NoHouse ELSE creator[h]])
     \/ UNCHANGED <<home, creator>>

Next ==
  \E t \in Tx :
    \/ \E k \in Kinds, u, v \in User : Begin(t, k, u, v)
    \/ Look(t) \/ LookRefused(t)
    \/ Acquire(t) \/ NoLongerMember(t) \/ Commit(t)

Spec == Init /\ [][Next]_vars

-----------------------------------------------------------------------------
(* Transactions that wait for one another: each in a set of waiting ones   *)
(* waits for somebody of that set.                                         *)
Deadlocked(D) == D # {} /\ \A t \in D : Waits(t) /\ Blockers(t) \cap D # {}

(* An account is being deleted and waits for a house that its user created.*)
WaitsAsCreator(t) == Waits(t) /\ \E h \in House : Wanted(t) = CreatorLock(h)

(* No transactions wait for one another, but for deletions of accounts of  *)
(* which at least two wait for houses that their users created: the only   *)
(* locks of the kinds that are run which leave the order of the locks.     *)
DeadlockNeedsCreators ==
  \A D \in SUBSET Tx :
    Deadlocked(D) => \E s, t \in D : s # t /\ WaitsAsCreator(s) /\ WaitsAsCreator(t)

(* Nobody waits for one another at all: "Match the user-then-house lock    *)
(* order of membership creation and shared writes" (deleteAccount).        *)
NoDeadlock == \A D \in SUBSET Tx : ~Deadlocked(D)

(* While a write works in an account, its user is being migrated to no      *)
(* house: the scope that a write has looked up stays right until it commits *)
(* (resolveTransactionScope), though nobody locks the membership for it.    *)
AccountQuietDuringMigration ==
  \A s, t \in Tx :
    /\ Open(s) /\ tx[s].kind \in {"diary", "lot", "consume", "plan"}
    /\ tx[s].house = NoHouse
    /\ Open(t) /\ tx[t].kind = "migrate"
    /\ \E l \in Held(t) : l.what = "house"
    => tx[s].user # tx[t].user
=============================================================================
