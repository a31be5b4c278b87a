----------------------- MODULE HouseMembershipProofs -----------------------
(***************************************************************************)
(* Theorems about HouseMembership, for every set of users, houses and      *)
(* connections, and every number of requests that are cut off.             *)
(***************************************************************************)
EXTENDS HouseMembership, TLAPS

(* TypeOK, by the part of the state it is about.                           *)
TablesOK ==
  /\ accounts \subseteq User /\ open \subseteq used /\ used \subseteq House
  /\ member \in [User -> House \cup {NoHouse}]
  /\ admins \subseteq User /\ granted \subseteq User
  /\ pending \in [User -> open \cup {NoHouse}]
  /\ unmoved \subseteq User

RequestsOK ==
  /\ tx \in [Tx -> TxType] /\ crashes \in Nat
  /\ \A t \in Tx : tx[t].pc # "idle" => tx[t].actor \in User /\ tx[t].target \in User

LEMMA TypeParts ==
  /\ TypeOK <=> TablesOK /\ RequestsOK
  /\ TypeOK' <=> TablesOK' /\ RequestsOK'
BY DEF TypeOK, TablesOK, RequestsOK

(* The role is a column of the membership: an admin is a member of a house.*)
AdminsAreMembers == \A u \in admins : member[u] # NoHouse

(* What the requests of several users keep together.  AdminInEveryHouse    *)
(* alone is not inductive: the house of an admin that is promoted, granted *)
(* or expelled has to be one that exists.                                  *)
Roles == AdminInEveryHouse /\ AdminsAreMembers /\ GrantsHaveAdmins

IInv == TypeOK /\ Roles /\ NoOrphanedRows

-----------------------------------------------------------------------------
(* Requests.                                                               *)

LEMMA EndsKeeps ==
  ASSUME RequestsOK, NEW t \in Tx, Ends(t), crashes' \in Nat
  PROVE  RequestsOK'
BY DEF RequestsOK, Ends, Idle, TxType, Pc

LEMMA GotoKeeps ==
  ASSUME RequestsOK, NEW t \in Tx, NEW pc \in Pc, tx[t].pc # "idle", Goto(t, pc),
         crashes' = crashes
  PROVE  RequestsOK'
BY DEF RequestsOK, Goto, TxType

LEMMA NewRequestKeeps ==
  ASSUME RequestsOK, NEW t \in Tx, NEW pc \in Pc, NEW a \in User, NEW u \in User,
         NEW h \in House \cup {NoHouse}, crashes' = crashes,
         tx' = [tx EXCEPT ![t] = [pc |-> pc, actor |-> a, target |-> u,
                                  house |-> h, to |-> h]]
  PROVE  RequestsOK'
BY DEF RequestsOK, TxType

(* A request that only starts, waits or is refused changes no table.       *)
LEMMA TablesKeep ==
  ASSUME IInv, UNCHANGED tables, RequestsOK'
  PROVE  IInv'
<1>1. TablesOK' BY TypeParts DEF IInv, TablesOK, tables
<1>2. Roles' BY DEF IInv, Roles, AdminInEveryHouse, AdminsAreMembers, GrantsHaveAdmins,
                AdminsOf, Members, tables
<1>3. NoOrphanedRows' BY DEF IInv, NoOrphanedRows, tables
<1> QED BY <1>1, <1>2, <1>3, TypeParts DEF IInv

LEMMA BeginKeeps ==
  ASSUME IInv, NEW t \in Tx, NEW pc \in Pc, NEW a \in User, NEW u \in User,
         NEW h \in House \cup {NoHouse}, Begin(t, pc, a, u, h)
  PROVE  IInv'
BY NewRequestKeeps, TablesKeep, TypeParts DEF IInv, Begin

LEMMA RefusedKeeps ==
  ASSUME IInv, NEW t \in Tx, Refused(t)
  PROVE  IInv'
<1>1. RequestsOK /\ crashes' \in Nat BY TypeParts DEF IInv, RequestsOK, Refused
<1> QED BY <1>1, EndsKeeps, TablesKeep DEF Refused

-----------------------------------------------------------------------------
(* Memberships.                                                            *)

(* The house of an admin exists.                                           *)
LEMMA AdminsHouse ==
  ASSUME TablesOK, Roles, NEW u \in User, NEW h, IsAdmin(u, h)
  PROVE  h \in open /\ h \in House /\ h # NoHouse /\ member[u] = h /\ u \in admins
BY NamesDistinct DEF TablesOK, Roles, AdminInEveryHouse, AdminsAreMembers,
   IsAdmin, AdminsOf, Members

(* A member who is not the last admin is expelled, and the house stays.    *)
LEMMA ExpelKeeps ==
  ASSUME TablesOK, Roles, NEW u \in User, Expel(u), UNCHANGED open,
         ~LastAdmin(u, member[u])
  PROVE  Roles'
<1>1. AdminInEveryHouse'
  <2>1. ASSUME NEW h \in open PROVE AdminsOf(h)' # {}
    <3>1. PICK v \in AdminsOf(h) : v # u
      <4>1. AdminsOf(h) # {} BY DEF Roles, AdminInEveryHouse
      <4>2. CASE h = member[u] BY <4>1, <4>2 DEF LastAdmin
      <4>3. CASE h # member[u] BY <4>1, <4>3 DEF AdminsOf, Members
      <4> QED BY <4>2, <4>3
    <3> QED BY <3>1 DEF AdminsOf, Members, Expel, TablesOK
  <2>2. \A v \in User : member'[v] \in open \cup {NoHouse}
    BY DEF Expel, TablesOK, Roles, AdminInEveryHouse
  <2> QED BY <2>1, <2>2 DEF AdminInEveryHouse
<1>2. AdminsAreMembers' BY DEF Expel, TablesOK, Roles, AdminsAreMembers
<1>3. GrantsHaveAdmins' BY DEF Expel, Roles, GrantsHaveAdmins
<1> QED BY <1>1, <1>2, <1>3 DEF Roles

(* The last member is expelled, and the house goes.                        *)
LEMMA CloseKeeps ==
  ASSUME TablesOK, Roles, NEW u \in User, Expel(u), open' = open \ {member[u]},
         TakesHouse(u, member[u])
  PROVE  Roles'
<1>1. AdminInEveryHouse'
  <2>1. ASSUME NEW h \in open, h # member[u] PROVE AdminsOf(h)' # {}
    <3>1. PICK v \in AdminsOf(h) : TRUE BY DEF Roles, AdminInEveryHouse
    <3>2. v # u BY <2>1, <3>1 DEF AdminsOf, Members
    <3> QED BY <3>1, <3>2 DEF AdminsOf, Members, Expel, TablesOK
  <2>2. \A v \in User : member'[v] \in (open \ {member[u]}) \cup {NoHouse}
    BY DEF Expel, TablesOK, Roles, AdminInEveryHouse, TakesHouse, Members
  <2> QED BY <2>1, <2>2 DEF AdminInEveryHouse
<1>2. AdminsAreMembers' BY DEF Expel, TablesOK, Roles, AdminsAreMembers
<1>3. GrantsHaveAdmins' BY DEF Expel, Roles, GrantsHaveAdmins
<1> QED BY <1>1, <1>2, <1>3 DEF Roles

(* leaveHouse and deleteAccount of a member who may go.                    *)
LEMMA QuitsKeeps ==
  ASSUME TablesOK, Roles, NEW u \in User, Quits(u, member[u]), ~MustStay(u, member[u])
  PROVE  /\ Roles'
         /\ open' \subseteq open /\ member' \in [User -> House \cup {NoHouse}]
         /\ admins' \subseteq User /\ granted' \subseteq User
<1>1. Roles'
  <2>1. CASE TakesHouse(u, member[u]) BY <2>1, CloseKeeps DEF Quits
  <2>2. CASE ~TakesHouse(u, member[u])
    <3>1. ~LastAdmin(u, member[u]) BY <2>2 DEF TakesHouse, MustStay
    <3> QED BY <2>2, <3>1, ExpelKeeps DEF Quits
  <2> QED BY <2>1, <2>2
<1> QED BY <1>1 DEF Quits, Expel, TablesOK

-----------------------------------------------------------------------------
(* The actions, one lemma for each that changes a table.                   *)

LEMMA CreateKeeps ==
  ASSUME IInv, NEW t \in Tx, NEW u \in User, NEW h \in House, CreateHouse(t, u, h)
  PROVE  IInv'
<1>1. TablesOK /\ RequestsOK /\ Roles BY TypeParts DEF IInv
<1>2. RequestsOK'
  <2>1. "set" \in Pc BY DEF Pc
  <2> QED BY <1>1, <2>1, NewRequestKeeps DEF CreateHouse
<1>3. TablesOK' BY <1>1 DEF CreateHouse, TablesOK
<1>4. h \notin open /\ h # NoHouse BY <1>1, NamesDistinct DEF CreateHouse, TablesOK
<1>5. u \notin admins BY <1>1 DEF CreateHouse, Roles, AdminsAreMembers
<1>6. AdminInEveryHouse'
  <2>1. \A g \in open : AdminsOf(g)' # {}
    <3>1. SUFFICES ASSUME NEW g \in open PROVE AdminsOf(g)' # {} OBVIOUS
    <3>2. PICK v \in AdminsOf(g) : TRUE BY <1>1 DEF Roles, AdminInEveryHouse
    <3>3. v # u BY <1>5, <3>2 DEF AdminsOf
    <3> QED BY <1>1, <3>2, <3>3 DEF AdminsOf, Members, CreateHouse, TablesOK
  <2>2. AdminsOf(h)' # {} BY <1>1 DEF AdminsOf, Members, CreateHouse, TablesOK
  <2>3. \A v \in User : member'[v] \in open' \cup {NoHouse}
    BY <1>1 DEF CreateHouse, TablesOK, Roles, AdminInEveryHouse
  <2> QED BY <2>1, <2>2, <2>3 DEF AdminInEveryHouse, CreateHouse
<1>7. AdminsAreMembers' BY <1>1, <1>4 DEF CreateHouse, TablesOK, Roles, AdminsAreMembers
<1>8. GrantsHaveAdmins' BY <1>1 DEF CreateHouse, Roles, GrantsHaveAdmins
<1>9. NoOrphanedRows' BY DEF IInv, NoOrphanedRows, CreateHouse
<1> QED BY <1>2, <1>3, <1>6, <1>7, <1>8, <1>9, TypeParts DEF IInv, Roles

LEMMA InsertKeeps ==
  ASSUME IInv, NEW t \in Tx, InsertMember(t)
  PROVE  IInv'
<1> DEFINE u == tx[t].target
           h == tx[t].house
<1>1. TablesOK /\ RequestsOK /\ Roles BY TypeParts DEF IInv
<1>2. u \in User /\ tx[t].actor \in User BY <1>1 DEF RequestsOK, InsertMember
<1>3. h \in open /\ h \in House BY <1>1, <1>2, AdminsHouse DEF InsertMember, MayJoin
<1>4. member[u] = NoHouse /\ u \notin admins
  BY <1>1 DEF InsertMember, MayJoin, Roles, AdminsAreMembers
<1>5. member' = [member EXCEPT ![u] = h] /\ UNCHANGED <<open, admins, granted>>
  BY DEF InsertMember
<1>6. RequestsOK'
  <2>1. "set" \in Pc BY DEF Pc
  <2> QED BY <1>1, <2>1, GotoKeeps DEF InsertMember
<1>7. TablesOK' BY <1>1, <1>3 DEF InsertMember, TablesOK
<1> HIDE DEF u, h
<1>8. AdminInEveryHouse'
  <2>1. ASSUME NEW g \in open PROVE AdminsOf(g)' # {}
    <3>1. PICK v \in AdminsOf(g) : TRUE BY <1>1 DEF Roles, AdminInEveryHouse
    <3>2. v # u BY <1>4, <3>1 DEF AdminsOf
    <3> QED BY <1>1, <1>5, <3>1, <3>2 DEF AdminsOf, Members, TablesOK
  <2>2. \A v \in User : member'[v] \in open \cup {NoHouse}
    BY <1>1, <1>3, <1>5 DEF TablesOK, Roles, AdminInEveryHouse
  <2> QED BY <1>5, <2>1, <2>2 DEF AdminInEveryHouse
<1>9. AdminsAreMembers' BY <1>1, <1>4, <1>5 DEF TablesOK, Roles, AdminsAreMembers
<1>10. GrantsHaveAdmins' BY <1>1, <1>5 DEF Roles, GrantsHaveAdmins
<1>11. NoOrphanedRows' BY DEF IInv, NoOrphanedRows, InsertMember
<1> QED BY <1>6, <1>7, <1>8, <1>9, <1>10, <1>11, TypeParts DEF IInv, Roles

LEMMA PromoteKeeps ==
  ASSUME IInv, NEW t \in Tx, Promote(t)
  PROVE  IInv'
<1>1. TablesOK /\ RequestsOK /\ Roles BY TypeParts DEF IInv
<1>2. tx[t].target \in User /\ tx[t].actor \in User BY <1>1 DEF RequestsOK, Promote
<1>3. member[tx[t].target] # NoHouse
  BY <1>1, <1>2, AdminsHouse DEF Promote, MayChange
<1>4. RequestsOK' BY <1>1, EndsKeeps DEF Promote, RequestsOK
<1>5. TablesOK' BY <1>1, <1>2 DEF Promote, TablesOK
<1>6. Roles' BY <1>1, <1>3 DEF Promote, Roles, AdminInEveryHouse, AdminsAreMembers,
                GrantsHaveAdmins, AdminsOf, Members
<1>7. NoOrphanedRows' BY DEF IInv, NoOrphanedRows, Promote
<1> QED BY <1>4, <1>5, <1>6, <1>7, TypeParts DEF IInv

LEMMA DemoteKeeps ==
  ASSUME IInv, NEW t \in Tx, Demote(t)
  PROVE  IInv'
<1> DEFINE u == tx[t].target
<1>1. TablesOK /\ RequestsOK /\ Roles BY TypeParts DEF IInv
<1>2. u \in User /\ member[u] = tx[t].house BY <1>1 DEF RequestsOK, Demote, MayChange
<1>3. RequestsOK' BY <1>1, EndsKeeps DEF Demote, RequestsOK
<1>4. TablesOK' BY <1>1 DEF Demote, TablesOK
<1>5. AdminInEveryHouse'
  <2>1. ASSUME NEW h \in open PROVE AdminsOf(h)' # {}
    <3>1. PICK v \in AdminsOf(h) : v # u
      <4>1. AdminsOf(h) # {} BY <1>1 DEF Roles, AdminInEveryHouse
      <4>2. CASE h = tx[t].house BY <4>1, <4>2 DEF LastAdmin, Demote
      <4>3. CASE h # tx[t].house BY <1>2, <4>1, <4>3 DEF AdminsOf, Members
      <4> QED BY <4>2, <4>3
    <3> QED BY <3>1 DEF AdminsOf, Members, Demote
  <2> QED BY <1>1, <2>1 DEF Demote, Roles, AdminInEveryHouse
<1>6. AdminsAreMembers' /\ GrantsHaveAdmins'
  BY <1>1 DEF Demote, Roles, AdminsAreMembers, GrantsHaveAdmins
<1>7. NoOrphanedRows' BY DEF IInv, NoOrphanedRows, Demote
<1> QED BY <1>3, <1>4, <1>5, <1>6, <1>7, TypeParts DEF IInv, Roles

LEMMA RemoveKeeps ==
  ASSUME IInv, NEW t \in Tx, Remove(t)
  PROVE  IInv'
<1>1. TablesOK /\ RequestsOK /\ Roles BY TypeParts DEF IInv
<1>2. tx[t].target \in User /\ member[tx[t].target] = tx[t].house
  BY <1>1 DEF RequestsOK, Remove, MayChange
<1>3. RequestsOK' BY <1>1, EndsKeeps DEF Remove, RequestsOK
<1>4. TablesOK' BY <1>1 DEF Remove, Expel, TablesOK
<1>5. Roles' BY <1>1, <1>2, ExpelKeeps DEF Remove
<1>6. NoOrphanedRows' BY DEF IInv, NoOrphanedRows, Remove
<1> QED BY <1>3, <1>4, <1>5, <1>6, TypeParts DEF IInv

LEMMA LeaveKeeps ==
  ASSUME IInv, NEW t \in Tx, Leave(t)
  PROVE  IInv'
<1> DEFINE u == tx[t].actor
<1>1. TablesOK /\ RequestsOK /\ Roles BY TypeParts DEF IInv
<1>2. u \in User /\ member[u] = tx[t].house BY <1>1 DEF RequestsOK, Leave
<1>3. Quits(u, member[u]) /\ ~MustStay(u, member[u]) BY <1>2 DEF Leave
<1>4. RequestsOK' BY <1>1, EndsKeeps DEF Leave, RequestsOK
<1>5. /\ Roles'
      /\ open' \subseteq open /\ member' \in [User -> House \cup {NoHouse}]
      /\ admins' \subseteq User /\ granted' \subseteq User
  BY <1>1, <1>2, <1>3, QuitsKeeps
<1>6. pending' \in [User -> open' \cup {NoHouse}]
  BY <1>1, <1>2 DEF Leave, Quits, WithoutHouse, TablesOK
<1>7. TablesOK' BY <1>1, <1>5, <1>6 DEF Leave, TablesOK
<1>8. NoOrphanedRows' BY DEF IInv, NoOrphanedRows, Leave
<1> QED BY <1>4, <1>5, <1>7, <1>8, TypeParts DEF IInv

LEMMA DeleteKeeps ==
  ASSUME IInv, NEW t \in Tx, Delete(t)
  PROVE  IInv'
<1> DEFINE u == tx[t].actor
<1>1. TablesOK /\ RequestsOK /\ Roles BY TypeParts DEF IInv
<1>2. u \in User BY <1>1 DEF RequestsOK, Delete
<1>3. RequestsOK' BY <1>1, EndsKeeps DEF Delete, RequestsOK
<1>4. /\ Roles'
      /\ open' \subseteq open /\ member' \in [User -> House \cup {NoHouse}]
      /\ admins' \subseteq User /\ granted' \subseteq User
  <2>1. CASE StillMember(t)
    <3>1. Quits(u, member[u]) /\ ~MustStay(u, member[u])
      BY <2>1 DEF Delete, StillMember
    <3> QED BY <1>1, <1>2, <3>1, QuitsKeeps
  <2>2. CASE ~StillMember(t)
    <3>1. UNCHANGED <<open, member, admins, granted>> BY <2>2 DEF Delete
    <3> QED BY <1>1, <3>1 DEF Roles, AdminInEveryHouse, AdminsAreMembers,
       GrantsHaveAdmins, AdminsOf, Members, TablesOK
  <2> QED BY <2>1, <2>2
<1>5. pending' \in [User -> open' \cup {NoHouse}]
  <2>1. CASE StillMember(t) /\ TakesHouse(u, tx[t].house)
    BY <1>1, <2>1 DEF Delete, Quits, WithoutHouse, TablesOK
  <2>2. CASE ~(StillMember(t) /\ TakesHouse(u, tx[t].house))
    <3>1. open' = open BY <2>2 DEF Delete, Quits
    <3>2. pending' = [pending EXCEPT ![u] = NoHouse] BY <2>2 DEF Delete
    <3> QED BY <1>1, <3>1, <3>2 DEF TablesOK
  <2> QED BY <2>1, <2>2
<1>6. TablesOK' BY <1>1, <1>4, <1>5 DEF Delete, TablesOK
<1>7. NoOrphanedRows' BY DEF IInv, NoOrphanedRows, Delete
<1> QED BY <1>3, <1>4, <1>6, <1>7, TypeParts DEF IInv

LEMMA GrantKeeps ==
  ASSUME IInv, NEW t \in Tx, Grant(t)
  PROVE  IInv'
<1>1. TablesOK /\ RequestsOK /\ Roles BY TypeParts DEF IInv
<1>2. tx[t].actor \in User BY <1>1 DEF RequestsOK, Grant
<1>3. RequestsOK' BY <1>1, EndsKeeps DEF Grant, RequestsOK
<1>4. TablesOK' BY <1>1, <1>2 DEF Grant, TablesOK
<1>5. Roles' BY <1>1, <1>2 DEF Grant, Roles, AdminInEveryHouse, AdminsAreMembers,
                GrantsHaveAdmins, AdminsOf, Members, IsAdmin
<1>6. NoOrphanedRows' BY DEF IInv, NoOrphanedRows, Grant
<1> QED BY <1>3, <1>4, <1>5, <1>6, TypeParts DEF IInv

LEMMA RevokeKeeps ==
  ASSUME IInv, NEW u \in User, Revoke(u)
  PROVE  IInv'
<1>1. TablesOK /\ RequestsOK /\ Roles BY TypeParts DEF IInv
<1>2. TablesOK' /\ RequestsOK' BY <1>1 DEF Revoke, TablesOK, RequestsOK
<1>3. Roles' BY <1>1 DEF Revoke, Roles, AdminInEveryHouse, AdminsAreMembers,
                GrantsHaveAdmins, AdminsOf, Members
<1>4. NoOrphanedRows' BY DEF IInv, NoOrphanedRows, Revoke
<1> QED BY <1>2, <1>3, <1>4, TypeParts DEF IInv

(* Steps that change the rows of accounts or the marks, and no membership. *)
LEMMA RowsKeep ==
  ASSUME IInv, UNCHANGED <<accounts, open, used, member, admins, granted>>,
         RequestsOK', pending' \in [User -> open \cup {NoHouse}],
         unmoved' \subseteq User, unmoved' \subseteq accounts
  PROVE  IInv'
<1>1. TablesOK' BY TypeParts DEF IInv, TablesOK
<1>2. Roles' BY DEF IInv, Roles, AdminInEveryHouse, AdminsAreMembers, GrantsHaveAdmins,
                AdminsOf, Members
<1>3. NoOrphanedRows' BY DEF NoOrphanedRows
<1> QED BY <1>1, <1>2, <1>3, TypeParts DEF IInv

LEMMA MigrationKeeps ==
  ASSUME IInv, NEW t \in Tx,
         WriteAccount(t) \/ SetPending(t) \/ Migrate(t) \/ Clear(t)
  PROVE  IInv'
<1>1. TablesOK /\ RequestsOK /\ NoOrphanedRows BY TypeParts DEF IInv
<1>2. pending \in [User -> open \cup {NoHouse}] /\ unmoved \subseteq User /\ unmoved \subseteq accounts
  BY <1>1 DEF TablesOK, NoOrphanedRows
<1>3. "migrate" \in Pc /\ "clear" \in Pc BY DEF Pc
<1>4. CASE WriteAccount(t)
  <2>1. RequestsOK' BY <1>1, <1>4, EndsKeeps DEF WriteAccount, RequestsOK
  <2>2. tx[t].actor \in User BY <1>1, <1>4 DEF WriteAccount, RequestsOK
  <2> QED BY <1>2, <1>4, <2>1, <2>2, RowsKeep DEF WriteAccount
<1>5. CASE SetPending(t)
  <2>1. RequestsOK'
    BY <1>1, <1>3, <1>5, EndsKeeps, GotoKeeps DEF SetPending, RequestsOK
  <2>2. pending' \in [User -> open \cup {NoHouse}] BY <1>2, <1>5 DEF SetPending
  <2> QED BY <1>2, <1>5, <2>1, <2>2, RowsKeep DEF SetPending
<1>6. CASE Migrate(t)
  <2>1. RequestsOK'
    BY <1>1, <1>3, <1>6, EndsKeeps, GotoKeeps DEF Migrate, RequestsOK
  <2> QED BY <1>2, <1>6, <2>1, RowsKeep DEF Migrate
<1>7. CASE Clear(t)
  <2>1. RequestsOK' BY <1>1, <1>7, EndsKeeps DEF Clear, RequestsOK
  <2>2. pending' \in [User -> open \cup {NoHouse}] BY <1>2, <1>7 DEF Clear
  <2> QED BY <1>2, <1>7, <2>1, <2>2, RowsKeep DEF Clear
<1> QED BY <1>4, <1>5, <1>6, <1>7

(* The requests of a connection that change no table.                      *)
LEMMA RequestsKeep ==
  ASSUME IInv, NEW t \in Tx,
         \/ \E u \in User : \/ BeginLeave(t, u) \/ BeginDelete(t, u) \/ BeginGrant(t, u)
                            \/ BeginWrite(t, u) \/ GetState(t, u)
         \/ \E a, u \in User : BeginAdd(t, a, u) \/ BeginRole(t, a, u) \/ BeginRemove(t, a, u)
  PROVE  IInv'
<1>1. PICK a \in User, u \in User, pc \in Pc, h \in House \cup {NoHouse} : Begin(t, pc, a, u, h)
  <2>1. \A v \in User : member[v] \in House \cup {NoHouse}
    BY TypeParts DEF IInv, TablesOK
  <2>2. {"leave", "delete", "grant", "write", "set", "add", "promote", "demote", "remove"}
           \subseteq Pc
    BY DEF Pc
  <2> QED BY <2>1, <2>2 DEF BeginLeave, BeginDelete, BeginGrant, BeginWrite, GetState,
                         BeginAdd, BeginRole, BeginRemove
<1> QED BY <1>1, BeginKeeps

LEMMA WaitsKeep ==
  ASSUME IInv, NEW t \in Tx, ReadAdmin(t) \/ LockTarget(t)
  PROVE  IInv'
<1>1. TablesOK /\ RequestsOK BY TypeParts DEF IInv
<1>2. UNCHANGED tables BY DEF ReadAdmin, LockTarget, tables
<1>3. RequestsOK'
  <2>1. CASE LockTarget(t)
    <3>1. "insert" \in Pc BY DEF Pc
    <3> QED BY <1>1, <2>1, <3>1, GotoKeeps DEF LockTarget
  <2>2. CASE ReadAdmin(t) /\ Ends(t)
    BY <1>1, <2>2, EndsKeeps DEF ReadAdmin, RequestsOK
  <2>3. CASE ReadAdmin(t) /\ ~Ends(t)
    <3>1. tx[t].actor \in User BY <1>1, <2>3 DEF ReadAdmin, RequestsOK
    <3>2. member[tx[t].actor] \in House \cup {NoHouse} BY <1>1, <3>1 DEF TablesOK
    <3> QED BY <1>1, <2>3, <3>2 DEF ReadAdmin, RequestsOK, TxType, Pc
  <2> QED BY <2>1, <2>2, <2>3
<1> QED BY <1>2, <1>3, TablesKeep

-----------------------------------------------------------------------------
LEMMA InitHolds == Init => IInv
BY NamesDistinct, BoundTyped DEF Init, IInv, TypeOK, Roles, NoOrphanedRows, AdminInEveryHouse,
   AdminsAreMembers, GrantsHaveAdmins, Idle, TxType, Pc

LEMMA Inductive == IInv /\ [Next]_vars => IInv'
<1> SUFFICES ASSUME IInv, [Next]_vars PROVE IInv' OBVIOUS
<1>1. TablesOK /\ RequestsOK /\ NoOrphanedRows BY TypeParts DEF IInv
<1>2. ASSUME NEW t \in Tx, Request(t) PROVE IInv'
  <2>1. CASE \E u \in User : \E h \in House : CreateHouse(t, u, h) BY <2>1, CreateKeeps
  <2> QED BY <1>2, <2>1, RequestsKeep DEF Request
<1>3. ASSUME NEW t \in Tx, Proceed(t) PROVE IInv'
  <2>1. CASE RefuseInsert(t) \/ RefuseChange(t) \/ RefuseQuit(t)
    BY <2>1, RefusedKeeps DEF RefuseInsert, RefuseChange, RefuseQuit
  <2> QED BY <1>3, <2>1, WaitsKeep, InsertKeeps, PromoteKeeps, DemoteKeeps, RemoveKeeps,
             LeaveKeeps, DeleteKeeps, GrantKeeps, MigrationKeeps DEF Proceed
<1>4. ASSUME NEW t \in Tx, Crash(t) PROVE IInv'
  <2>1. RequestsOK' BY <1>1, <1>4, EndsKeeps DEF Crash, RequestsOK
  <2> QED BY <1>4, <2>1, TablesKeep DEF Crash
<1>5. ASSUME NEW u \in User, Revoke(u) \/ ImportQueue(u) PROVE IInv'
  <2>1. CASE Revoke(u) BY <2>1, RevokeKeeps
  <2>2. CASE ImportQueue(u)
    <3>1. RequestsOK' BY <1>1, <2>2 DEF ImportQueue, RequestsOK
    <3> QED BY <1>1, <2>2, <3>1, RowsKeep DEF ImportQueue, TablesOK, NoOrphanedRows
  <2> QED BY <1>5, <2>1, <2>2
<1>6. CASE UNCHANGED vars
  <2>1. RequestsOK' BY <1>1, <1>6 DEF RequestsOK, vars
  <2> QED BY <1>6, <2>1, TablesKeep DEF vars, tables
<1> QED BY <1>2, <1>3, <1>4, <1>5, <1>6 DEF Next

LEMMA Invariance == Spec => []IInv
BY InitHolds, Inductive, PTL DEF Spec

(* TypeOK: every variable keeps its type; a mark names a house that exists.*)
THEOREM TypeCorrect == Spec => []TypeOK
<1>1. IInv => TypeOK BY DEF IInv
<1> QED BY <1>1, Invariance, PTL

(* Every house has an admin among its members, and nobody is a member of a *)
(* house that is gone: each change of a membership counts the admins under *)
(* the lock of the house.                                                  *)
THEOREM AdminInEveryHouseHolds == Spec => []AdminInEveryHouse
<1>1. IInv => AdminInEveryHouse BY DEF IInv, Roles
<1> QED BY <1>1, Invariance, PTL

(* A grant of the service reader that is not revoked has a sponsor who is  *)
(* an admin: createGrant looks at the role under the lock under which it   *)
(* is changed.                                                             *)
THEOREM GrantsHaveAdminsHolds == Spec => []GrantsHaveAdmins
<1>1. IInv => GrantsHaveAdmins BY DEF IInv, Roles
<1> QED BY <1>1, Invariance, PTL

(* No rows of an account survive it.                                       *)
THEOREM NoOrphanedRowsHolds == Spec => []NoOrphanedRows
<1>1. IInv => NoOrphanedRows BY DEF IInv
<1> QED BY <1>1, Invariance, PTL

-----------------------------------------------------------------------------
(* Who changes a membership.                                               *)

LEMMA OnlyMembersChange ==
  ASSUME IInv, NEW t \in Tx, NEW u \in User,
         InsertMember(t) \/ Promote(t) \/ Demote(t) \/ Remove(t) \/ Leave(t) \/ Delete(t),
         MembershipChanges(u)
  PROVE  \/ tx[t].target = u /\ tx[t].pc \in {"insert", "promote", "demote", "remove"}
         \/ tx[t].actor = u /\ tx[t].pc \in {"leave", "delete"}
BY TypeParts DEF IInv, TablesOK, MembershipChanges, InsertMember, Promote, Demote,
   Remove, Leave, Delete, Quits, Expel

(* A request that ends or goes on has changed its place.                   *)
LEMMA Moves ==
  ASSUME IInv, NEW t \in Tx,
         InsertMember(t) \/ Promote(t) \/ Demote(t) \/ Remove(t) \/ Leave(t) \/ Delete(t)
  PROVE  tx'[t] # tx[t]
BY TypeParts DEF IInv, RequestsOK, TxType, InsertMember, Promote, Demote, Remove, Leave,
   Delete, Ends, Goto, Idle

(* ... and the house it worked on is one that the user left or joined.     *)
LEMMA ChangesByAdmin ==
  ASSUME IInv, NEW t \in Tx, NEW u \in User, tx[t].target = u, MembershipChanges(u),
         InsertMember(t) \/ Promote(t) \/ Demote(t) \/ Remove(t)
  PROVE  \E h \in House \cap {member[u], member'[u]} : ChangedBy(u, t, h)
<1> DEFINE h == tx[t].house
<1>1. TablesOK /\ RequestsOK /\ Roles BY TypeParts DEF IInv
<1>2. IsAdmin(tx[t].actor, h) /\ tx[t].pc \in {"insert", "promote", "demote", "remove"}
  BY DEF InsertMember, MayJoin, Promote, Demote, Remove, MayChange
<1>3. tx[t].actor \in User BY <1>1, <1>2 DEF RequestsOK
<1>4. h \in House BY <1>1, <1>2, <1>3, AdminsHouse
<1>5. h \in {member[u], member'[u]}
  BY <1>1 DEF TablesOK, InsertMember, Promote, Demote, Remove, MayChange
<1> QED BY <1>2, <1>4, <1>5 DEF ChangedBy

LEMMA ChangesByUser ==
  ASSUME IInv, NEW t \in Tx, NEW u \in User, tx[t].actor = u, MembershipChanges(u),
         Leave(t) \/ Delete(t)
  PROVE  \E h \in House \cap {member[u], member'[u]} : ChangedBy(u, t, h)
<1>1. TablesOK /\ Roles BY TypeParts DEF IInv
<1>2. tx[t].pc \in {"leave", "delete"} BY DEF Leave, Delete
<1>3. member[u] \in House
  <2>1. SUFFICES ASSUME member[u] = NoHouse PROVE FALSE BY <1>1 DEF TablesOK
  <2>2. u \notin admins BY <1>1, <2>1 DEF Roles, AdminsAreMembers
  <2>3. member'[u] = member[u] /\ (u \in admins <=> u \in admins')
    BY <1>1, <2>1, <2>2 DEF TablesOK, Leave, Delete, Quits, Expel
  <2> QED BY <2>3 DEF MembershipChanges
<1> QED BY <1>2, <1>3 DEF ChangedBy

LEMMA Founding ==
  ASSUME IInv, NEW t \in Tx, NEW v \in User, NEW h \in House, CreateHouse(t, v, h),
         NEW u \in User, MembershipChanges(u)
  PROVE  Founds(u)
<1>1. TablesOK BY TypeParts DEF IInv
<1>2. u = v BY <1>1 DEF TablesOK, CreateHouse, MembershipChanges
<1> QED BY <1>1, <1>2 DEF TablesOK, CreateHouse, Founds

(* ChangedByAdmins: whoever's membership or role changes has asked for it, *)
(* or an admin of that house has, who is one when the change is made.      *)
THEOREM ChangedByAdminsHolds == Spec => ChangedByAdmins
<1> DEFINE Allowed(u) ==
      \/ Founds(u)
      \/ \E t \in Tx : /\ tx'[t] # tx[t]
                       /\ \E h \in House \cap {member[u], member'[u]} : ChangedBy(u, t, h)
<1>1. ASSUME IInv, Next, NEW u \in User, MembershipChanges(u) PROVE Allowed(u)
  <2>1. CASE \E t \in Tx, v \in User, h \in House : CreateHouse(t, v, h)
    BY <1>1, <2>1, Founding
  <2>2. CASE \E t \in Tx : \/ InsertMember(t) \/ Promote(t) \/ Demote(t) \/ Remove(t)
                           \/ Leave(t) \/ Delete(t)
    <3>1. PICK t \in Tx : \/ InsertMember(t) \/ Promote(t) \/ Demote(t) \/ Remove(t)
                          \/ Leave(t) \/ Delete(t)
      BY <2>2
    <3>2. \E h \in House \cap {member[u], member'[u]} : ChangedBy(u, t, h)
      <4>1. CASE InsertMember(t) \/ Promote(t) \/ Demote(t) \/ Remove(t)
        <5>1. tx[t].target = u
          BY <1>1, <4>1, OnlyMembersChange DEF InsertMember, Promote, Demote, Remove
        <5> QED BY <1>1, <4>1, <5>1, ChangesByAdmin
      <4>2. CASE Leave(t) \/ Delete(t)
        <5>1. tx[t].actor = u BY <1>1, <4>2, OnlyMembersChange DEF Leave, Delete
        <5> QED BY <1>1, <4>2, <5>1, ChangesByUser
      <4> QED BY <3>1, <4>1, <4>2
    <3> QED BY <1>1, <3>1, <3>2, Moves
  <2>3. CASE UNCHANGED <<member, admins>> BY <1>1, <2>3 DEF MembershipChanges
  <2>4. UNCHANGED <<member, admins>> \/ (\E t \in Tx, v \in User, h \in House : CreateHouse(t, v, h))
        \/ \E t \in Tx : \/ InsertMember(t) \/ Promote(t) \/ Demote(t) \/ Remove(t)
                         \/ Leave(t) \/ Delete(t)
    <3>1. ASSUME NEW t \in Tx, Request(t), \A v \in User, h \in House : ~CreateHouse(t, v, h)
          PROVE  UNCHANGED <<member, admins>>
      BY <3>1 DEF Request, BeginLeave, BeginDelete, BeginGrant, BeginWrite, GetState,
         BeginAdd, BeginRole, BeginRemove, Begin, tables
    <3>2. ASSUME NEW t \in Tx, Proceed(t),
                 ~(InsertMember(t) \/ Promote(t) \/ Demote(t) \/ Remove(t) \/ Leave(t) \/ Delete(t))
          PROVE  UNCHANGED <<member, admins>>
      BY <3>2 DEF Proceed, ReadAdmin, LockTarget, RefuseInsert, RefuseChange, RefuseQuit,
         Refused, Grant, WriteAccount, SetPending, Migrate, Clear, tables
    <3>3. ASSUME NEW t \in Tx, Crash(t) PROVE UNCHANGED <<member, admins>>
      BY <3>3 DEF Crash, tables
    <3>4. ASSUME NEW v \in User, Revoke(v) \/ ImportQueue(v) PROVE UNCHANGED <<member, admins>>
      BY <3>4 DEF Revoke, ImportQueue
    <3> QED BY <1>1, <3>1, <3>2, <3>3, <3>4 DEF Next
  <2> QED BY <2>1, <2>2, <2>3, <2>4
<1>2. IInv /\ [Next]_vars => [\A u \in User : MembershipChanges(u) => Allowed(u)]_vars
  BY <1>1
<1> QED BY <1>2, Invariance, PTL DEF Spec, ChangedByAdmins
=============================================================================
