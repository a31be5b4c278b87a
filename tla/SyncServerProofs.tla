-------------------------- MODULE SyncServerProofs --------------------------
(***************************************************************************)
(* Theorems about SyncServer, for every set of users, houses, entities,    *)
(* requests and connections.                                               *)
(***************************************************************************)
EXTENDS SyncServer, FiniteSetTheorems, TLAPS

-----------------------------------------------------------------------------
(* The order of versions.                                                  *)

(* A version that does not beat the stored one is not better than it.      *)
LEMMA LoserStands ==
  ASSUME NEW v \in Version, NEW found \in Version, ~Wins(v, found)
  PROVE  Stands(found, v)
BY DEF Version, Wins, Stands

(* A version that beats the stored one is at least as good as it.          *)
LEMMA WinnerStands ==
  ASSUME NEW v \in Version, NEW found \in Version, Wins(v, found)
  PROVE  Stands(v, found)
BY DEF Version, Wins, Stands

LEMMA StandsReflexive ==
  ASSUME NEW v \in Version
  PROVE  Stands(v, v)
BY DEF Version, Stands

LEMMA StandsTransitive ==
  ASSUME NEW u \in Version, NEW v \in Version, NEW w \in Version,
         Stands(u, v), Stands(v, w)
  PROVE  Stands(u, w)
BY DEF Version, Stands

-----------------------------------------------------------------------------
(* Types.                                                                  *)

(* What a mutation writes is a version of the row.                         *)
LEMMA OutcomeType ==
  ASSUME NEW e \in Entity, NEW v \in Version, NEW found \in Row
  PROVE  Outcome(e, v, found) \in Row
BY NoItemAssumption DEF Outcome, Normalized, StaleMerge, UnitesLinks, MergesStale,
   Row, Version

LEMMA PreparedType ==
  ASSUME NEW r \in Request, NEW now \in Nat
  PROVE  Prepared(r, now) \in Version
BY RequestsTyped DEF Prepared, Version, RequestType, EffectiveClientTime

TxOK == /\ tx \in [Tx -> TxType]
        /\ \A t \in Tx : tx[t].pc # "idle" =>
             tx[t].request \in Request /\ tx[t].prepared \in Version

(* A connection's record is replaced by another one of the right type.     *)
LEMMA RecordType ==
  ASSUME TxOK, NEW t \in Tx, NEW new \in TxType, tx' = [tx EXCEPT ![t] = new],
         new.pc # "idle" => new.request \in Request /\ new.prepared \in Version
  PROVE  TxOK'
BY DEF TxOK

LEMMA StepType ==
  ASSUME TxOK, NEW t \in Tx, NEW from \in Statement, NEW to \in Statement,
         Step(t, from, to)
  PROVE  TxOK'
BY DEF TxOK, TxType, Step, Statement

LEMMA EndsType ==
  ASSUME TxOK, NEW t \in Tx, NEW at, Ends(t, at)
  PROVE  TxOK'
BY DEF TxOK, TxType, Ends, Statement, Idle, Row

(* A busy connection works for a request of the model, on a key of it.     *)
LEMMA BusyTyped ==
  ASSUME TxOK, NEW t \in Tx, tx[t].pc # "idle"
  PROVE  /\ tx[t].request \in Request /\ tx[t].prepared \in Version
         /\ tx[t].request.user \in User /\ tx[t].request.scope \in Scope
         /\ tx[t].request.entity \in Entity /\ KeyOf(t) \in Key
         /\ KeyOf(t)[1] = tx[t].request.scope /\ KeyOf(t)[2] = tx[t].request.entity
BY RequestsTyped DEF TxOK, RequestType, KeyOf, Key

(* Every variable keeps its type.                                          *)
LEMMA TypeInit == Init => TypeOK
BY DEF Init, TypeOK, TxType, Idle, Row

LEMMA TypeProceed ==
  ASSUME TypeOK, NEW t \in Tx, Proceed(t)
  PROVE  TypeOK'
<1> USE DEF tables
<1>0. TxOK BY DEF TypeOK, TxOK
<1>1. ASSUME TxOK', UNCHANGED tables PROVE TypeOK'
  BY <1>1 DEF TypeOK, TxOK
<1>2. CASE ResolveScope(t)
  <2>1. (IF tx[t].request.scope \in House THEN "house" ELSE "pantry") \in Statement
    BY DEF Statement
  <2> QED BY <2>1, <1>0, <1>1, <1>2, StepType DEF ResolveScope, Statement
<1>3. CASE RejectScope(t) BY <1>0, <1>1, <1>3, EndsType DEF RejectScope
<1>4. CASE LockHouse(t) BY <1>0, <1>1, <1>4, StepType DEF LockHouse, Statement
<1>5. CASE RejectHouse(t) BY <1>0, <1>1, <1>5, EndsType DEF RejectHouse
<1>6. CASE LockPantry(t) BY <1>0, <1>1, <1>6, StepType DEF LockPantry, Statement
<1>7. CASE CheckLedger(t) BY <1>0, <1>1, <1>7, StepType DEF CheckLedger, Statement
<1>8. CASE ReplayProcessed(t) BY <1>0, <1>1, <1>8, EndsType DEF ReplayProcessed
<1>9. CASE ClaimLedger(t) BY <1>0, <1>1, <1>9, StepType DEF ClaimLedger, Statement
<1>10. CASE ClaimViolation(t) BY <1>0, <1>1, <1>10, EndsType DEF ClaimViolation
<1>11. CASE LockRow(t)
  <2> DEFINE locks == LocksRow(t)
  <2>1. locks \in BOOLEAN BY DEF LocksRow
  <2> DEFINE new == [tx[t] EXCEPT !.pc = "read", !.locked = locks]
  <2>2. tx[t].pc = "row" /\ tx' = [tx EXCEPT ![t] = new]
    BY <1>11 DEF LockRow
  <2> HIDE DEF locks
  <2>3. tx[t] \in TxType BY <1>0 DEF TxOK
  <2>4. new \in TxType BY <2>1, <2>3 DEF TxType, Statement
  <2>5. new.request \in Request /\ new.prepared \in Version
    BY <1>0, <2>2, <2>3 DEF TxOK, TxType
  <2>6. TxOK' BY <1>0, <2>2, <2>4, <2>5, RecordType
  <2> QED BY <2>6, <1>1, <1>11 DEF LockRow
<1>12. CASE ReadExisting(t)
  <2>1. tx[t].pc = "read" BY <1>12 DEF ReadExisting
  <2>2. tx[t].request.entity \in Entity /\ tx[t].prepared \in Version /\ KeyOf(t) \in Key
    BY <1>0, <2>1, BusyTyped
  <2>3. items[KeyOf(t)] \in Row BY <2>2 DEF TypeOK
  <2> DEFINE value == Outcome(tx[t].request.entity, tx[t].prepared, items[KeyOf(t)])
  <2>4. value \in Row BY <2>2, <2>3, OutcomeType
  <2>5. tx' = [tx EXCEPT ![t].found = items[KeyOf(t)], ![t].value = value,
                         ![t].pc = IF value = NoItem THEN "commit" ELSE "write"]
    BY <1>12 DEF ReadExisting
  <2> HIDE DEF value
  <2>6. TxOK' BY <1>0, <2>3, <2>4, <2>5, <2>1 DEF TxOK, TxType, Statement
  <2> QED BY <2>6, <1>1, <1>12 DEF ReadExisting
<1>13. CASE RejectLinks(t) BY <1>0, <1>1, <1>13, EndsType DEF RejectLinks
<1>14. CASE Write(t)
  <2> DEFINE new == [tx[t] EXCEPT !.pc = "commit", !.seq = nextSeq]
  <2>a. tx[t].pc = "write" /\ tx' = [tx EXCEPT ![t] = new] BY <1>14 DEF Write
  <2>b. tx[t] \in TxType /\ nextSeq \in Nat BY <1>0 DEF TypeOK
  <2>c. new \in TxType BY <2>b DEF TxType, Statement
  <2>d. new.request \in Request /\ new.prepared \in Version
    BY <1>0, <2>a, <2>b DEF TxOK, TxType
  <2>1. TxOK' BY <1>0, <2>a, <2>c, <2>d, RecordType
  <2>2. nextSeq' \in Nat \ {0} BY <1>14 DEF Write, TypeOK
  <2> QED BY <2>1, <2>2, <1>14 DEF TypeOK, TxOK, Write
<1>15. CASE InsertViolation(t)
  <2>1. TxOK' BY <1>0, <1>15, EndsType DEF InsertViolation
  <2>2. nextSeq' \in Nat \ {0} BY <1>15 DEF InsertViolation, TypeOK
  <2> QED BY <2>1, <2>2, <1>15 DEF TypeOK, TxOK, InsertViolation
<1>16. CASE Commit(t)
  <2>1. TxOK' BY <1>0, <1>16, EndsType DEF Commit
  <2>2. tx[t].pc = "commit" BY <1>16 DEF Commit, Ends
  <2>3. /\ tx[t].request.scope \in Scope /\ tx[t].request.entity \in Entity
        /\ tx[t].prepared \in Version /\ KeyOf(t) \in Key
    BY <1>0, <2>2, BusyTyped
  <2>4. ledger' \subseteq LedgerEntry
    BY <2>3, <1>16 DEF Commit, LedgerEntry, TypeOK
  <2>5. tx[t].value \in Row /\ tx[t].seq \in Nat BY DEF TypeOK, TxType
  <2>6. items' \in [Key -> Row] /\ sequence' \in [Key -> Nat]
    BY <2>5, <1>16 DEF Commit, TypeOK
  <2> QED BY <2>1, <2>4, <2>6, <1>16 DEF TypeOK, TxOK, Commit
<1> QED BY <1>2, <1>3, <1>4, <1>5, <1>6, <1>7, <1>8, <1>9, <1>10, <1>11, <1>12,
           <1>13, <1>14, <1>15, <1>16 DEF Proceed

LEMMA TypeNext == TypeOK /\ [Next]_vars => TypeOK'
<1> SUFFICES ASSUME TypeOK, [Next]_vars PROVE TypeOK'
  OBVIOUS
<1>0. TxOK BY DEF TypeOK, TxOK
<1>1. ASSUME NEW t \in Tx, Proceed(t) PROVE TypeOK'
  BY <1>1, TypeProceed
<1>2. ASSUME NEW t \in Tx, Crash(t) PROVE TypeOK'
  <2>1. Idle \in TxType BY DEF TxType, Idle, Row
  <2>2. TxOK' BY <1>0, <1>2, <2>1, RecordType DEF Crash, Idle
  <2> QED BY <2>2, <1>2 DEF Crash, TypeOK, TxOK
<1>3. ASSUME NEW t \in Tx, NEW r \in Request, Begin(t, r) PROVE TypeOK'
  <2> DEFINE new == [Idle EXCEPT !.pc = "scope", !.request = r,
                                 !.prepared = Prepared(r, clock)]
  <2>1. Prepared(r, clock) \in Version BY PreparedType DEF TypeOK
  <2>2. new \in TxType /\ new.request = r /\ new.prepared = Prepared(r, clock)
    BY <2>1 DEF TxType, Idle, Row, Statement
  <2>3. TxOK' BY <1>0, <1>3, <2>1, <2>2, RecordType DEF Begin
  <2> QED BY <2>3, <1>3 DEF Begin, tables, TypeOK, TxOK
<1>4. CASE Tick BY <1>4 DEF Tick, TypeOK
<1>5. ASSUME NEW u \in User, NEW h \in House, JoinHouse(u, h) PROVE TypeOK'
  BY <1>5 DEF JoinHouse, TypeOK
<1>6. ASSUME NEW u \in User, LeaveHouse(u) PROVE TypeOK'
  <2>1. member[u] \in House BY <1>6 DEF LeaveHouse, TypeOK
  <2>2. items' \in [Key -> Row] /\ sequence' \in [Key -> Nat]
    BY <1>6 DEF LeaveHouse, TypeOK, Row
  <2>3. ledger' \subseteq LedgerEntry /\ wiped' \subseteq House
    BY <1>6, <2>1 DEF LeaveHouse, TypeOK
  <2> QED BY <2>2, <2>3, <1>6 DEF LeaveHouse, TypeOK
<1>7. ASSUME NEW r \in Reader, ReadChanges(r) PROVE TypeOK'
  <2>1. r.scope \in Scope BY ReadersTyped
  <2>2. \A e \in Entity : items[<<r.scope, e>>] \in Row /\ sequence[<<r.scope, e>>] \in Nat
    BY <2>1 DEF TypeOK, Key
  <2>3. Page(r.scope, cursor[r]) \subseteq Entity BY DEF Page, Pending
  <2>4. cursor' \in [Reader -> Nat]
    BY <1>7, <2>2, <2>3 DEF ReadChanges, TypeOK
  <2>5. view' \in [Reader -> [Entity -> Row]]
    BY <1>7, <2>2 DEF ReadChanges, TypeOK
  <2> QED BY <2>4, <2>5, <1>7 DEF ReadChanges, server, TypeOK
<1>8. CASE UNCHANGED vars BY <1>8 DEF vars, TypeOK
<1> QED BY <1>1, <1>2, <1>3, <1>4, <1>5, <1>6, <1>7, <1>8 DEF Next

(* Every variable keeps its type, whatever the interleaving.               *)
THEOREM TypeCorrect == Spec => []TypeOK
<1> QED BY TypeInit, TypeNext, PTL DEF Spec

-----------------------------------------------------------------------------
(* Locks.                                                                  *)

(* A house, and the pantry of a scope, are locked by one connection.       *)
HouseExclusive ==
  \A h \in House, t, u \in Tx : HoldsHouse(t, h) /\ HoldsHouse(u, h) => t = u

PantryExclusive ==
  \A s \in Scope, t, u \in Tx : HoldsPantry(t, s) /\ HoldsPantry(u, s) => t = u

(* A step of one connection leaves the others where they are.              *)
LEMMA OthersUntouched ==
  ASSUME NEW t \in Tx, Proceed(t), TypeOK
  PROVE  \A u \in Tx \ {t} : tx'[u] = tx[u]
<1>1. tx \in [Tx -> TxType] BY DEF TypeOK
<1> QED
  BY <1>1 DEF Proceed, ResolveScope, RejectScope, LockHouse, RejectHouse, LockPantry,
    CheckLedger, ReplayProcessed, ClaimLedger, ClaimViolation, LockRow, ReadExisting,
    RejectLinks, Write, InsertViolation, Commit, Step, Ends

(* Where a connection can be after a step, and with which request.         *)
LEMMA OwnStep ==
  ASSUME NEW t \in Tx, Proceed(t), TypeOK, tx'[t].pc # "idle"
  PROVE  /\ tx'[t].request = tx[t].request /\ tx'[t].prepared = tx[t].prepared
         /\ tx[t].pc # "idle"
         /\ \/ ResolveScope(t) /\ tx[t].pc = "scope"
               /\ tx'[t].pc = IF tx[t].request.scope \in House THEN "house" ELSE "pantry"
            \/ LockHouse(t) /\ tx[t].pc = "house" /\ tx'[t].pc = "pantry"
            \/ LockPantry(t) /\ tx[t].pc = "pantry" /\ tx'[t].pc = "check"
            \/ CheckLedger(t) /\ tx[t].pc = "check" /\ tx'[t].pc = "claim"
            \/ ClaimLedger(t) /\ tx[t].pc = "claim" /\ tx'[t].pc = "row"
            \/ LockRow(t) /\ tx[t].pc = "row" /\ tx'[t].pc = "read"
            \/ ReadExisting(t) /\ tx[t].pc = "read" /\ tx'[t].pc \in {"write", "commit"}
            \/ Write(t) /\ tx[t].pc = "write" /\ tx'[t].pc = "commit"
<1>1. tx[t] \in TxType /\ t \in DOMAIN tx BY DEF TypeOK
<1>2. \A at : ~Ends(t, at) BY <1>1 DEF Ends, Idle, TypeOK
<1>3. CASE ResolveScope(t) BY <1>1, <1>3 DEF ResolveScope, Step, TxType, TypeOK
<1>4. CASE LockHouse(t) BY <1>1, <1>4 DEF LockHouse, Step, TxType, TypeOK
<1>5. CASE LockPantry(t) BY <1>1, <1>5 DEF LockPantry, Step, TxType, TypeOK
<1>6. CASE CheckLedger(t) BY <1>1, <1>6 DEF CheckLedger, Step, TxType, TypeOK
<1>7. CASE ClaimLedger(t) BY <1>1, <1>7 DEF ClaimLedger, Step, TxType, TypeOK
<1>8. CASE LockRow(t)
  <2>1. tx' = [tx EXCEPT ![t] = [tx[t] EXCEPT !.pc = "read", !.locked = LocksRow(t)]]
    BY <1>8 DEF LockRow
  <2>2. tx'[t] = [tx[t] EXCEPT !.pc = "read", !.locked = LocksRow(t)]
    BY <1>1, <2>1, Zenon DEF TypeOK
  <2>3. tx'[t].pc = "read" /\ tx'[t].request = tx[t].request
        /\ tx'[t].prepared = tx[t].prepared
    BY <1>1, <2>2 DEF TxType
  <2> QED BY <1>8, <2>3 DEF LockRow
<1>9. CASE ReadExisting(t) BY <1>1, <1>9 DEF ReadExisting, TxType, TypeOK
<1>10. CASE Write(t) BY <1>1, <1>10 DEF Write, TxType, TypeOK
<1> QED
  BY <1>2, <1>3, <1>4, <1>5, <1>6, <1>7, <1>8, <1>9, <1>10 DEF Proceed, RejectScope,
    RejectHouse, ReplayProcessed, ClaimViolation, RejectLinks, InsertViolation, Commit

(* A lock is taken only when it is free.                                   *)
LEMMA HouseTaken ==
  ASSUME TypeOK, NEW t \in Tx, Proceed(t), NEW h \in House, HoldsHouse(t, h)'
  PROVE  HoldsHouse(t, h) \/ HouseFree(h)
<1>1. tx'[t].pc # "idle" /\ tx'[t].pc \in AfterHouse /\ tx'[t].request.scope = h
  BY DEF HoldsHouse, AfterHouse, AfterScope, Statement
<1> QED
  BY <1>1, OwnStep DEF HoldsHouse, AfterHouse, AfterScope, Statement, LockHouse

LEMMA PantryTaken ==
  ASSUME TypeOK, NEW t \in Tx, Proceed(t), NEW s \in Scope, HoldsPantry(t, s)'
  PROVE  HoldsPantry(t, s) \/ PantryFree(s)
<1>1. /\ tx'[t].pc # "idle" /\ tx'[t].pc \in AfterPantry
      /\ tx'[t].request.scope = s /\ tx'[t].request.entity \in PantryEntity
  BY DEF HoldsPantry, AfterPantry, AfterHouse, AfterScope, Statement
<1> QED
  BY <1>1, OwnStep DEF HoldsPantry, AfterPantry, AfterHouse, AfterScope, Statement,
    LockPantry

LEMMA ExclusiveNext ==
  ASSUME TypeOK, HouseExclusive, PantryExclusive, [Next]_vars
  PROVE  HouseExclusive' /\ PantryExclusive'
<1> USE DEF HouseExclusive, PantryExclusive
<1>1. ASSUME NEW t \in Tx, Proceed(t) PROVE HouseExclusive' /\ PantryExclusive'
  <2>1. \A u \in Tx \ {t} : tx'[u] = tx[u] BY <1>1, OthersUntouched
  <2>2. \A u \in Tx \ {t}, h \in House : HoldsHouse(u, h)' <=> HoldsHouse(u, h)
    BY <2>1 DEF HoldsHouse
  <2>3. \A u \in Tx \ {t}, s \in Scope : HoldsPantry(u, s)' <=> HoldsPantry(u, s)
    BY <2>1 DEF HoldsPantry
  <2>4. \A h \in House : HoldsHouse(t, h)' => HoldsHouse(t, h) \/ HouseFree(h)
    BY <1>1, HouseTaken
  <2>5. \A s \in Scope : HoldsPantry(t, s)' => HoldsPantry(t, s) \/ PantryFree(s)
    BY <1>1, PantryTaken
  <2>6. HouseExclusive' BY <2>2, <2>4, Zenon DEF HouseFree
  <2>7. PantryExclusive' BY <2>3, <2>5, Zenon DEF PantryFree
  <2> QED BY <2>6, <2>7
<1>2. ASSUME NEW t \in Tx, \A u \in Tx \ {t} : tx'[u] = tx[u],
             tx'[t].pc \in {"idle", "scope"}
      PROVE  HouseExclusive' /\ PantryExclusive'
  BY <1>2 DEF HoldsHouse, HoldsPantry, AfterPantry, AfterHouse, AfterScope, Statement
<1>3. ASSUME NEW t \in Tx, Crash(t) PROVE HouseExclusive' /\ PantryExclusive'
  BY <1>2, <1>3 DEF Crash, TypeOK, Idle
<1>4. ASSUME NEW t \in Tx, NEW r \in Request, Begin(t, r)
      PROVE  HouseExclusive' /\ PantryExclusive'
  BY <1>2, <1>4 DEF Begin, TypeOK, Idle
<1>5. ASSUME tx' = tx PROVE HouseExclusive' /\ PantryExclusive'
  BY <1>5 DEF HoldsHouse, HoldsPantry
<1> QED
  BY <1>1, <1>3, <1>4, <1>5 DEF Next, vars, Tick, JoinHouse, LeaveHouse, ReadChanges, server

-----------------------------------------------------------------------------
(* The row a connection decided on is still the row when it commits.       *)

Deciding(t) == tx[t].pc \in {"write", "commit"}

Fresh ==
  \A t \in Tx : Deciding(t) /\ Serialized(KeyOf(t)) =>
    /\ tx[t].found = items[KeyOf(t)]
    /\ tx[t].value = Outcome(tx[t].request.entity, tx[t].prepared, tx[t].found)

(* A number is drawn exactly for what is going to be written.              *)
Numbered ==
  \A t \in Tx :
    /\ tx[t].pc # "commit" => tx[t].seq = 0
    /\ tx[t].pc = "write"  => tx[t].value # NoItem
    /\ tx[t].pc = "commit" => (tx[t].seq # 0 <=> tx[t].value # NoItem)

IInv == /\ TypeOK /\ HouseExclusive /\ PantryExclusive
        /\ Fresh /\ Numbered /\ LastWriterWins

(* Two connections never decide on the same serialized key.                *)
LEMMA DecidesAlone ==
  ASSUME TypeOK, HouseExclusive, PantryExclusive,
         NEW t \in Tx, NEW u \in Tx, Deciding(t), Deciding(u),
         KeyOf(t) = KeyOf(u), Serialized(KeyOf(t))
  PROVE  t = u
<1>1. /\ tx[t].pc # "idle" /\ KeyOf(t)[1] \in Scope
      /\ tx[t].request.scope = KeyOf(t)[1] /\ tx[t].request.entity = KeyOf(t)[2]
      /\ tx[u].request.scope = KeyOf(t)[1] /\ tx[u].request.entity = KeyOf(t)[2]
  BY BusyTyped DEF Deciding, TypeOK, TxOK
<1>2. CASE KeyOf(t)[1] \in House
  <2>1. HoldsHouse(t, KeyOf(t)[1]) /\ HoldsHouse(u, KeyOf(t)[1])
    BY <1>1 DEF Deciding, HoldsHouse, AfterHouse, AfterScope, Statement
  <2> QED BY <1>2, <2>1 DEF HouseExclusive
<1>3. CASE KeyOf(t)[2] \in PantryEntity
  <2>1. HoldsPantry(t, KeyOf(t)[1]) /\ HoldsPantry(u, KeyOf(t)[1])
    BY <1>1, <1>3 DEF Deciding, HoldsPantry, AfterPantry, AfterHouse, AfterScope, Statement
  <2> QED BY <1>1, <2>1 DEF PantryExclusive
<1> QED BY <1>2, <1>3 DEF Serialized

(* What a connection knows after a step.                                   *)
LEMMA OwnIdle ==
  ASSUME NEW t \in Tx, Proceed(t), TypeOK, tx'[t].pc = "idle"
  PROVE  tx'[t].seq = 0
<1>1. tx[t] \in TxType /\ t \in DOMAIN tx BY DEF TypeOK
<1>2. ASSUME NEW at, Ends(t, at) PROVE tx'[t].seq = 0
  BY <1>1, <1>2 DEF Ends, Idle, TypeOK
<1>3. ~LockRow(t)
  <2> SUFFICES ASSUME LockRow(t) PROVE FALSE
    OBVIOUS
  <2>1. tx' = [tx EXCEPT ![t] = [tx[t] EXCEPT !.pc = "read", !.locked = LocksRow(t)]]
    BY DEF LockRow
  <2>2. tx'[t] = [tx[t] EXCEPT !.pc = "read", !.locked = LocksRow(t)]
    BY <1>1, <2>1, Zenon DEF TypeOK
  <2>3. tx'[t].pc = "read" BY <1>1, <2>2 DEF TxType
  <2> QED BY <2>3
<1>4. ~(ResolveScope(t) \/ LockHouse(t) \/ LockPantry(t) \/ CheckLedger(t) \/ ClaimLedger(t))
  BY <1>1 DEF ResolveScope, LockHouse, LockPantry, CheckLedger, ClaimLedger, Step,
    TxType, TypeOK
<1>5. ~ReadExisting(t) /\ ~Write(t)
  BY <1>1 DEF ReadExisting, Write, TxType, TypeOK
<1> QED
  BY <1>2, <1>3, <1>4, <1>5 DEF Proceed, RejectScope, RejectHouse, ReplayProcessed,
    ClaimViolation, RejectLinks, InsertViolation, Commit

LEMMA OwnBusy ==
  ASSUME NEW t \in Tx, Proceed(t), TypeOK, tx'[t].pc # "idle", tx'[t].pc # "commit",
         tx'[t].pc # "write"
  PROVE  tx'[t].seq = tx[t].seq /\ tx[t].pc # "commit"
<1>1. tx[t] \in TxType /\ t \in DOMAIN tx BY DEF TypeOK
<1>2. CASE LockRow(t)
  <2>1. tx' = [tx EXCEPT ![t] = [tx[t] EXCEPT !.pc = "read", !.locked = LocksRow(t)]]
    BY <1>2 DEF LockRow
  <2>2. tx'[t] = [tx[t] EXCEPT !.pc = "read", !.locked = LocksRow(t)]
    BY <1>1, <2>1, Zenon DEF TypeOK
  <2> QED BY <1>1, <1>2, <2>2 DEF TxType, LockRow
<1>3. CASE ResolveScope(t) \/ LockHouse(t) \/ LockPantry(t) \/ CheckLedger(t) \/ ClaimLedger(t)
  BY <1>1, <1>3 DEF ResolveScope, LockHouse, LockPantry, CheckLedger, ClaimLedger, Step,
    TxType, TypeOK
<1> QED BY <1>2, <1>3, OwnStep

LEMMA OwnWrite ==
  ASSUME NEW t \in Tx, Write(t), TypeOK
  PROVE  /\ tx'[t].seq = nextSeq /\ tx'[t].found = tx[t].found
         /\ tx'[t].value = tx[t].value /\ tx'[t].pc = "commit"
         /\ tx'[t].request = tx[t].request /\ tx'[t].prepared = tx[t].prepared
<1>1. tx[t] \in TxType /\ t \in DOMAIN tx BY DEF TypeOK
<1> QED BY <1>1 DEF Write, TxType, TypeOK

LEMMA OwnRead ==
  ASSUME NEW t \in Tx, ReadExisting(t), TypeOK
  PROVE  /\ tx'[t].seq = tx[t].seq /\ tx'[t].found = items[KeyOf(t)]
         /\ tx'[t].value = Outcome(tx[t].request.entity, tx[t].prepared, items[KeyOf(t)])
         /\ tx'[t].pc = IF tx'[t].value = NoItem THEN "commit" ELSE "write"
         /\ tx'[t].request = tx[t].request /\ tx'[t].prepared = tx[t].prepared
<1> DEFINE value == Outcome(tx[t].request.entity, tx[t].prepared, items[KeyOf(t)])
<1>1. tx[t] \in TxType /\ t \in DOMAIN tx BY DEF TypeOK
<1>2. tx' = [tx EXCEPT ![t].found = items[KeyOf(t)], ![t].value = value,
                       ![t].pc = IF value = NoItem THEN "commit" ELSE "write"]
  BY DEF ReadExisting
<1> HIDE DEF value
<1>3. /\ tx'[t].seq = tx[t].seq /\ tx'[t].found = items[KeyOf(t)] /\ tx'[t].value = value
      /\ tx'[t].pc = IF value = NoItem THEN "commit" ELSE "write"
      /\ tx'[t].request = tx[t].request /\ tx'[t].prepared = tx[t].prepared
  BY <1>1, <1>2 DEF TxType, TypeOK
<1> QED BY <1>3 DEF value

LEMMA NumberedNext ==
  ASSUME TypeOK, Numbered, [Next]_vars
  PROVE  Numbered'
<1> USE DEF Numbered
<1>1. ASSUME NEW t \in Tx, Proceed(t) PROVE Numbered'
  <2>1. \A u \in Tx \ {t} : tx'[u] = tx[u] BY <1>1, OthersUntouched
  <2>2. CASE tx'[t].pc = "idle" BY <1>1, <2>1, <2>2, OwnIdle
  <2>3. CASE tx'[t].pc \notin {"idle", "write", "commit"}
    BY <1>1, <2>1, <2>3, OwnBusy
  <2>4. CASE ReadExisting(t) /\ tx[t].pc = "read"
    BY <2>1, <2>4, OwnRead
  <2>5. CASE Write(t) /\ tx[t].pc = "write"
    BY <2>1, <2>5, OwnWrite DEF TypeOK
  <2>6. CASE tx'[t].pc \in {"write", "commit"}
    BY <1>1, <2>4, <2>5, <2>6, OwnStep
  <2> QED BY <2>2, <2>3, <2>6
<1>2. ASSUME NEW t \in Tx, Crash(t) PROVE Numbered'
  BY <1>2 DEF Crash, TypeOK, Idle
<1>3. ASSUME NEW t \in Tx, NEW r \in Request, Begin(t, r) PROVE Numbered'
  <2>1. /\ \A u \in Tx \ {t} : tx'[u] = tx[u]
        /\ tx'[t].pc = "scope" /\ tx'[t].seq = 0
    BY <1>3 DEF Begin, TypeOK, Idle
  <2> QED BY <2>1
<1>4. ASSUME tx' = tx PROVE Numbered'
  BY <1>4
<1> QED
  BY <1>1, <1>2, <1>3, <1>4 DEF Next, vars, Tick, JoinHouse, LeaveHouse, ReadChanges, server

(* Only a commit changes rows or the ledger, among a connection's steps.   *)
LEMMA OnlyCommitWrites ==
  ASSUME NEW t \in Tx, Proceed(t), ~Commit(t)
  PROVE  items' = items /\ ledger' = ledger
BY DEF Proceed, ResolveScope, RejectScope, LockHouse, RejectHouse, LockPantry,
    CheckLedger, ReplayProcessed, ClaimLedger, ClaimViolation, LockRow, ReadExisting,
    RejectLinks, Write, InsertViolation, tables

(* A house with a connection that decides on one of its rows is locked.    *)
LEMMA DeciderLocks ==
  ASSUME TypeOK, NEW t \in Tx, Deciding(t), NEW h \in House, HouseFree(h)
  PROVE  KeyOf(t)[1] # h
<1>1. tx[t].pc # "idle" BY DEF Deciding
<1>2. KeyOf(t)[1] = tx[t].request.scope BY <1>1, BusyTyped DEF TypeOK, TxOK
<1> QED BY <1>2 DEF Deciding, HouseFree, HoldsHouse, AfterHouse, AfterScope, Statement

LEMMA FreshNext ==
  ASSUME TypeOK, HouseExclusive, PantryExclusive, Fresh, [Next]_vars
  PROVE  Fresh'
<1>1. ASSUME NEW t \in Tx, Proceed(t) PROVE Fresh'
  <2>1. \A u \in Tx \ {t} : tx'[u] = tx[u] BY <1>1, OthersUntouched
  <2>2. SUFFICES ASSUME NEW u \in Tx, Deciding(u)', Serialized(KeyOf(u))'
                 PROVE  /\ tx'[u].found = items'[KeyOf(u)']
                        /\ tx'[u].value = Outcome(tx'[u].request.entity,
                                                  tx'[u].prepared, tx'[u].found)
    BY DEF Fresh
  <2>3. CASE u # t
    <3>1. Deciding(u) /\ Serialized(KeyOf(u)) /\ KeyOf(u)' = KeyOf(u) /\ tx'[u] = tx[u]
      BY <2>1, <2>2, <2>3 DEF Deciding, Serialized, KeyOf
    <3>2. items'[KeyOf(u)] = items[KeyOf(u)]
      <4>1. CASE Commit(t)
        <5>1. tx[t].pc = "commit" BY <4>1 DEF Commit, Ends
        <5>2. KeyOf(t) # KeyOf(u) BY <2>3, <3>1, <5>1, DecidesAlone DEF Deciding
        <5>3. KeyOf(u) \in Key BY <3>1, BusyTyped DEF Deciding, TypeOK, TxOK
        <5> QED BY <4>1, <5>2, <5>3 DEF Commit, TypeOK
      <4> QED BY <1>1, <4>1, OnlyCommitWrites
    <3> QED BY <3>1, <3>2 DEF Fresh
  <2>4. CASE u = t
    <3>1. tx'[t].pc \in {"write", "commit"} /\ tx'[t].pc # "idle"
      BY <2>2, <2>4 DEF Deciding
    <3>2. CASE ReadExisting(t)
      <4>1. items' = items /\ KeyOf(t)' = KeyOf(t)
        BY <3>2, OwnRead DEF ReadExisting, tables, KeyOf
      <4> QED BY <2>4, <3>2, <4>1, OwnRead
    <3>3. CASE Write(t)
      <4>1. items' = items /\ KeyOf(t)' = KeyOf(t)
        BY <3>3, OwnWrite DEF Write, KeyOf
      <4>2. Deciding(t) /\ Serialized(KeyOf(t))
        BY <2>2, <2>4, <3>3, <4>1 DEF Write, Deciding, Serialized
      <4> QED BY <2>4, <3>3, <4>1, <4>2, OwnWrite DEF Fresh
    <3> QED BY <1>1, <3>1, <3>2, <3>3, OwnStep
  <2> QED BY <2>3, <2>4
<1>2. ASSUME NEW t \in Tx, \A u \in Tx \ {t} : tx'[u] = tx[u],
             tx'[t].pc \in {"idle", "scope"}, items' = items
      PROVE  Fresh'
  BY <1>2 DEF Fresh, Deciding, KeyOf, Serialized
<1>3. ASSUME NEW t \in Tx, Crash(t) PROVE Fresh'
  BY <1>2, <1>3 DEF Crash, TypeOK, Idle
<1>4. ASSUME NEW t \in Tx, NEW r \in Request, Begin(t, r) PROVE Fresh'
  BY <1>2, <1>4 DEF Begin, TypeOK, Idle, tables
<1>5. ASSUME tx' = tx, items' = items PROVE Fresh'
  BY <1>5 DEF Fresh, Deciding, KeyOf, Serialized
<1>6. ASSUME NEW u \in User, LeaveHouse(u) PROVE Fresh'
  <2>1. member[u] \in House BY <1>6 DEF LeaveHouse, TypeOK
  <2>2. HouseFree(member[u]) /\ tx' = tx BY <1>6 DEF LeaveHouse
  <2>3. ASSUME NEW t \in Tx, Deciding(t) PROVE items'[KeyOf(t)] = items[KeyOf(t)]
    <3>1. KeyOf(t)[1] # member[u] BY <2>1, <2>2, <2>3, DeciderLocks
    <3>2. KeyOf(t) \in Key BY <2>3, BusyTyped DEF Deciding, TypeOK, TxOK
    <3> QED BY <1>6, <3>1, <3>2 DEF LeaveHouse, TypeOK
  <2> QED BY <2>2, <2>3 DEF Fresh, Deciding, KeyOf, Serialized
<1> QED
  BY <1>1, <1>3, <1>4, <1>5, <1>6 DEF Next, vars, Tick, JoinHouse, ReadChanges, server

-----------------------------------------------------------------------------
(* Last write wins.                                                        *)

(* A mutation of an entity that is not a dinner replaces the row or is     *)
(* discarded.                                                              *)
LEMMA PlainOutcome ==
  ASSUME NEW e \in Entity \ DinnerEntity, NEW v \in Version, NEW found \in Row
  PROVE  Outcome(e, v, found) = IF found = NoItem \/ Wins(v, found) THEN v ELSE NoItem
BY DEF Outcome, Normalized, MergesStale, UnitesLinks

(* What a commit leaves in the row stands against the mutation committed,  *)
(* and against everything the previous row stood against.                  *)
LEMMA CommitStands ==
  ASSUME IInv, NEW t \in Tx, Commit(t), Serialized(KeyOf(t)),
         KeyOf(t)[2] \notin DinnerEntity
  PROVE  /\ items'[KeyOf(t)] \in Version
         /\ Stands(items'[KeyOf(t)], tx[t].prepared)
         /\ items[KeyOf(t)] # NoItem => Stands(items'[KeyOf(t)], items[KeyOf(t)])
<1> DEFINE k == KeyOf(t)
           v == tx[t].prepared
           found == items[k]
<1>1. tx[t].pc = "commit" BY DEF Commit, Ends
<1>2. TxOK /\ TypeOK /\ Fresh /\ Numbered BY DEF IInv, TypeOK, TxOK
<1>3. /\ v \in Version /\ k \in Key /\ tx[t].request.entity \in Entity \ DinnerEntity
      /\ found \in Row
  BY <1>1, <1>2, BusyTyped DEF TypeOK
<1>4. tx[t].value = IF found = NoItem \/ Wins(v, found) THEN v ELSE NoItem
  BY <1>1, <1>2, <1>3, PlainOutcome DEF Fresh, Deciding
<1>5. Wrote(t) <=> tx[t].value # NoItem
  <2>1. tx[t].seq # 0 <=> tx[t].value # NoItem BY <1>1, <1>2 DEF Numbered
  <2> QED BY <1>1, <2>1 DEF Wrote
<1>6. items'[k] = IF Wrote(t) THEN tx[t].value ELSE found
  BY <1>2, <1>3 DEF Commit, TypeOK
<1>7. NoItem \notin Version BY NoItemAssumption
<1>8. CASE found = NoItem \/ Wins(v, found)
  <2>1. items'[k] = v BY <1>3, <1>4, <1>5, <1>6, <1>7, <1>8
  <2>2. found # NoItem => found \in Version BY <1>3 DEF Row
  <2> QED BY <1>3, <1>8, <2>1, <2>2, StandsReflexive, WinnerStands
<1>9. CASE ~(found = NoItem \/ Wins(v, found))
  <2>1. items'[k] = found /\ found \in Version BY <1>3, <1>4, <1>5, <1>6, <1>9 DEF Row
  <2> QED BY <1>3, <1>9, <2>1, StandsReflexive, LoserStands
<1> QED BY <1>8, <1>9

LEMMA LastWriterWinsNext ==
  ASSUME IInv, [Next]_vars
  PROVE  LastWriterWins'
<1>0. TypeOK /\ TxOK /\ LastWriterWins BY DEF IInv, TypeOK, TxOK
<1>1. ASSUME NEW t \in Tx, Commit(t) PROVE LastWriterWins'
  <2>1. tx[t].pc = "commit" BY <1>1 DEF Commit, Ends
  <2>2. /\ tx[t].prepared \in Version /\ KeyOf(t) \in Key
        /\ KeyOf(t) = <<tx[t].request.scope, tx[t].request.entity>>
    BY <1>0, <2>1, BusyTyped DEF KeyOf
  <2>3. SUFFICES ASSUME NEW e \in ledger', Serialized(LedgerKey(e)),
                        e.entity \notin DinnerEntity
                 PROVE  /\ items'[LedgerKey(e)] # NoItem
                        /\ Stands(items'[LedgerKey(e)], e.version)
    BY DEF LastWriterWins, LedgerKey, Serialized
  <2>4. NoItem \notin Version BY NoItemAssumption
  <2>5. CASE e \notin ledger
    <3>1. LedgerKey(e) = KeyOf(t) /\ e.version = tx[t].prepared
      BY <1>1, <2>3, <2>5 DEF Commit, LedgerKey, KeyOf
    <3>2. KeyOf(t)[2] \notin DinnerEntity /\ Serialized(KeyOf(t))
      BY <2>3, <3>1 DEF LedgerKey
    <3> QED BY <1>1, <2>4, <3>1, <3>2, CommitStands
  <2>6. CASE e \in ledger /\ LedgerKey(e) # KeyOf(t)
    <3>1. items'[LedgerKey(e)] = items[LedgerKey(e)]
      BY <1>0, <1>1, <2>2, <2>6 DEF Commit, TypeOK, LedgerEntry, LedgerKey, Key
    <3> QED BY <1>0, <2>3, <2>6, <3>1 DEF LastWriterWins
  <2>7. CASE e \in ledger /\ LedgerKey(e) = KeyOf(t)
    <3>1. items[KeyOf(t)] # NoItem /\ Stands(items[KeyOf(t)], e.version)
      BY <1>0, <2>3, <2>7 DEF LastWriterWins
    <3>2. KeyOf(t)[2] \notin DinnerEntity /\ Serialized(KeyOf(t))
      BY <2>3, <2>7 DEF LedgerKey
    <3>3. items'[KeyOf(t)] \in Version /\ Stands(items'[KeyOf(t)], items[KeyOf(t)])
      BY <1>1, <3>1, <3>2, CommitStands
    <3>4. items[KeyOf(t)] \in Version BY <1>0, <2>2, <3>1 DEF TypeOK, Row
    <3>5. e.version \in Version BY <1>0, <2>7 DEF TypeOK, LedgerEntry
    <3> QED BY <2>4, <2>7, <3>1, <3>3, <3>4, <3>5, StandsTransitive
  <2> QED BY <2>5, <2>6, <2>7
<1>2. ASSUME items' = items, ledger' = ledger PROVE LastWriterWins'
  BY <1>0, <1>2 DEF LastWriterWins, Serialized, LedgerKey
<1>3. ASSUME NEW t \in Tx, Proceed(t) PROVE LastWriterWins'
  BY <1>1, <1>2, <1>3, OnlyCommitWrites
<1>4. ASSUME NEW u \in User, LeaveHouse(u) PROVE LastWriterWins'
  <2>1. CASE ledger' = ledger /\ items' = items BY <1>2, <2>1
  <2>2. CASE /\ ledger' = {e \in ledger : e.scope # member[u]}
             /\ items' = [k \in Key |-> IF k[1] = member[u] THEN NoItem ELSE items[k]]
    <3>1. ASSUME NEW e \in ledger'
          PROVE  e \in ledger /\ items'[LedgerKey(e)] = items[LedgerKey(e)]
      BY <1>0, <2>2, <3>1 DEF LedgerKey, Key, TypeOK, LedgerEntry
    <3> QED BY <1>0, <3>1 DEF LastWriterWins, Serialized, LedgerKey
  <2> QED BY <1>4, <2>1, <2>2 DEF LeaveHouse
<1> QED
  BY <1>2, <1>3, <1>4 DEF Next, vars, Tick, JoinHouse, ReadChanges, server, Crash, Begin,
    tables

(* The lock discipline of applyMutation is what makes last write wins hold *)
(* for every serialized entity: IInv is inductive.                         *)
LEMMA InductiveInit == Init => IInv
<1> SUFFICES ASSUME Init PROVE IInv
  OBVIOUS
<1>1. TypeOK BY TypeInit
<1>2. \A t \in Tx : tx[t] = Idle BY DEF Init
<1>3. HouseExclusive /\ PantryExclusive /\ Fresh /\ Numbered
  BY <1>2 DEF HouseExclusive, PantryExclusive, HoldsHouse, HoldsPantry, AfterPantry,
    AfterHouse, AfterScope, Statement, Idle, Fresh, Deciding, Numbered
<1>4. LastWriterWins BY DEF Init, LastWriterWins
<1> QED BY <1>1, <1>3, <1>4 DEF IInv

LEMMA InductiveNext == IInv /\ [Next]_vars => IInv'
<1> SUFFICES ASSUME IInv, [Next]_vars PROVE IInv'
  OBVIOUS
<1>1. TypeOK' BY TypeNext DEF IInv
<1>2. HouseExclusive' /\ PantryExclusive' BY ExclusiveNext DEF IInv
<1>3. Fresh' BY FreshNext DEF IInv
<1>4. Numbered' BY NumberedNext DEF IInv
<1>5. LastWriterWins' BY LastWriterWinsNext
<1> QED BY <1>1, <1>2, <1>3, <1>4, <1>5 DEF IInv

LEMMA Inductive == Spec => []IInv
<1> QED BY InductiveInit, InductiveNext, PTL DEF Spec

(* Last write wins in every house and in the pantry of every account, for  *)
(* any number of users, devices, connections, requests and crashes.        *)
THEOREM LastWriterWinsHolds == Spec => []LastWriterWins
<1>1. IInv => LastWriterWins BY DEF IInv
<1> QED BY <1>1, Inductive, PTL
-----------------------------------------------------------------------------
(* Membership.                                                             *)

(* Past its scope, and past the lock of its house, a connection works for  *)
(* a user who belongs to the scope, and goes on belonging to it.           *)
PlacedAt(t) ==
  /\ tx[t].pc = "house" => tx[t].request.scope \in House
  /\ tx[t].pc \in AfterHouse => Belongs(tx[t].request.user, tx[t].request.scope)

Placed == \A t \in Tx : PlacedAt(t)

(* Nobody is a member of a house that has been deleted.                    *)
MembersHaveHouse == \A u \in User : member[u] \notin wiped

MInv == TypeOK /\ Placed /\ MembersHaveHouse /\ NothingInWipedHouse

LEMMA PlacedProceed ==
  ASSUME TypeOK, Placed, NEW t \in Tx, Proceed(t)
  PROVE  Placed'
<1>1. \A u \in Tx \ {t} : tx'[u] = tx[u] BY OthersUntouched
<1>2. member' = member
  BY DEF Proceed, ResolveScope, RejectScope, LockHouse, RejectHouse, LockPantry,
    CheckLedger, ReplayProcessed, ClaimLedger, ClaimViolation, LockRow, ReadExisting,
    RejectLinks, Write, InsertViolation, Commit, tables
<1>3. \A u \in Tx \ {t} : PlacedAt(u)'
  BY <1>1, <1>2 DEF Placed, PlacedAt, Belongs
<1>4. ASSUME tx'[t].pc # "idle" PROVE PlacedAt(t)'
  <2>1. tx'[t].request = tx[t].request BY <1>4, OwnStep
  <2>2. CASE ResolveScope(t)
    <3>1. Belongs(tx[t].request.user, tx[t].request.scope) BY <2>2 DEF ResolveScope
    <3>2. tx'[t].pc = "house" => tx[t].request.scope \in House
      BY <2>2 DEF ResolveScope, Step, TypeOK, TxType
    <3> QED BY <1>2, <2>1, <3>1, <3>2 DEF PlacedAt, Belongs, AfterHouse
  <2>3. CASE LockHouse(t) /\ tx[t].pc = "house" /\ tx'[t].pc = "pantry"
    BY <1>2, <2>1, <2>3 DEF LockHouse, Placed, PlacedAt, Belongs
  <2>4. CASE tx[t].pc \in AfterHouse /\ tx'[t].pc # "house"
    BY <1>2, <2>1, <2>4 DEF Placed, PlacedAt, Belongs
  <2> QED BY <1>4, <2>2, <2>3, <2>4, OwnStep DEF AfterHouse, AfterScope, Statement
<1>5. CASE tx'[t].pc = "idle"
  BY <1>3, <1>5 DEF Placed, PlacedAt, AfterHouse, AfterScope, Statement
<1>6. CASE tx'[t].pc # "idle" BY <1>3, <1>4, <1>6 DEF Placed
<1> QED BY <1>5, <1>6

LEMMA PlacedNext ==
  ASSUME TypeOK, Placed, [Next]_vars
  PROVE  Placed'
<1>1. ASSUME NEW t \in Tx, Proceed(t) PROVE Placed' BY <1>1, PlacedProceed
<1>2. ASSUME NEW t \in Tx, \A u \in Tx \ {t} : tx'[u] = tx[u],
             tx'[t].pc \in {"idle", "scope"}, member' = member
      PROVE  Placed'
  BY <1>2 DEF Placed, PlacedAt, Belongs, AfterHouse, AfterScope, Statement
<1>3. ASSUME NEW t \in Tx, Crash(t) PROVE Placed'
  BY <1>2, <1>3 DEF Crash, TypeOK, Idle
<1>4. ASSUME NEW t \in Tx, NEW r \in Request, Begin(t, r) PROVE Placed'
  BY <1>2, <1>4 DEF Begin, TypeOK, Idle, tables
<1>5. ASSUME tx' = tx, member' = member PROVE Placed'
  BY <1>5 DEF Placed, PlacedAt, Belongs
<1>6. ASSUME NEW t \in Tx, tx[t].pc \in AfterHouse
      PROVE  /\ tx[t].request.user \in User
             /\ SharesUser(t, tx[t].request.user)
             /\ HoldsHouse(t, tx[t].request.scope)
  <2>1. tx[t].pc # "idle" BY <1>6 DEF AfterHouse, AfterScope, Statement
  <2> QED BY <1>6, <2>1, BusyTyped DEF SharesUser, HoldsHouse, AfterHouse, TypeOK, TxOK
<1>7. ASSUME NEW u \in User, NEW h \in House, JoinHouse(u, h) PROVE Placed'
  <2>1. tx' = tx /\ member' = [member EXCEPT ![u] = h] BY <1>7 DEF JoinHouse
  <2>2. ASSUME NEW t \in Tx, tx[t].pc \in AfterHouse
        PROVE  tx[t].request.user # u /\ tx[t].request.user \in User
    BY <1>6, <1>7, <2>2 DEF JoinHouse
  <2> QED BY <2>1, <2>2 DEF Placed, PlacedAt, Belongs, TypeOK
<1>8. ASSUME NEW u \in User, LeaveHouse(u) PROVE Placed'
  <2>1. tx' = tx /\ member' = [member EXCEPT ![u] = NoHouse] /\ member[u] # NoHouse
    BY <1>8 DEF LeaveHouse
  <2>2. ASSUME NEW t \in Tx, tx[t].pc \in AfterHouse
        PROVE  tx[t].request.user # u /\ tx[t].request.user \in User
    <3>1. Belongs(tx[t].request.user, tx[t].request.scope) BY <2>2 DEF Placed, PlacedAt
    <3>2. ~HoldsHouse(t, member[u]) BY <1>8 DEF LeaveHouse, HouseFree
    <3> QED BY <1>6, <2>1, <2>2, <3>1, <3>2 DEF Belongs
  <2> QED BY <2>1, <2>2 DEF Placed, PlacedAt, Belongs, TypeOK
<1> QED
  BY <1>1, <1>3, <1>4, <1>5, <1>7, <1>8 DEF Next, vars, Tick, ReadChanges, server

LEMMA HouseNext ==
  ASSUME MInv, [Next]_vars
  PROVE  MembersHaveHouse' /\ NothingInWipedHouse'
<1>0. TypeOK /\ Placed /\ MembersHaveHouse /\ NothingInWipedHouse BY DEF MInv
<1>1. ASSUME member' = member, wiped' = wiped, items' = items
      PROVE  MembersHaveHouse' /\ NothingInWipedHouse'
  BY <1>0, <1>1 DEF MembersHaveHouse, NothingInWipedHouse
<1>2. ASSUME NEW t \in Tx, Commit(t) PROVE MembersHaveHouse' /\ NothingInWipedHouse'
  <2>1. tx[t].pc = "commit" /\ member' = member /\ wiped' = wiped
    BY <1>2 DEF Commit, Ends
  <2>2. /\ tx[t].request.user \in User /\ KeyOf(t) \in Key
        /\ KeyOf(t)[1] = tx[t].request.scope
    BY <1>0, <2>1, BusyTyped DEF TypeOK, TxOK
  <2>3. KeyOf(t)[1] \notin wiped
    <3>1. Belongs(tx[t].request.user, KeyOf(t)[1])
      BY <1>0, <2>1, <2>2 DEF Placed, PlacedAt, AfterHouse, AfterScope, Statement
    <3> QED BY <1>0, <2>2, <3>1 DEF Belongs, MembersHaveHouse, TypeOK
  <2>4. \A k \in Key : k # KeyOf(t) => items'[k] = items[k]
    BY <1>0, <1>2 DEF Commit, TypeOK
  <2> QED BY <1>0, <2>1, <2>3, <2>4 DEF MembersHaveHouse, NothingInWipedHouse
<1>3. ASSUME NEW t \in Tx, Proceed(t), ~Commit(t)
      PROVE  MembersHaveHouse' /\ NothingInWipedHouse'
  <2>1. member' = member /\ wiped' = wiped
    BY <1>3 DEF Proceed, ResolveScope, RejectScope, LockHouse, RejectHouse, LockPantry,
      CheckLedger, ReplayProcessed, ClaimLedger, ClaimViolation, LockRow, ReadExisting,
      RejectLinks, Write, InsertViolation, tables
  <2> QED BY <1>1, <1>3, <2>1, OnlyCommitWrites
<1>4. ASSUME NEW u \in User, NEW h \in House, JoinHouse(u, h)
      PROVE  MembersHaveHouse' /\ NothingInWipedHouse'
  BY <1>0, <1>4 DEF JoinHouse, MembersHaveHouse, NothingInWipedHouse, TypeOK
<1>5. ASSUME NEW u \in User, LeaveHouse(u)
      PROVE  MembersHaveHouse' /\ NothingInWipedHouse'
  <2>1. member' = [member EXCEPT ![u] = NoHouse] BY <1>5 DEF LeaveHouse
  <2>2. member[u] \in House /\ NoHouse \notin House /\ wiped \subseteq House
    BY <1>0, <1>5, ScopesDisjoint DEF LeaveHouse, TypeOK
  <2>3. CASE \A w \in User \ {u} : member[w] # member[u]
    <3>1. /\ wiped' = wiped \cup {member[u]}
          /\ items' = [k \in Key |-> IF k[1] = member[u] THEN NoItem ELSE items[k]]
      BY <1>5, <2>3 DEF LeaveHouse
    <3>2. MembersHaveHouse'
      BY <1>0, <2>1, <2>2, <2>3, <3>1 DEF MembersHaveHouse, TypeOK
    <3> QED BY <1>0, <3>1, <3>2 DEF NothingInWipedHouse
  <2>4. CASE ~ \A w \in User \ {u} : member[w] # member[u]
    <3>1. wiped' = wiped /\ items' = items BY <1>5, <2>4 DEF LeaveHouse
    <3> QED
      BY <1>0, <2>1, <2>2, <3>1 DEF MembersHaveHouse, NothingInWipedHouse, TypeOK
  <2> QED BY <2>3, <2>4
<1> QED
  BY <1>1, <1>2, <1>3, <1>4, <1>5 DEF Next, vars, Tick, ReadChanges, server, Crash, Begin,
    tables

LEMMA MemberInductive == Spec => []MInv
<1>1. Init => MInv
  <2> SUFFICES ASSUME Init PROVE MInv OBVIOUS
  <2>1. TypeOK BY TypeInit
  <2>2. \A t \in Tx : tx[t] = Idle BY DEF Init
  <2>3. Placed BY <2>2 DEF Placed, PlacedAt, Idle, AfterHouse, AfterScope, Statement
  <2> QED BY <2>1, <2>3 DEF MInv, Init, MembersHaveHouse, NothingInWipedHouse
<1>2. MInv /\ [Next]_vars => MInv'
  BY TypeNext, PlacedNext, HouseNext DEF MInv
<1> QED BY <1>1, <1>2, PTL DEF Spec

(* However requests, retries and changes of membership interleave, no      *)
(* transaction leaves a row in a house that has been deleted.              *)
THEOREM NothingInWipedHouseHolds == Spec => []NothingInWipedHouse
<1>1. MInv => NothingInWipedHouse BY DEF MInv
<1> QED BY <1>1, MemberInductive, PTL

(* A row changes by a commit of somebody who belongs to its scope at that  *)
(* moment, or by the deletion of its house.                                *)
THEOREM OnlyMembersWriteHolds == Spec => OnlyMembersWrite
<1> DEFINE Allowed ==
      \A k \in Key : items'[k] # items[k] =>
        \/ \E t \in Tx : /\ tx[t].pc = "commit" /\ tx'[t].pc = "idle"
                         /\ KeyOf(t) = k /\ Belongs(tx[t].request.user, k[1])
        \/ k[1] \in wiped' \ wiped
<1>1. MInv /\ [Next]_vars => Allowed
  <2> SUFFICES ASSUME MInv, [Next]_vars, NEW k \in Key, items'[k] # items[k]
               PROVE  \/ \E t \in Tx : /\ tx[t].pc = "commit" /\ tx'[t].pc = "idle"
                                       /\ KeyOf(t) = k /\ Belongs(tx[t].request.user, k[1])
                      \/ k[1] \in wiped' \ wiped
    OBVIOUS
  <2>0. TypeOK /\ Placed /\ MembersHaveHouse BY DEF MInv
  <2>1. ASSUME NEW t \in Tx, Commit(t)
        PROVE  /\ tx[t].pc = "commit" /\ tx'[t].pc = "idle"
               /\ KeyOf(t) = k /\ Belongs(tx[t].request.user, k[1])
    <3>1. tx[t].pc = "commit" /\ tx'[t].pc = "idle"
      BY <2>0, <2>1 DEF Commit, Ends, Idle, TypeOK
    <3>2. KeyOf(t) = k BY <2>0, <2>1 DEF Commit, TypeOK
    <3>3. KeyOf(t)[1] = tx[t].request.scope
      BY <2>0, <3>1, BusyTyped DEF TypeOK, TxOK
    <3> QED BY <2>0, <3>1, <3>2, <3>3 DEF Placed, PlacedAt, AfterHouse, AfterScope, Statement
  <2>2. ASSUME NEW u \in User, LeaveHouse(u) PROVE k[1] \in wiped' \ wiped
    <3>1. member[u] \notin wiped BY <2>0 DEF MembersHaveHouse
    <3> QED BY <2>2, <3>1 DEF LeaveHouse
  <2>3. \A t \in Tx : Proceed(t) => Commit(t) BY OnlyCommitWrites
  <2> QED
    BY <2>1, <2>2, <2>3 DEF Next, vars, Tick, JoinHouse, ReadChanges, server, Crash, Begin,
      tables
<1> QED BY <1>1, MemberInductive, PTL DEF Spec, OnlyMembersWrite

-----------------------------------------------------------------------------
(* The feed.                                                               *)

(* A key has a number exactly while it has a row.                          *)
RowsNumbered == \A k \in Key : items[k] = NoItem <=> sequence[k] = 0

(* Every number in use, and every cursor, is below the next one; a number  *)
(* drawn and not yet committed is above all of them, and the only such.    *)
InOrder ==
  /\ \A k \in Key : sequence[k] < nextSeq
  /\ \A r \in Reader : cursor[r] < nextSeq
  /\ \A t \in Tx : Wrote(t) =>
       /\ tx[t].seq < nextSeq
       /\ \A k \in Key : sequence[k] < tx[t].seq
       /\ \A r \in Reader : cursor[r] < tx[t].seq
       /\ \A u \in Tx : Wrote(u) => u = t

FInv == TypeOK /\ Numbered /\ RowsNumbered /\ InOrder /\ NoChangeSkipped

(* A page has no gaps: whatever is above the cursor and not above a row of *)
(* the page is in the page.                                                *)
LEMMA PageHasNoGaps ==
  ASSUME TypeOK, NEW s \in Scope, NEW above \in Nat, NEW last \in Page(s, above),
         NEW e \in Pending(s, above), sequence[<<s, e>>] <= sequence[<<s, last>>]
  PROVE  e \in Page(s, above)
<1> DEFINE Below(x) == {f \in Pending(s, above) : sequence[<<s, f>>] < sequence[<<s, x>>]}
<1>1. \A f \in Entity : sequence[<<s, f>>] \in Nat BY DEF TypeOK, Key
<1>2. last \in Entity /\ e \in Entity BY DEF Page, Pending
<1>3. Below(e) \subseteq Below(last) BY <1>1, <1>2 DEF Pending
<1>4. IsFiniteSet(Below(last)) BY EntityFinite, FS_Subset DEF Pending
<1>5. /\ Cardinality(Below(last)) \in Nat
      /\ IsFiniteSet(Below(e)) /\ Cardinality(Below(e)) <= Cardinality(Below(last))
  BY <1>3, <1>4, FS_Subset, FS_CardinalityType
<1>6. Cardinality(Below(e)) \in Nat BY <1>5, FS_CardinalityType
<1>7. Cardinality(Below(last)) < PageLimit BY DEF Page
<1>8. Cardinality(Below(e)) < PageLimit
  <2> HIDE DEF Below
  <2> QED BY <1>5, <1>6, <1>7, BoundsTyped
<1> QED BY <1>8 DEF Page

(* A step that changes neither rows nor cursors, and under which the       *)
(* uncommitted numbers only become fewer.                                  *)
LEMMA FewerNumbers ==
  ASSUME FInv, nextSeq' \in Nat, nextSeq <= nextSeq', sequence' = sequence, items' = items,
         cursor' = cursor, view' = view,
         \A t \in Tx : Wrote(t)' => Wrote(t) /\ tx'[t].seq = tx[t].seq
  PROVE  RowsNumbered' /\ InOrder' /\ NoChangeSkipped'
<1>1. RowsNumbered' /\ NoChangeSkipped' BY DEF FInv, RowsNumbered, NoChangeSkipped
<1>2. /\ nextSeq \in Nat /\ sequence \in [Key -> Nat] /\ cursor \in [Reader -> Nat]
      /\ \A t \in Tx : tx[t].seq \in Nat
  BY DEF FInv, TypeOK, TxType
<1>3. InOrder'
  BY <1>2 DEF FInv, InOrder
<1> QED BY <1>1, <1>3

LEMMA FeedCommit ==
  ASSUME FInv, NEW t \in Tx, Commit(t)
  PROVE  RowsNumbered' /\ InOrder' /\ NoChangeSkipped'
<1>0. TypeOK /\ TxOK /\ Numbered /\ RowsNumbered /\ InOrder /\ NoChangeSkipped
  BY DEF FInv, TypeOK, TxOK
<1>1. tx[t].pc = "commit" /\ nextSeq' = nextSeq /\ cursor' = cursor /\ view' = view
  BY DEF Commit, Ends
<1>2. \A u \in Tx : Wrote(u)' => Wrote(u) /\ u # t /\ tx'[u] = tx[u]
  BY <1>0 DEF Commit, Ends, Idle, Wrote, TypeOK
<1>3. KeyOf(t) \in Key BY <1>0, <1>1, BusyTyped
<1>4. CASE ~Wrote(t)
  <2>1. items' = items /\ sequence' = sequence BY <1>4 DEF Commit
  <2> QED BY <1>0, <1>1, <1>2, <2>1, FewerNumbers DEF TypeOK
<1>5. CASE Wrote(t)
  <2>1. /\ items' = [items EXCEPT ![KeyOf(t)] = tx[t].value]
        /\ sequence' = [sequence EXCEPT ![KeyOf(t)] = tx[t].seq]
    BY <1>5 DEF Commit
  <2>2. tx[t].value # NoItem /\ tx[t].seq # 0 /\ tx[t].seq \in Nat
    BY <1>0, <1>1, <1>5 DEF Wrote, Numbered, TypeOK, TxType
  <2>3. \A k \in Key : items'[k] = (IF k = KeyOf(t) THEN tx[t].value ELSE items[k])
                    /\ sequence'[k] = (IF k = KeyOf(t) THEN tx[t].seq ELSE sequence[k])
    BY <1>0, <1>3, <2>1 DEF TypeOK
  <2>4. RowsNumbered' BY <1>0, <2>2, <2>3 DEF RowsNumbered
  <2>5. \A u \in Tx : ~Wrote(u)' BY <1>0, <1>2, <1>5 DEF InOrder
  <2>6. InOrder' BY <1>0, <1>1, <1>5, <2>3, <2>5 DEF InOrder
  <2>7. NoChangeSkipped'
    <3>1. \A r \in Reader : cursor[r] < tx[t].seq /\ cursor[r] \in Nat
      BY <1>0, <1>5 DEF InOrder, TypeOK
    <3>2. ASSUME NEW r \in Reader, NEW e \in Entity, items'[<<r.scope, e>>] # NoItem,
                 sequence'[<<r.scope, e>>] <= cursor[r]
          PROVE  view[r][e] = items'[<<r.scope, e>>]
      <4>1. <<r.scope, e>> \in Key BY ReadersTyped DEF Key, Scope
      <4>2. <<r.scope, e>> # KeyOf(t) BY <2>2, <2>3, <3>1, <3>2, <4>1
      <4>3. items'[<<r.scope, e>>] = items[<<r.scope, e>>]
            /\ sequence'[<<r.scope, e>>] = sequence[<<r.scope, e>>]
        BY <2>3, <4>1, <4>2
      <4> QED BY <1>0, <3>2, <4>3 DEF NoChangeSkipped
    <3> QED BY <1>1, <3>2 DEF NoChangeSkipped
  <2> QED BY <2>4, <2>6, <2>7
<1> QED BY <1>4, <1>5

LEMMA FeedWrite ==
  ASSUME FInv, NEW t \in Tx, Write(t)
  PROVE  RowsNumbered' /\ InOrder' /\ NoChangeSkipped'
<1>0. TypeOK /\ InOrder /\ RowsNumbered /\ NoChangeSkipped BY DEF FInv
<1>1. /\ items' = items /\ sequence' = sequence /\ cursor' = cursor /\ view' = view
      /\ nextSeq' = nextSeq + 1 /\ CommitOrderFree
  BY DEF Write
<1>2. RowsNumbered' /\ NoChangeSkipped' BY <1>0, <1>1 DEF RowsNumbered, NoChangeSkipped
<1>3. \A u \in Tx : Wrote(u)' => u = t /\ tx'[u].seq = nextSeq
  <2>1. \A u \in Tx \ {t} : tx'[u] = tx[u] BY <1>0 DEF Write, TypeOK
  <2> QED BY <1>0, <1>1, <2>1, OwnWrite DEF Wrote, CommitOrderFree, HoldsCommitOrder
<1>4. nextSeq \in Nat /\ sequence \in [Key -> Nat] /\ cursor \in [Reader -> Nat]
  BY <1>0 DEF TypeOK
<1>5. InOrder' BY <1>0, <1>1, <1>3, <1>4 DEF InOrder
<1> QED BY <1>2, <1>5

LEMMA FeedProceed ==
  ASSUME FInv, NEW t \in Tx, Proceed(t)
  PROVE  RowsNumbered' /\ InOrder' /\ NoChangeSkipped'
<1>0. TypeOK /\ Numbered BY DEF FInv
<1>1. CASE Commit(t) BY <1>1, FeedCommit
<1>2. CASE Write(t) BY <1>2, FeedWrite
<1>3. CASE ~Commit(t) /\ ~Write(t)
  <2>1. \A u \in Tx \ {t} : tx'[u] = tx[u] BY <1>0, OthersUntouched
  <2>2. ~Wrote(t)'
    <3>1. CASE tx'[t].pc = "commit"
      <4>1. ReadExisting(t) /\ tx[t].pc = "read" BY <1>0, <1>3, <3>1, OwnStep
      <4> QED BY <1>0, <4>1, OwnRead DEF Wrote, Numbered
    <3> QED BY <3>1 DEF Wrote
  <2>3. /\ nextSeq' \in {nextSeq, nextSeq + 1} /\ sequence' = sequence /\ items' = items
        /\ cursor' = cursor /\ view' = view
    BY <1>3 DEF Proceed, ResolveScope, RejectScope, LockHouse, RejectHouse, LockPantry,
      CheckLedger, ReplayProcessed, ClaimLedger, ClaimViolation, LockRow, ReadExisting,
      RejectLinks, InsertViolation, tables
  <2>4. \A u \in Tx : Wrote(u)' => Wrote(u) /\ tx'[u].seq = tx[u].seq
    BY <2>1, <2>2 DEF Wrote
  <2>5. nextSeq' \in Nat /\ nextSeq <= nextSeq' BY <1>0, <2>3 DEF TypeOK
  <2> QED BY <2>3, <2>4, <2>5, FewerNumbers
<1> QED BY <1>1, <1>2, <1>3

(* A reader that takes a page has every row up to its new cursor.          *)
LEMMA FeedRead ==
  ASSUME FInv, NEW r \in Reader, ReadChanges(r)
  PROVE  RowsNumbered' /\ InOrder' /\ NoChangeSkipped'
<1>0. TypeOK /\ RowsNumbered /\ InOrder /\ NoChangeSkipped BY DEF FInv
<1> DEFINE page == Page(r.scope, cursor[r])
<1>1. /\ items' = items /\ sequence' = sequence /\ nextSeq' = nextSeq /\ tx' = tx
      /\ view' = [view EXCEPT ![r] =
                   [e \in Entity |-> IF e \in page THEN items[<<r.scope, e>>]
                                     ELSE view[r][e]]]
  BY DEF ReadChanges, server
<1>2. PICK last \in page : cursor' = [cursor EXCEPT ![r] = sequence[<<r.scope, last>>]]
  BY DEF ReadChanges
<1>3. r.scope \in Scope /\ last \in Entity /\ <<r.scope, last>> \in Key /\ cursor[r] \in Nat
  BY <1>0, ReadersTyped DEF Page, Pending, Key, TypeOK
<1>4. sequence[<<r.scope, last>>] \in Nat BY <1>0, <1>3 DEF TypeOK
<1>5. RowsNumbered' BY <1>0, <1>1 DEF RowsNumbered
<1>6. InOrder'
  <2>1. \A q \in Reader : cursor'[q] = IF q = r THEN sequence[<<r.scope, last>>]
                                       ELSE cursor[q]
    BY <1>0, <1>2 DEF TypeOK
  <2> QED BY <1>0, <1>1, <1>3, <2>1 DEF InOrder, Wrote
<1>7. NoChangeSkipped'
  <2>1. SUFFICES ASSUME NEW q \in Reader, NEW e \in Entity, items[<<q.scope, e>>] # NoItem,
                        sequence[<<q.scope, e>>] <= cursor'[q]
                 PROVE  view'[q][e] = items[<<q.scope, e>>]
    BY <1>1 DEF NoChangeSkipped
  <2>2. CASE q # r
    <3>1. cursor'[q] = cursor[q] /\ view'[q] = view[q] BY <1>0, <1>1, <1>2, <2>2 DEF TypeOK
    <3> QED BY <1>0, <2>1, <3>1 DEF NoChangeSkipped
  <2>3. CASE q = r
    <3>1. cursor'[r] = sequence[<<r.scope, last>>] BY <1>0, <1>2 DEF TypeOK
    <3>2. view'[r][e] = IF e \in page THEN items[<<r.scope, e>>] ELSE view[r][e]
      BY <1>0, <1>1 DEF TypeOK
    <3>3. CASE e \in Pending(r.scope, cursor[r])
      <4>1. e \in page BY <1>0, <1>3, <2>1, <2>3, <3>1, <3>3, PageHasNoGaps
      <4> QED BY <2>3, <3>2, <4>1
    <3>4. CASE e \notin Pending(r.scope, cursor[r])
      <4>1. <<r.scope, e>> \in Key BY <1>3 DEF Key
      <4>2. sequence[<<r.scope, e>>] <= cursor[r]
        BY <1>0, <1>3, <3>4, <4>1 DEF Pending, TypeOK
      <4>3. e \notin page BY <3>4 DEF Page
      <4> QED BY <1>0, <2>1, <2>3, <3>2, <4>2, <4>3 DEF NoChangeSkipped
    <3> QED BY <3>3, <3>4
  <2> QED BY <2>2, <2>3
<1> QED BY <1>5, <1>6, <1>7

LEMMA FeedLeave ==
  ASSUME FInv, NEW u \in User, LeaveHouse(u)
  PROVE  RowsNumbered' /\ InOrder' /\ NoChangeSkipped'
<1>0. TypeOK /\ RowsNumbered /\ InOrder /\ NoChangeSkipped BY DEF FInv
<1> DEFINE h == member[u]
<1>1. nextSeq' = nextSeq /\ tx' = tx /\ cursor' = cursor /\ view' = view
  BY DEF LeaveHouse
<1>2. CASE items' = items /\ sequence' = sequence
  BY <1>0, <1>1, <1>2, FewerNumbers DEF TypeOK, Wrote
<1>3. CASE /\ items' = [k \in Key |-> IF k[1] = h THEN NoItem ELSE items[k]]
           /\ sequence' = [k \in Key |-> IF k[1] = h THEN 0 ELSE sequence[k]]
  <2>1. \A k \in Key : /\ items'[k] = IF k[1] = h THEN NoItem ELSE items[k]
                       /\ sequence'[k] = IF k[1] = h THEN 0 ELSE sequence[k]
    BY <1>3
  <2>2. RowsNumbered' BY <1>0, <2>1 DEF RowsNumbered
  <2>3. /\ \A k \in Key : sequence[k] \in Nat /\ sequence'[k] <= sequence[k]
                          /\ sequence'[k] \in Nat
        /\ nextSeq \in Nat /\ \A t \in Tx : tx[t].seq \in Nat
    BY <1>0, <2>1 DEF TypeOK, TxType
  <2>4. InOrder' BY <1>0, <1>1, <2>3 DEF InOrder, Wrote
  <2>5. NoChangeSkipped'
    <3>1. \A r \in Reader, e \in Entity : <<r.scope, e>> \in Key
      BY ReadersTyped DEF Key
    <3> QED BY <1>0, <1>1, <2>1, <3>1 DEF NoChangeSkipped
  <2> QED BY <2>2, <2>4, <2>5
<1> QED BY <1>2, <1>3 DEF LeaveHouse

LEMMA FeedNext ==
  ASSUME FInv, [Next]_vars
  PROVE  RowsNumbered' /\ InOrder' /\ NoChangeSkipped'
<1>0. TypeOK BY DEF FInv
<1>1. ASSUME NEW t \in Tx, Proceed(t) PROVE RowsNumbered' /\ InOrder' /\ NoChangeSkipped'
  BY <1>1, FeedProceed
<1>2. ASSUME NEW t \in Tx, \A u \in Tx \ {t} : tx'[u] = tx[u],
             tx'[t].pc \in {"idle", "scope"}, items' = items, sequence' = sequence,
             nextSeq' = nextSeq, cursor' = cursor, view' = view
      PROVE  RowsNumbered' /\ InOrder' /\ NoChangeSkipped'
  BY <1>0, <1>2, FewerNumbers DEF Wrote, TypeOK
<1>3. ASSUME NEW t \in Tx, Crash(t) PROVE RowsNumbered' /\ InOrder' /\ NoChangeSkipped'
  BY <1>0, <1>2, <1>3 DEF Crash, TypeOK, Idle
<1>4. ASSUME NEW t \in Tx, NEW r \in Request, Begin(t, r)
      PROVE  RowsNumbered' /\ InOrder' /\ NoChangeSkipped'
  BY <1>0, <1>2, <1>4 DEF Begin, TypeOK, Idle, tables
<1>5. ASSUME tx' = tx, items' = items, sequence' = sequence, nextSeq' = nextSeq,
             cursor' = cursor, view' = view
      PROVE  RowsNumbered' /\ InOrder' /\ NoChangeSkipped'
  BY <1>0, <1>5, FewerNumbers DEF Wrote, TypeOK
<1>6. ASSUME NEW u \in User, LeaveHouse(u)
      PROVE  RowsNumbered' /\ InOrder' /\ NoChangeSkipped'
  BY <1>6, FeedLeave
<1>7. ASSUME NEW r \in Reader, ReadChanges(r)
      PROVE  RowsNumbered' /\ InOrder' /\ NoChangeSkipped'
  BY <1>7, FeedRead
<1> QED
  BY <1>1, <1>3, <1>4, <1>5, <1>6, <1>7 DEF Next, vars, Tick, JoinHouse

(* Numbers are drawn in the order in which they are committed, and a page  *)
(* has no gaps: whoever follows the feed by cursor misses no change.       *)
THEOREM NoChangeSkippedHolds == Spec => []NoChangeSkipped
<1>1. Init => FInv
  <2> SUFFICES ASSUME Init PROVE FInv OBVIOUS
  <2>1. TypeOK BY TypeInit
  <2>2. \A t \in Tx : tx[t] = Idle BY DEF Init
  <2>3. Numbered BY <2>2 DEF Numbered, Idle
  <2>4. RowsNumbered BY DEF Init, RowsNumbered
  <2>5. InOrder BY <2>2 DEF Init, InOrder, Wrote, Idle
  <2>6. NoChangeSkipped BY ReadersTyped DEF Init, NoChangeSkipped, Key
  <2> QED BY <2>1, <2>3, <2>4, <2>5, <2>6 DEF FInv
<1>2. FInv /\ [Next]_vars => FInv'
  BY TypeNext, NumberedNext, FeedNext DEF FInv
<1>3. FInv => NoChangeSkipped BY DEF FInv
<1> QED BY <1>1, <1>2, <1>3, PTL DEF Spec
-----------------------------------------------------------------------------
(***************************************************************************)
(* SyncServer implements AtomicStore on its serialized keys: what a commit *)
(* makes visible is what the abstract store does in one step, since the    *)
(* row it read is still the row of the table and nobody else has processed *)
(* its mutation.  The same facts show that a mutation is processed once    *)
(* and that no link of a dinner is lost.                                   *)
(***************************************************************************)

(* What a busy connection prepared, it prepared from its request.          *)
PreparedAt(t) == \E now \in 0 .. MaxClock : tx[t].prepared = Prepared(tx[t].request, now)

Known ==
  /\ clock \in 0 .. MaxClock
  /\ \A t \in Tx : tx[t].pc # "idle" => PreparedAt(t)

(* The record of a mutation in the ledger is inserted by one connection, ...*)
ClaimExclusive ==
  \A s \in Scope, m \in Nat, t, u \in Tx : Claims(t, s, m) /\ Claims(u, s, m) => t = u

(* ... which found none there.                                             *)
NewAt(t) == tx[t].pc \in AfterClaim =>
              ~Processed(tx[t].request.scope, tx[t].request.mutation)

ClaimedIsNew == \A t \in Tx : NewAt(t)

(* Recipes that fitted when the row was read still do.                     *)
Fits ==
  \A t \in Tx : Deciding(t) /\ Serialized(KeyOf(t)) =>
    ~LinksExceeded(tx[t].request.entity, tx[t].prepared, tx[t].found)

RInv == IInv /\ Known /\ ClaimExclusive /\ ClaimedIsNew /\ Fits

-----------------------------------------------------------------------------
LEMMA KnownNext ==
  ASSUME TypeOK, Known, [Next]_vars
  PROVE  Known'
<1> USE DEF Known
<1>1. ASSUME NEW t \in Tx, Proceed(t) PROVE Known'
  <2>1. \A u \in Tx \ {t} : tx'[u] = tx[u] BY <1>1, OthersUntouched
  <2>2. clock' = clock
    BY <1>1 DEF Proceed, ResolveScope, RejectScope, LockHouse, RejectHouse, LockPantry,
      CheckLedger, ReplayProcessed, ClaimLedger, ClaimViolation, LockRow, ReadExisting,
      RejectLinks, Write, InsertViolation, Commit, tables
  <2>3. tx'[t].pc # "idle" => PreparedAt(t)'
    BY <1>1, OwnStep DEF PreparedAt
  <2>4. \A u \in Tx \ {t} : tx'[u].pc # "idle" => PreparedAt(u)'
    BY <2>1 DEF PreparedAt
  <2> QED BY <2>2, <2>3, <2>4
<1>2. ASSUME NEW t \in Tx, Crash(t) PROVE Known'
  BY <1>2 DEF Crash, TypeOK, Idle, PreparedAt
<1>3. ASSUME NEW t \in Tx, NEW r \in Request, Begin(t, r) PROVE Known'
  <2>1. tx' = [tx EXCEPT ![t] = [Idle EXCEPT !.pc = "scope", !.request = r,
                                             !.prepared = Prepared(r, clock)]]
        /\ clock' = clock
    BY <1>3 DEF Begin, tables
  <2>2. tx'[t].prepared = Prepared(r, clock) /\ tx'[t].request = r
    BY <2>1 DEF TypeOK, Idle
  <2>3. PreparedAt(t)' BY <2>1, <2>2 DEF PreparedAt
  <2>4. \A u \in Tx \ {t} : tx'[u] = tx[u] BY <2>1 DEF TypeOK
  <2>5. \A u \in Tx \ {t} : tx'[u].pc # "idle" => PreparedAt(u)'
    BY <2>4 DEF PreparedAt
  <2> QED BY <2>1, <2>3, <2>5
<1>4. ASSUME tx' = tx, clock' = clock PROVE Known'
  BY <1>4 DEF PreparedAt
<1>5. CASE Tick
  BY <1>5, BoundsTyped DEF Tick, PreparedAt
<1> QED
  BY <1>1, <1>2, <1>3, <1>4, <1>5 DEF Next, vars, JoinHouse, LeaveHouse, ReadChanges, server

-----------------------------------------------------------------------------
LEMMA ClaimTaken ==
  ASSUME TypeOK, NEW t \in Tx, Proceed(t), NEW s \in Scope, NEW m \in Nat, Claims(t, s, m)'
  PROVE  Claims(t, s, m) \/ (LedgerFree(s, m) /\ ~Processed(s, m))
<1>1. /\ tx'[t].pc # "idle" /\ tx'[t].pc \in AfterClaim
      /\ tx'[t].request.scope = s /\ tx'[t].request.mutation = m
  BY DEF Claims, AfterClaim, AfterPantry, AfterHouse, AfterScope, Statement
<1> QED
  BY <1>1, OwnStep DEF Claims, AfterClaim, AfterPantry, AfterHouse, AfterScope, Statement,
    ClaimLedger

LEMMA ClaimsNext ==
  ASSUME TypeOK, Known, ClaimExclusive, ClaimedIsNew, [Next]_vars
  PROVE  ClaimExclusive' /\ ClaimedIsNew'
<1>0. TxOK BY DEF TypeOK, TxOK
<1>t. ASSUME NEW t \in Tx, tx[t].pc \in AfterClaim
      PROVE  /\ tx[t].request.scope \in Scope /\ tx[t].request.mutation \in Nat
             /\ Claims(t, tx[t].request.scope, tx[t].request.mutation)
             /\ tx[t].prepared.mutation = tx[t].request.mutation
  <2>1. tx[t].pc # "idle"
    BY <1>t DEF AfterClaim, AfterPantry, AfterHouse, AfterScope, Statement
  <2>2. tx[t].request \in RequestType BY <1>0, <2>1, RequestsTyped DEF TxOK
  <2>3. tx[t].prepared.mutation = tx[t].request.mutation
    <3>1. PICK now \in 0 .. MaxClock : tx[t].prepared = Prepared(tx[t].request, now)
      BY <2>1 DEF Known, PreparedAt
    <3> QED BY <3>1 DEF Prepared
  <2> QED BY <1>t, <2>2, <2>3 DEF Claims, RequestType
<1>1. ASSUME NEW t \in Tx, Proceed(t) PROVE ClaimExclusive' /\ ClaimedIsNew'
  <2>1. \A u \in Tx \ {t} : tx'[u] = tx[u] BY <1>1, OthersUntouched
  <2>2. \A u \in Tx \ {t}, s \in Scope, m \in Nat : Claims(u, s, m)' <=> Claims(u, s, m)
    BY <2>1 DEF Claims
  <2>3. \A s \in Scope, m \in Nat :
          Claims(t, s, m)' => Claims(t, s, m) \/ (LedgerFree(s, m) /\ ~Processed(s, m))
    BY <1>1, ClaimTaken
  <2>4. ClaimExclusive'
    <3>1. SUFFICES ASSUME NEW s \in Scope, NEW m \in Nat, NEW v \in Tx, NEW w \in Tx,
                          Claims(v, s, m)', Claims(w, s, m)', v # w
                   PROVE  FALSE
      BY DEF ClaimExclusive
    <3>2. CASE v # t /\ w # t
      <4>1. Claims(v, s, m) /\ Claims(w, s, m) BY <2>2, <3>1, <3>2
      <4> QED BY <3>1, <4>1 DEF ClaimExclusive
    <3>3. ASSUME NEW u \in Tx \ {t}, Claims(u, s, m)', Claims(t, s, m)' PROVE FALSE
      <4>1. Claims(u, s, m) BY <2>2, <3>3
      <4>2. Claims(t, s, m) BY <2>3, <3>3, <4>1 DEF LedgerFree
      <4> QED BY <4>1, <4>2 DEF ClaimExclusive
    <3> QED BY <3>1, <3>2, <3>3
  <2>5. CASE Commit(t)
    <3>1. tx[t].pc = "commit" /\ tx'[t].pc = "idle"
      BY <1>0, <2>5 DEF Commit, Ends, Idle, TxOK
    <3>2. ledger' = ledger \cup {[scope |-> tx[t].request.scope,
                                  entity |-> tx[t].request.entity,
                                  version |-> tx[t].prepared]}
      BY <2>5 DEF Commit
    <3>3. SUFFICES ASSUME NEW u \in Tx, ~NewAt(u)' PROVE FALSE
      BY <2>4 DEF ClaimedIsNew
    <3>a. tx'[u].pc \in AfterClaim BY <3>3 DEF NewAt
    <3>4. u # t /\ tx'[u] = tx[u]
      BY <2>1, <3>1, <3>a DEF AfterClaim, AfterPantry, AfterHouse, AfterScope, Statement
    <3>5. ~Processed(tx[u].request.scope, tx[u].request.mutation)
      BY <3>a, <3>4 DEF ClaimedIsNew, NewAt
    <3>6. \E e \in ledger' : /\ e.scope = tx[u].request.scope
                             /\ e.version.mutation = tx[u].request.mutation
      BY <3>3, <3>4 DEF NewAt, Processed
    <3>7. /\ tx[t].request.scope = tx[u].request.scope
          /\ tx[t].prepared.mutation = tx[u].request.mutation
      BY <3>2, <3>5, <3>6 DEF Processed
    <3>8. tx[t].pc \in AfterClaim /\ tx[u].pc \in AfterClaim
      BY <3>1, <3>a, <3>4 DEF AfterClaim, AfterPantry, AfterHouse, AfterScope, Statement
    <3>9. /\ Claims(t, tx[u].request.scope, tx[u].request.mutation)
          /\ Claims(u, tx[u].request.scope, tx[u].request.mutation)
          /\ tx[u].request.scope \in Scope /\ tx[u].request.mutation \in Nat
      BY <1>t, <3>7, <3>8
    <3> QED BY <3>4, <3>9 DEF ClaimExclusive
  <2>6. CASE ~Commit(t)
    <3>1. ledger' = ledger BY <1>1, <2>6, OnlyCommitWrites
    <3>2. \A u \in Tx \ {t} : NewAt(u)'
      BY <2>1, <3>1 DEF ClaimedIsNew, NewAt, Processed
    <3>3. ASSUME tx'[t].pc \in AfterClaim
          PROVE  ~Processed(tx[t].request.scope, tx[t].request.mutation)
      <4>1. tx'[t].pc # "idle"
        BY <3>3 DEF AfterClaim, AfterPantry, AfterHouse, AfterScope, Statement
      <4>2. CASE ClaimLedger(t) BY <4>2 DEF ClaimLedger
      <4>3. CASE tx[t].pc \in AfterClaim BY <4>3 DEF ClaimedIsNew, NewAt
      <4> QED
        BY <1>1, <3>3, <4>1, <4>2, <4>3, OwnStep DEF AfterClaim, AfterPantry, AfterHouse,
          AfterScope, Statement
    <3>4. tx'[t].pc \in AfterClaim => tx'[t].request = tx[t].request
      BY <1>1, OwnStep DEF AfterClaim, AfterPantry, AfterHouse, AfterScope, Statement
    <3>5. NewAt(t)'
      BY <3>1, <3>3, <3>4 DEF NewAt, Processed
    <3> QED BY <2>4, <3>2, <3>5 DEF ClaimedIsNew
  <2> QED BY <2>4, <2>5, <2>6
<1>2. ASSUME NEW t \in Tx, \A u \in Tx \ {t} : tx'[u] = tx[u],
             tx'[t].pc \in {"idle", "scope"}, ledger' = ledger
      PROVE  ClaimExclusive' /\ ClaimedIsNew'
  <2>1. \A s \in Scope, m \in Nat : ~Claims(t, s, m)'
    BY <1>2 DEF Claims, AfterClaim, AfterPantry, AfterHouse, AfterScope, Statement
  <2>2. \A u \in Tx \ {t}, s \in Scope, m \in Nat : Claims(u, s, m)' <=> Claims(u, s, m)
    BY <1>2 DEF Claims
  <2>3. ClaimExclusive'
    <3>1. SUFFICES ASSUME NEW s \in Scope, NEW m \in Nat, NEW v \in Tx, NEW w \in Tx,
                          Claims(v, s, m)', Claims(w, s, m)', v # w
                   PROVE  FALSE
      BY DEF ClaimExclusive
    <3>2. v # t /\ w # t BY <2>1, <3>1
    <3>3. Claims(v, s, m) /\ Claims(w, s, m) BY <2>2, <3>1, <3>2
    <3> QED BY <3>1, <3>3 DEF ClaimExclusive
  <2>4. ClaimedIsNew'
    BY <1>2 DEF ClaimedIsNew, NewAt, Processed, AfterClaim, AfterPantry, AfterHouse, AfterScope,
      Statement
  <2> QED BY <2>3, <2>4
<1>3. ASSUME NEW t \in Tx, Crash(t) PROVE ClaimExclusive' /\ ClaimedIsNew'
  BY <1>2, <1>3 DEF Crash, TypeOK, Idle
<1>4. ASSUME NEW t \in Tx, NEW r \in Request, Begin(t, r)
      PROVE  ClaimExclusive' /\ ClaimedIsNew'
  BY <1>2, <1>4 DEF Begin, TypeOK, Idle, tables
<1>5. ASSUME tx' = tx, ledger' \subseteq ledger PROVE ClaimExclusive' /\ ClaimedIsNew'
  BY <1>5 DEF ClaimExclusive, ClaimedIsNew, NewAt, Claims, Processed
<1>6. ASSUME NEW u \in User, LeaveHouse(u) PROVE ClaimExclusive' /\ ClaimedIsNew'
  BY <1>5, <1>6 DEF LeaveHouse
<1> QED
  BY <1>1, <1>3, <1>4, <1>5, <1>6 DEF Next, vars, Tick, JoinHouse, ReadChanges, server

-----------------------------------------------------------------------------
LEMMA FitsNext ==
  ASSUME TypeOK, Fits, [Next]_vars
  PROVE  Fits'
<1>1. ASSUME NEW t \in Tx, Proceed(t) PROVE Fits'
  <2>1. \A u \in Tx \ {t} : tx'[u] = tx[u] BY <1>1, OthersUntouched
  <2>2. SUFFICES ASSUME NEW u \in Tx, Deciding(u)', Serialized(KeyOf(u))'
                 PROVE  ~LinksExceeded(tx'[u].request.entity, tx'[u].prepared, tx'[u].found)
    BY DEF Fits
  <2>3. CASE u # t
    BY <2>1, <2>2, <2>3 DEF Fits, Deciding, Serialized, KeyOf
  <2>4. CASE u = t
    <3>1. tx'[t].pc \in {"write", "commit"} /\ tx'[t].pc # "idle"
      BY <2>2, <2>4 DEF Deciding
    <3>2. CASE ReadExisting(t)
      BY <2>4, <3>2, OwnRead DEF ReadExisting
    <3>3. CASE Write(t)
      <4>1. KeyOf(t)' = KeyOf(t) BY <3>3, OwnWrite DEF KeyOf
      <4>2. Deciding(t) /\ Serialized(KeyOf(t))
        BY <2>2, <2>4, <3>3, <4>1 DEF Write, Deciding, Serialized
      <4> QED BY <2>4, <3>3, <4>1, <4>2, OwnWrite DEF Fits
    <3> QED BY <1>1, <3>1, <3>2, <3>3, OwnStep
  <2> QED BY <2>3, <2>4
<1>2. ASSUME NEW t \in Tx, \A u \in Tx \ {t} : tx'[u] = tx[u],
             tx'[t].pc \in {"idle", "scope"}
      PROVE  Fits'
  BY <1>2 DEF Fits, Deciding, KeyOf, Serialized
<1>3. ASSUME NEW t \in Tx, Crash(t) PROVE Fits'
  BY <1>2, <1>3 DEF Crash, TypeOK, Idle
<1>4. ASSUME NEW t \in Tx, NEW r \in Request, Begin(t, r) PROVE Fits'
  BY <1>2, <1>4 DEF Begin, TypeOK, Idle
<1>5. ASSUME tx' = tx PROVE Fits'
  BY <1>5 DEF Fits, Deciding, KeyOf, Serialized
<1> QED
  BY <1>1, <1>3, <1>4, <1>5 DEF Next, vars, Tick, JoinHouse, LeaveHouse, ReadChanges, server

LEMMA RefinementInvariant == Spec => []RInv
<1>1. Init => RInv
  <2> SUFFICES ASSUME Init PROVE RInv OBVIOUS
  <2>1. \A t \in Tx : tx[t].pc = "idle" BY DEF Init, Idle
  <2>2. Known BY <2>1, BoundsTyped DEF Init, Known
  <2>3. ClaimExclusive /\ ClaimedIsNew /\ Fits
    BY <2>1 DEF ClaimExclusive, ClaimedIsNew, NewAt, Fits, Claims, Deciding, AfterClaim,
      AfterPantry, AfterHouse, AfterScope, Statement
  <2> QED BY <2>2, <2>3, InductiveInit DEF RInv
<1>2. RInv /\ [Next]_vars => RInv'
  <2> SUFFICES ASSUME RInv, [Next]_vars PROVE RInv' OBVIOUS
  <2>1. TypeOK BY DEF RInv, IInv
  <2> QED BY <2>1, InductiveNext, KnownNext, ClaimsNext, FitsNext DEF RInv
<1> QED BY <1>1, <1>2, PTL DEF Spec

(* A request and its retries, whatever their interleaving, commit a        *)
(* mutation once: the connection that commits it finds no record of it.    *)
THEOREM ProcessedOnceHolds == Spec => ProcessedOnce
<1>1. RInv /\ [Next]_vars =>
        \A t \in Tx :
          tx[t].pc = "commit" /\ tx'[t].pc = "idle" /\ crashes' = crashes =>
            ~Processed(tx[t].request.scope, tx[t].request.mutation)
  BY DEF RInv, ClaimedIsNew, NewAt, AfterClaim, AfterPantry, AfterHouse, AfterScope, Statement
<1> QED BY <1>1, RefinementInvariant, PTL DEF Spec, ProcessedOnce

-----------------------------------------------------------------------------
(* Dinners: the links of every entry processed are in the row, and fit.    *)

Bounded(links) == IsFiniteSet(links) /\ Cardinality(links) <= MaxLinks

(* A deleted row of a dinner was deleted by a mutation that was processed. *)
DeadIsRecorded ==
  \A k \in Key : Serialized(k) /\ items[k] # NoItem /\ items[k].deleted => ~NeverDeleted(k)

(* Whatever is stored of a dinner has no more links than allowed.          *)
RowsBounded ==
  \A k \in Key : Serialized(k) /\ k[2] \in DinnerEntity /\ items[k] # NoItem =>
    Bounded(items[k].links)

DInv == RInv /\ DeadIsRecorded /\ RowsBounded /\ NoLinkLost

(* What is prepared from a request fits.                                   *)
LEMMA PreparedBounded ==
  ASSUME NEW r \in Request, NEW now
  PROVE  Bounded(Prepared(r, now).links)
<1>1. IsFiniteSet({}) /\ Cardinality({}) = 0 BY FS_EmptySet
<1> QED BY <1>1, RequestsFit, BoundsTyped DEF Prepared, Bounded

(* A mutation of a dinner that fits is written as live as it came, within  *)
(* the limit; a live one on a live row leaves the links of both.           *)
LEMMA DinnerOutcome ==
  ASSUME NEW e \in DinnerEntity, NEW v \in Version, NEW found \in Row,
         ~LinksExceeded(e, v, found), Bounded(v.links),
         found # NoItem => Bounded(found.links),
         NEW o, o = Outcome(e, v, found)
  PROVE  /\ o # NoItem => o.deleted = v.deleted /\ Bounded(o.links)
         /\ ~v.deleted /\ (found # NoItem => ~found.deleted) =>
              IF o = NoItem THEN found # NoItem /\ v.links \subseteq found.links
              ELSE /\ v.links \subseteq o.links
                   /\ found # NoItem => found.links \subseteq o.links
<1>0. NoItem \notin Version /\ (found # NoItem => found \in Version)
  BY NoItemAssumption DEF Row
<1>1. CASE found = NoItem
  <2>1. o = v BY <1>1 DEF Outcome, Normalized, UnitesLinks
  <2> QED BY <1>0, <1>1, <2>1
<1>2. CASE found # NoItem /\ UnitesLinks(e, v, found)
  <2> DEFINE both == found.links \cup v.links
  <2>1. Bounded(both)
    <3>1. IsFiniteSet(both) BY <1>2, FS_Union DEF Bounded
    <3>2. ~(Cardinality(both) > MaxLinks) BY <1>2 DEF LinksExceeded
    <3>3. Cardinality(both) \in Nat BY <3>1, FS_CardinalityType
    <3> HIDE DEF both
    <3> QED BY <3>1, <3>2, <3>3, BoundsTyped DEF Bounded
  <2>2. ~v.deleted /\ ~found.deleted BY <1>2 DEF UnitesLinks
  <2>3. CASE Wins(v, found)
    <3>1. o = [v EXCEPT !.links = found.links \cup @]
      BY <1>2, <2>3 DEF Outcome, Normalized
    <3>2. o.deleted = v.deleted /\ o.links = both /\ o \in Version
      BY <1>0, <1>2, <3>1 DEF Version
    <3> QED BY <1>0, <1>2, <2>1, <3>2
  <2>4. CASE ~Wins(v, found) /\ MergesStale(e, v, found)
    <3>1. o = StaleMerge(v, found) BY <1>2, <2>4 DEF Outcome
    <3>2. o.deleted = v.deleted /\ o.links = both /\ o \in Version
      BY <1>0, <1>2, <3>1 DEF StaleMerge, Version
    <3> QED BY <1>0, <1>2, <2>1, <3>2
  <2>5. CASE ~Wins(v, found) /\ ~MergesStale(e, v, found)
    <3>1. o = NoItem BY <1>2, <2>5 DEF Outcome
    <3>2. v.links \subseteq found.links BY <1>2, <2>5 DEF MergesStale
    <3> QED BY <1>2, <3>1, <3>2
  <2> QED BY <2>3, <2>4, <2>5
<1>3. CASE found # NoItem /\ ~UnitesLinks(e, v, found)
  <2>1. v.deleted \/ found.deleted BY <1>3 DEF UnitesLinks
  <2>2. ~MergesStale(e, v, found) BY <1>3 DEF MergesStale
  <2>3. CASE Wins(v, found)
    <3>1. o = Normalized(e, v, found) BY <1>3, <2>3 DEF Outcome
    <3>2. o.deleted = v.deleted /\ (o.links = v.links \/ o.links = found.links)
      BY <1>0, <1>3, <3>1 DEF Normalized, Version
    <3> QED BY <1>3, <2>1, <3>2
  <2>4. CASE ~Wins(v, found)
    <3>1. o = NoItem BY <1>3, <2>2, <2>4 DEF Outcome
    <3> QED BY <1>3, <2>1, <3>1
  <2> QED BY <2>3, <2>4
<1> QED BY <1>1, <1>2, <1>3

(* What a commit leaves in the row of a dinner.                            *)
LEMMA CommitDinner ==
  ASSUME DInv, NEW t \in Tx, Commit(t), Serialized(KeyOf(t)),
         KeyOf(t)[2] \in DinnerEntity,
         NEW v, v = tx[t].prepared, NEW found, found = items[KeyOf(t)],
         NEW row, row = items'[KeyOf(t)]
  PROVE  /\ row # NoItem => Bounded(row.links)
         /\ row # NoItem /\ row.deleted => v.deleted \/ (found # NoItem /\ found.deleted)
         /\ ~v.deleted /\ (found # NoItem => ~found.deleted) =>
              /\ row # NoItem /\ v.links \subseteq row.links
              /\ found # NoItem => found.links \subseteq row.links
<1>1. tx[t].pc = "commit" BY DEF Commit, Ends
<1>2. TypeOK /\ TxOK /\ Fresh /\ Numbered /\ Known /\ Fits /\ RowsBounded
  BY DEF DInv, RInv, IInv, TypeOK, TxOK
<1>3. /\ v \in Version /\ KeyOf(t) \in Key /\ tx[t].request.entity \in DinnerEntity
      /\ found \in Row /\ tx[t].request \in Request
  BY <1>1, <1>2, BusyTyped DEF TypeOK
<1>4. /\ tx[t].value = Outcome(tx[t].request.entity, v, found)
      /\ ~LinksExceeded(tx[t].request.entity, v, found)
  BY <1>1, <1>2 DEF Fresh, Fits, Deciding
<1>5. Bounded(v.links)
  <2>1. PICK now \in 0 .. MaxClock : tx[t].prepared = Prepared(tx[t].request, now)
    BY <1>1, <1>2 DEF Known, PreparedAt
  <2> QED BY <1>3, <2>1, PreparedBounded
<1>6. found # NoItem => Bounded(found.links) BY <1>2, <1>3 DEF RowsBounded
<1>7. Wrote(t) <=> tx[t].value # NoItem BY <1>1, <1>2 DEF Wrote, Numbered
<1>8. row = IF tx[t].value = NoItem THEN found ELSE tx[t].value
  BY <1>2, <1>3, <1>7 DEF Commit, TypeOK
<1> QED BY <1>3, <1>4, <1>5, <1>6, <1>8, DinnerOutcome

LEMMA DinnerCommit ==
  ASSUME DInv, NEW t \in Tx, Commit(t)
  PROVE  DeadIsRecorded' /\ RowsBounded' /\ NoLinkLost'
<1> DEFINE k == KeyOf(t)
           v == tx[t].prepared
           new == [scope |-> tx[t].request.scope, entity |-> tx[t].request.entity,
                   version |-> v]
<1>0. TypeOK /\ TxOK /\ DeadIsRecorded /\ RowsBounded /\ NoLinkLost /\ Fresh /\ Numbered
  BY DEF DInv, RInv, IInv, TypeOK, TxOK
<1>1. tx[t].pc = "commit" BY DEF Commit, Ends
<1>2. k \in Key /\ k = <<tx[t].request.scope, tx[t].request.entity>> /\ v \in Version
      /\ k[2] = tx[t].request.entity
  BY <1>0, <1>1, BusyTyped DEF KeyOf
<1>3. ledger' = ledger \cup {new} BY DEF Commit
<1>4. \A j \in Key : j # k => items'[j] = items[j] BY <1>0 DEF Commit, TypeOK
<1>5. \A j : NeverDeleted(j)' => NeverDeleted(j) /\ (j = k => ~v.deleted)
  <2>1. LedgerKey(new) = k /\ new.version = v BY <1>2 DEF LedgerKey
  <2> HIDE DEF new, k, v
  <2>2. SUFFICES ASSUME NEW j, NeverDeleted(j)'
                 PROVE  NeverDeleted(j) /\ (j = k => ~v.deleted)
    OBVIOUS
  <2>3. \A e \in ledger' : LedgerKey(e) = j => ~e.version.deleted
    BY <2>2 DEF NeverDeleted, LedgerKey
  <2> QED BY <1>3, <2>1, <2>3 DEF NeverDeleted
<1>6. Serialized(k) /\ items'[k] # NoItem /\ items'[k].deleted
        => v.deleted \/ (items[k] # NoItem /\ items[k].deleted)
  <2>1. CASE k[2] \in DinnerEntity BY <2>1, CommitDinner
  <2>2. CASE k[2] \notin DinnerEntity
    <3>1. SUFFICES ASSUME Serialized(k), items'[k] # NoItem, items'[k].deleted
                   PROVE  v.deleted \/ (items[k] # NoItem /\ items[k].deleted)
      OBVIOUS
    <3>2. Wrote(t) <=> tx[t].value # NoItem BY <1>0, <1>1 DEF Wrote, Numbered
    <3>3. items'[k] = IF tx[t].value = NoItem THEN items[k] ELSE tx[t].value
      BY <1>0, <1>2, <3>2 DEF Commit, TypeOK
    <3>4. tx[t].value = IF items[k] = NoItem \/ Wins(v, items[k]) THEN v ELSE NoItem
      <4>1. items[k] \in Row /\ tx[t].request.entity \in Entity \ DinnerEntity
        BY <1>0, <1>1, <1>2, <2>2, BusyTyped DEF TypeOK
      <4> QED BY <1>0, <1>1, <1>2, <3>1, <4>1, PlainOutcome DEF Fresh, Deciding
    <3> QED BY <3>1, <3>3, <3>4
  <2> QED BY <2>1, <2>2
<1>7. DeadIsRecorded'
  <2>1. SUFFICES ASSUME NEW j \in Key, Serialized(j), items'[j] # NoItem,
                        items'[j].deleted, NeverDeleted(j)'
                 PROVE  FALSE
    BY DEF DeadIsRecorded, Serialized
  <2>2. CASE j = k BY <1>0, <1>2, <1>5, <1>6, <2>1, <2>2 DEF DeadIsRecorded
  <2>3. CASE j # k BY <1>0, <1>4, <1>5, <2>1, <2>3 DEF DeadIsRecorded
  <2> QED BY <2>2, <2>3
<1>8. RowsBounded'
  <2>1. Serialized(k) /\ k[2] \in DinnerEntity /\ items'[k] # NoItem
          => Bounded(items'[k].links)
    BY CommitDinner
  <2>2. \A j : Bounded(j)' <=> Bounded(j) BY DEF Bounded
  <2> QED BY <1>0, <1>4, <2>1, <2>2 DEF RowsBounded, Serialized
<1>9. NoLinkLost'
  <2>1. SUFFICES ASSUME NEW e \in ledger', Serialized(LedgerKey(e)),
                        e.entity \in DinnerEntity, NeverDeleted(LedgerKey(e))'
                 PROVE  /\ items'[LedgerKey(e)] # NoItem
                        /\ e.version.links \subseteq items'[LedgerKey(e)].links
                        /\ Cardinality(items'[LedgerKey(e)].links) <= MaxLinks
    BY DEF NoLinkLost, LedgerKey, Serialized
  <2>2. LedgerKey(new) = k /\ new.version = v BY <1>2 DEF LedgerKey
  <2>3. ledger \subseteq LedgerEntry BY <1>0 DEF TypeOK
  <2>4. LedgerKey(e) \in Key /\ LedgerKey(e)[2] = e.entity
    BY <1>2, <1>3, <2>1, <2>2, <2>3 DEF LedgerKey, LedgerEntry, Key
  <2>5. NeverDeleted(LedgerKey(e)) BY <1>5, <2>1
  <2>6. CASE LedgerKey(e) = k
    <3>1. ~v.deleted BY <1>5, <2>1, <2>6
    <3>2. items[k] # NoItem => ~items[k].deleted
      BY <1>0, <1>2, <2>1, <2>5, <2>6 DEF DeadIsRecorded
    <3>3. /\ items'[k] # NoItem /\ v.links \subseteq items'[k].links
          /\ items[k] # NoItem => items[k].links \subseteq items'[k].links
          /\ Bounded(items'[k].links)
      BY <2>1, <2>4, <2>6, <3>1, <3>2, CommitDinner
    <3>4. CASE e = new BY <2>2, <2>6, <3>3, <3>4 DEF Bounded
    <3>5. CASE e \in ledger
      <4>1. items[k] # NoItem /\ e.version.links \subseteq items[k].links
        BY <1>0, <2>1, <2>5, <2>6, <3>5 DEF NoLinkLost
      <4> QED BY <2>6, <3>3, <4>1 DEF Bounded
    <3> QED BY <1>3, <2>1, <3>4, <3>5
  <2>7. CASE LedgerKey(e) # k
    <3>1. e \in ledger BY <1>3, <2>1, <2>2, <2>7
    <3>2. items'[LedgerKey(e)] = items[LedgerKey(e)] BY <1>4, <2>4, <2>7
    <3> QED BY <1>0, <2>1, <2>5, <3>1, <3>2 DEF NoLinkLost
  <2> QED BY <2>6, <2>7
<1> QED BY <1>7, <1>8, <1>9

LEMMA DinnerNext ==
  ASSUME DInv, [Next]_vars
  PROVE  DeadIsRecorded' /\ RowsBounded' /\ NoLinkLost'
<1>0. TypeOK /\ DeadIsRecorded /\ RowsBounded /\ NoLinkLost
  BY DEF DInv, RInv, IInv
<1>1. ASSUME items' = items, ledger' = ledger
      PROVE  DeadIsRecorded' /\ RowsBounded' /\ NoLinkLost'
  BY <1>0, <1>1 DEF DeadIsRecorded, RowsBounded, NoLinkLost, Serialized, LedgerKey,
    NeverDeleted, Bounded
<1>2. ASSUME NEW t \in Tx, Proceed(t)
      PROVE  DeadIsRecorded' /\ RowsBounded' /\ NoLinkLost'
  BY <1>1, <1>2, DinnerCommit, OnlyCommitWrites
<1>3. ASSUME NEW u \in User, LeaveHouse(u)
      PROVE  DeadIsRecorded' /\ RowsBounded' /\ NoLinkLost'
  <2> DEFINE h == member[u]
  <2>1. CASE items' = items /\ ledger' = ledger BY <1>1, <2>1
  <2>2. CASE /\ items' = [k \in Key |-> IF k[1] = h THEN NoItem ELSE items[k]]
             /\ ledger' = {e \in ledger : e.scope # h}
    <3>1. \A k \in Key : items'[k] # NoItem => k[1] # h /\ items'[k] = items[k]
      BY <2>2
    <3>2. \A k \in Key : k[1] # h /\ NeverDeleted(k)' => NeverDeleted(k)
      BY <2>2 DEF NeverDeleted, LedgerKey, Key
    <3>3. DeadIsRecorded' BY <1>0, <3>1, <3>2 DEF DeadIsRecorded, Serialized
    <3>4. RowsBounded' BY <1>0, <3>1 DEF RowsBounded, Serialized, Bounded
    <3>5. NoLinkLost'
      <4>1. SUFFICES ASSUME NEW e \in ledger', Serialized(LedgerKey(e)),
                            e.entity \in DinnerEntity, NeverDeleted(LedgerKey(e))'
                     PROVE  /\ items'[LedgerKey(e)] # NoItem
                            /\ e.version.links \subseteq items'[LedgerKey(e)].links
                            /\ Cardinality(items'[LedgerKey(e)].links) <= MaxLinks
        BY DEF NoLinkLost, LedgerKey, Serialized
      <4>2. e \in ledger /\ LedgerKey(e) \in Key /\ LedgerKey(e)[1] # h
        BY <1>0, <2>2, <4>1 DEF TypeOK, LedgerEntry, LedgerKey, Key
      <4>3. items'[LedgerKey(e)] = items[LedgerKey(e)] BY <2>2, <4>2
      <4> QED BY <1>0, <3>2, <4>1, <4>2, <4>3 DEF NoLinkLost
    <3> QED BY <3>3, <3>4, <3>5
  <2> QED BY <1>3, <2>1, <2>2 DEF LeaveHouse
<1> QED
  BY <1>1, <1>2, <1>3 DEF Next, vars, Tick, JoinHouse, ReadChanges, server, Crash, Begin,
    tables

(* Whatever devices link recipes to a dinner of a house, in any order and  *)
(* with any retries, no link is lost while nobody deletes the dinner.      *)
THEOREM NoLinkLostHolds == Spec => []NoLinkLost
<1>1. Init /\ RInv => DInv
  BY DEF Init, DInv, DeadIsRecorded, RowsBounded, NoLinkLost
<1>2. DInv /\ RInv' /\ [Next]_vars => DInv'
  BY DinnerNext DEF DInv
<1>3. DInv => NoLinkLost BY DEF DInv
<1> QED BY <1>1, <1>2, <1>3, RefinementInvariant, PTL DEF Spec

-----------------------------------------------------------------------------
(* The refinement.                                                         *)

AllEntries == UNION {EntriesOf(r) : r \in Request}

(* The store decides like the server.                                      *)
LEMMA SameOutcome ==
  ASSUME NEW e, NEW v, NEW found
  PROVE  /\ Store!Outcome(e, v, found) = Outcome(e, v, found)
         /\ Store!LinksExceeded(e, v, found) <=> LinksExceeded(e, v, found)
<1>1. \A S : Store!Cardinality(S) = Cardinality(S)
  BY DEF Store!Cardinality, Cardinality
<1> QED
  BY <1>1 DEF Outcome, LinksExceeded, Normalized, StaleMerge, MergesStale, UnitesLinks, Wins,
   Store!Outcome, Store!LinksExceeded, Store!Normalized, Store!StaleMerge,
   Store!MergesStale, Store!UnitesLinks, Store!Wins

(* What a connection commits on a serialized key is one step of the store. *)
LEMMA CommitApplies ==
  ASSUME RInv, NEW t \in Tx, Commit(t), Serialized(KeyOf(t))
  PROVE  \E e \in AllEntries : Store!Apply(e)
<1> DEFINE k == KeyOf(t)
           e == [scope |-> tx[t].request.scope, entity |-> tx[t].request.entity,
                 version |-> tx[t].prepared]
<1>1. tx[t].pc = "commit" /\ tx[t].pc # "idle" BY DEF Commit, Ends
<1>2. TypeOK /\ TxOK /\ Fresh /\ Numbered /\ Known /\ ClaimedIsNew /\ Fits
  BY DEF RInv, IInv, TypeOK, TxOK
<1>3. /\ tx[t].request \in Request /\ k \in Key /\ k \in SerializedKeys
      /\ k = <<e.scope, e.entity>>
  BY <1>1, <1>2, BusyTyped DEF SerializedKeys, KeyOf
<1>4. e \in AllEntries
  <2>1. PICK now \in 0 .. MaxClock : tx[t].prepared = Prepared(tx[t].request, now)
    BY <1>1, <1>2 DEF Known, PreparedAt
  <2>2. e \in EntriesOf(tx[t].request) BY <2>1 DEF EntriesOf
  <2> QED BY <1>3, <2>2 DEF AllEntries
<1>5. \A f \in {f \in ledger : Serialized(LedgerKey(f))} :
        f.scope = e.scope => f.version.mutation # e.version.mutation
  <2>1. ~Processed(tx[t].request.scope, tx[t].request.mutation)
    BY <1>1, <1>2 DEF ClaimedIsNew, NewAt, AfterClaim, AfterPantry, AfterHouse, AfterScope,
      Statement
  <2>2. PICK now \in 0 .. MaxClock : tx[t].prepared = Prepared(tx[t].request, now)
    BY <1>1, <1>2 DEF Known, PreparedAt
  <2>3. e.version.mutation = tx[t].request.mutation BY <2>2 DEF Prepared
  <2> QED BY <2>1, <2>3 DEF Processed
<1>6. /\ tx[t].found = items[k]
      /\ tx[t].value = Outcome(e.entity, e.version, items[k])
      /\ ~LinksExceeded(e.entity, e.version, items[k])
  BY <1>1, <1>2 DEF Fresh, Fits, Deciding
<1>7. {f \in ledger : Serialized(LedgerKey(f))}'
        = {f \in ledger : Serialized(LedgerKey(f))} \cup {e}
  <2>1. ledger' = ledger \cup {e} BY DEF Commit
  <2>2. Serialized(LedgerKey(e)) BY <1>3 DEF LedgerKey
  <2>3. \A f : Serialized(LedgerKey(f))' <=> Serialized(LedgerKey(f))
    BY DEF Serialized, LedgerKey
  <2> QED BY <2>1, <2>2, <2>3
<1>8. [j \in SerializedKeys |-> items[j]]'
        = IF tx[t].value = NoItem THEN [j \in SerializedKeys |-> items[j]]
          ELSE [[j \in SerializedKeys |-> items[j]] EXCEPT ![k] = tx[t].value]
  <2>1. Wrote(t) <=> tx[t].value # NoItem BY <1>1, <1>2 DEF Wrote, Numbered
  <2>2. items' = IF tx[t].value = NoItem THEN items ELSE [items EXCEPT ![k] = tx[t].value]
    BY <2>1 DEF Commit
  <2>3. SerializedKeys \subseteq DOMAIN items BY <1>2 DEF SerializedKeys, TypeOK
  <2> QED BY <1>3, <2>2, <2>3
<1>9. [j \in SerializedKeys |-> items[j]][k] = items[k] BY <1>3
<1>10. Store!EntryKey(e) = k BY <1>3 DEF Store!EntryKey
<1> HIDE DEF k, e
<1>11. PICK entry \in AllEntries : entry = e BY <1>4
<1>12. Store!Apply(entry)
  BY <1>3, <1>5, <1>6, <1>7, <1>8, <1>9, <1>10, <1>11, SameOutcome DEF Store!Apply
<1> QED BY <1>12

(* Any other step that leaves rows and ledger alone is no step of it.      *)
LEMMA Stutters ==
  ASSUME UNCHANGED <<items, ledger>>
  PROVE  UNCHANGED Store!storeVars
BY DEF Store!storeVars, LedgerKey, Serialized

(* A commit on another key is none either.                                 *)
LEMMA OtherCommitStutters ==
  ASSUME RInv, NEW t \in Tx, Commit(t), ~Serialized(KeyOf(t))
  PROVE  UNCHANGED Store!storeVars
<1>1. TypeOK BY DEF RInv, IInv
<1>2. [k \in SerializedKeys |-> items[k]]' = [k \in SerializedKeys |-> items[k]]
  <2>1. KeyOf(t) \notin SerializedKeys BY DEF SerializedKeys
  <2>2. \A k \in SerializedKeys : k \in Key /\ items'[k] = items[k]
    BY <1>1, <2>1 DEF Commit, TypeOK, SerializedKeys
  <2> QED BY <2>2
<1>3. {e \in ledger : Serialized(LedgerKey(e))}' = {e \in ledger : Serialized(LedgerKey(e))}
  <2> DEFINE e == [scope |-> tx[t].request.scope, entity |-> tx[t].request.entity,
                   version |-> tx[t].prepared]
  <2>1. ledger' = ledger \cup {e} BY DEF Commit
  <2>2. ~Serialized(LedgerKey(e)) BY DEF LedgerKey, KeyOf
  <2>3. \A f : Serialized(LedgerKey(f))' <=> Serialized(LedgerKey(f))
    BY DEF Serialized, LedgerKey
  <2> QED BY <2>1, <2>2, <2>3
<1> QED BY <1>2, <1>3 DEF Store!storeVars

(* The deletion of a house wipes its scope, if there is anything to wipe.  *)
LEMMA LeaveWipes ==
  ASSUME RInv, NEW u \in User, LeaveHouse(u)
  PROVE  \/ \E k \in SerializedKeys : Store!Wipe(k[1])
         \/ UNCHANGED Store!storeVars
<1> DEFINE h == member[u]
<1>1. TypeOK BY DEF RInv, IInv
<1>2. h \in House BY <1>1 DEF LeaveHouse, TypeOK
<1>3. CASE UNCHANGED <<items, ledger>>
  BY <1>3, Stutters
<1>4. CASE /\ items' = [k \in Key |-> IF k[1] = h THEN NoItem ELSE items[k]]
           /\ ledger' = {e \in ledger : e.scope # h}
  <2>1. \A f : Serialized(LedgerKey(f))' <=> Serialized(LedgerKey(f))
    BY DEF Serialized, LedgerKey
  <2>2. {e \in ledger : Serialized(LedgerKey(e))}'
          = {e \in {f \in ledger : Serialized(LedgerKey(f))} : e.scope # h}
    BY <1>4, <2>1
  <2>3. [k \in SerializedKeys |-> items[k]]'
          = [k \in SerializedKeys |-> IF k[1] = h THEN NoItem
                                      ELSE [j \in SerializedKeys |-> items[j]][k]]
    <3>1. \A k \in SerializedKeys : k \in Key BY DEF SerializedKeys
    <3>2. \A k \in SerializedKeys : items'[k] = IF k[1] = h THEN NoItem ELSE items[k]
      BY <1>4, <3>1
    <3> QED BY <3>2
  <2>4. CASE Entity # {}
    <3>1. PICK entity \in Entity : TRUE BY <2>4
    <3>2. <<h, entity>> \in SerializedKeys
      BY <1>2, <3>1 DEF SerializedKeys, Serialized, Key, Scope
    <3>3. PICK k \in SerializedKeys : k[1] = h BY <3>2
    <3>4. Store!Wipe(k[1]) BY <2>2, <2>3, <3>3 DEF Store!Wipe
    <3> QED BY <3>4
  <2>5. CASE Entity = {}
    <3>1. Key = {} /\ SerializedKeys = {} BY <2>5 DEF Key, SerializedKeys
    <3>2. ledger = {} BY <1>1, <2>5 DEF TypeOK, LedgerEntry
    <3>3. {e \in ledger : Serialized(LedgerKey(e))}' = {e \in ledger : Serialized(LedgerKey(e))}
      BY <2>2, <3>2
    <3>4. [k \in SerializedKeys |-> items[k]]' = [k \in SerializedKeys |-> items[k]]
      BY <3>1
    <3> QED BY <3>3, <3>4 DEF Store!storeVars
  <2> QED BY <2>4, <2>5
<1> QED BY <1>3, <1>4 DEF LeaveHouse

LEMMA StepRefines ==
  RInv /\ [Next]_vars => [Store!StoreNext]_(Store!storeVars)
<1> SUFFICES ASSUME RInv, [Next]_vars
             PROVE  Store!StoreNext \/ UNCHANGED Store!storeVars
  OBVIOUS
<1>1. ASSUME NEW t \in Tx, Proceed(t)
      PROVE  Store!StoreNext \/ UNCHANGED Store!storeVars
  <2>1. CASE Commit(t) /\ Serialized(KeyOf(t))
    BY <2>1, CommitApplies DEF Store!StoreNext, AllEntries
  <2>2. CASE Commit(t) /\ ~Serialized(KeyOf(t))
    BY <2>2, OtherCommitStutters
  <2>3. CASE ~Commit(t)
    BY <1>1, <2>3, OnlyCommitWrites, Stutters
  <2> QED BY <2>1, <2>2, <2>3
<1>2. ASSUME NEW u \in User, LeaveHouse(u)
      PROVE  Store!StoreNext \/ UNCHANGED Store!storeVars
  BY <1>2, LeaveWipes DEF Store!StoreNext
<1>3. ASSUME UNCHANGED <<items, ledger>>
      PROVE  Store!StoreNext \/ UNCHANGED Store!storeVars
  BY <1>3, Stutters
<1> QED
  BY <1>1, <1>2, <1>3 DEF Next, vars, Crash, Begin, Tick, JoinHouse, ReadChanges, server, tables

(* The statements of applyMutation, interleaved on any number of           *)
(* connections with membership changes and lost connections, are on the    *)
(* serialized keys an atomic store.                                        *)
THEOREM ImplementsStoreHolds == Spec => ImplementsStore
<1>1. Init => Store!StoreInit
  BY DEF Init, Store!StoreInit, SerializedKeys
<1> QED BY <1>1, StepRefines, RefinementInvariant, PTL DEF Spec, ImplementsStore, Store!StoreSpec
=============================================================================
