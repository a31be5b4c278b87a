-------------------------- MODULE SyncClientProofs --------------------------
(***************************************************************************)
(* Theorems about SyncClient, for every set of devices and items, every    *)
(* batch and page size, and every number of edits and faults.              *)
(***************************************************************************)
EXTENDS SyncClient, FiniteSetTheorems, TLAPS

(* TypeOK, by the part of the state it is about.                           *)
LocalOK ==
  /\ now \in Nat /\ edits \in Nat /\ created \subseteq Item
  /\ store \in [Device -> List] /\ disk \in [Device -> List]
  /\ writes \in [Device -> Seq(List)]
  /\ enqueues \in [Device -> Seq(Draft)]
  /\ queue \in [Device -> SUBSET Mutation]
  /\ cursor \in [Device -> Nat]

SyncOK ==
  /\ sync \in [Device -> SyncType]
  /\ faults \in [Device -> Nat] /\ \A d \in Device : faults[d] <= MaxFaults[d]
  /\ requests \in [Attempt -> Requests]

Awaited == \A d \in Device : sync[d].pc = "answer" <=> requests[Current(d)].open

ServerOK ==
  /\ rows \in [{HouseScope} \X Item -> Row]
  /\ done \subseteq [scope : {HouseScope}, entity : Item, version : Version]
  /\ number \in [Item -> Nat]

LEMMA TypeParts ==
  /\ TypeOK <=> LocalOK /\ SyncOK /\ Awaited /\ ServerOK
  /\ TypeOK' <=> LocalOK' /\ SyncOK' /\ Awaited' /\ ServerOK'
BY DEF TypeOK, LocalOK, SyncOK, Awaited, ServerOK

-----------------------------------------------------------------------------
(* Attempts.                                                               *)

LEMMA AttemptPair ==
  ASSUME NEW d \in Device, NEW n \in Nat, n <= MaxFaults[d]
  PROVE  <<d, n>> \in Attempt
BY LimitsTyped DEF Attempt

LEMMA AttemptParts ==
  ASSUME NEW a \in Attempt
  PROVE  a[1] \in Device /\ a[2] \in Nat /\ a[2] <= MaxFaults[a[1]] /\ a = <<a[1], a[2]>>
BY LimitsTyped DEF Attempt

LEMMA CurrentAttempt ==
  ASSUME SyncOK, NEW d \in Device
  PROVE  /\ Current(d) \in Attempt /\ Current(d)[1] = d /\ Current(d)[2] = faults[d]
         /\ \A b \in Device : Current(b) = Current(d) => b = d
BY AttemptPair DEF SyncOK, Current

(* The requests a device has not made yet are closed: what a device waits  *)
(* for after a fault is never an answer to an earlier request.             *)
LaterClosed ==
  \A a \in Attempt : a[2] > faults[a[1]] => ~requests[a].open

(* The batch of a run is with the server, or processed: while the device   *)
(* waits for the answer what is not at the server any more has been        *)
(* processed, and afterwards all of it.                                    *)
BatchSent ==
  \A d \in Device : \A m \in sync[d].batch :
    \/ sync[d].pc = "answer" /\ m \in requests[Current(d)].rest
    \/ Processed(m)

IInv == TypeOK /\ LaterClosed /\ BatchSent

-----------------------------------------------------------------------------
(* The server.                                                             *)

LEMMA EntryType ==
  ASSUME NEW m \in Mutation, now \in Nat, m.item \in Item, DevicesTyped
  PROVE  /\ EntryOf(m) \in [scope : {HouseScope}, entity : Item, version : Version]
         /\ EntryOf(m).version.mutation = m.id
BY DevicesTyped DEF EntryOf, Mutation, Version, EffectiveClientTime

(* What a mutation writes is a version of the row.                         *)
LEMMA OutcomeType ==
  ASSUME NEW e \in Item, NEW v \in Version, NEW found \in Row
  PROVE  Server!Outcome(e, v, found) \in Row
BY NoItemIsNone DEF Server!Outcome, Server!Normalized, Server!StaleMerge,
   Server!UnitesLinks, Server!MergesStale, Row, Version

(* A mutation of the list that is applied is recorded, nothing else is     *)
(* forgotten, and the tables keep their types.                             *)
LEMMA ApplyServer ==
  ASSUME LocalOK, ServerOK, NEW m \in Mutation, Server!Apply(EntryOf(m)), Renumbered
  PROVE  ServerOK' /\ done \subseteq done' /\ EntryOf(m) \in done'
<1> DEFINE e == EntryOf(m)
           k == Server!EntryKey(e)
           value == Server!Outcome(e.entity, e.version, rows[k])
<1>1. now \in Nat /\ m.item \in Item BY DEF LocalOK, Mutation
<1>2. e \in [scope : {HouseScope}, entity : Item, version : Version]
  BY <1>1, EntryType, DevicesTyped
<1>3. k \in {HouseScope} \X Item BY <1>2 DEF Server!EntryKey
<1>4. rows[k] \in Row BY <1>3 DEF ServerOK
<1> HIDE DEF e
<1>5. value \in Row
  <2>1. e.entity \in Item /\ e.version \in Version BY <1>2
  <2> QED BY <2>1, <1>4, OutcomeType
<1> HIDE DEF value
<1>6. done' = done \cup {e} BY DEF Server!Apply, e
<1>7. rows' = IF value = NoItem THEN rows ELSE [rows EXCEPT ![k] = value]
  BY DEF Server!Apply, e, value
<1> HIDE DEF k
<1>8. rows' \in [{HouseScope} \X Item -> Row] BY <1>3, <1>5, <1>7 DEF ServerOK
<1>9. number' \in [Item -> Nat]
  <2>1. PICK top \in {0} \cup {number[i] : i \in Item} :
           number' = [i \in Item |-> IF rows'[<<HouseScope, i>>] = rows[<<HouseScope, i>>]
                                     THEN number[i] ELSE top + 1]
    BY DEF Renumbered
  <2>2. top \in Nat BY DEF ServerOK
  <2> QED BY <2>1, <2>2 DEF ServerOK
<1> QED BY <1>2, <1>6, <1>8, <1>9 DEF ServerOK, e

LEMMA ShownType ==
  ASSUME ServerOK, NEW i \in Item
  PROVE  Shown(i) \in Nat
BY DEF ServerOK, Shown, Row, Version

-----------------------------------------------------------------------------
(* Preservation, action by action.                                         *)

(* A step of a device's run that neither starts nor ends the wait for an   *)
(* answer and keeps the batch within what has been processed.              *)
LEMMA RunStep ==
  ASSUME IInv, NEW d \in Device, NEW new \in SyncType,
         sync' = [sync EXCEPT ![d] = new],
         UNCHANGED <<faults, requests, done>>,
         sync[d].pc # "answer", new.pc # "answer",
         new.batch \subseteq sync[d].batch,
         LocalOK', ServerOK'
  PROVE  IInv'
<1> USE DEF IInv
<1>0. SyncOK /\ Awaited BY TypeParts
<1>1. SyncOK' BY <1>0 DEF SyncOK
<1>2. Awaited' BY <1>0 DEF Awaited, Current, SyncOK
<1>3. LaterClosed' BY DEF LaterClosed
<1>4. BatchSent'
  <2> SUFFICES ASSUME NEW b \in Device, NEW m \in sync'[b].batch
               PROVE  \/ sync'[b].pc = "answer" /\ m \in requests'[Current(b)'].rest
                      \/ Processed(m)'
    BY DEF BatchSent
  <2>1. m \in sync[b].batch BY <1>0 DEF SyncOK
  <2>2. Processed(m) => Processed(m)' BY DEF Processed
  <2>3. \/ sync[b].pc = "answer" /\ m \in requests[Current(b)].rest
        \/ Processed(m)
    BY <2>1 DEF BatchSent
  <2>4. CASE b = d BY <2>2, <2>3, <2>4
  <2>5. CASE b # d BY <1>0, <2>2, <2>3, <2>5 DEF SyncOK, Current
  <2> QED BY <2>4, <2>5
<1> QED BY <1>1, <1>2, <1>3, <1>4, TypeParts

(* A step that changes only what the device keeps.                         *)
LEMMA LocalStep ==
  ASSUME IInv, LocalOK', UNCHANGED <<sync, faults, requests, server>>
  PROVE  IInv'
BY TypeParts
DEF IInv, SyncOK, Awaited, ServerOK, LaterClosed, BatchSent, Processed, Current, server

(* A fault: the run is over, and its request is not the current one any    *)
(* more.                                                                   *)
LEMMA FaultStep ==
  ASSUME IInv, NEW d \in Device, faults[d] < MaxFaults[d],
         sync' = [sync EXCEPT ![d] = Idle],
         faults' = [faults EXCEPT ![d] = @ + 1],
         UNCHANGED <<requests, server>>, LocalOK'
  PROVE  IInv'
<1> USE DEF IInv
<1>0. SyncOK /\ Awaited /\ ServerOK BY TypeParts
<1>1. Idle \in SyncType /\ Idle.pc # "answer" /\ Idle.batch = {}
  BY DEF Idle, SyncType, List
<1>2. SyncOK' BY <1>0, <1>1, LimitsTyped DEF SyncOK
<1>3. Awaited'
  <2>1. ~requests[<<d, faults[d] + 1>>].open
    <3>1. <<d, faults[d] + 1>> \in Attempt
      BY <1>0, AttemptPair, LimitsTyped DEF SyncOK
    <3> QED BY <1>0, <3>1 DEF LaterClosed, SyncOK
  <2> SUFFICES ASSUME NEW b \in Device
               PROVE  sync'[b].pc = "answer" <=> requests'[Current(b)'].open
    BY DEF Awaited
  <2>2. CASE b = d BY <1>0, <1>1, <2>1, <2>2 DEF Current, SyncOK
  <2>3. CASE b # d BY <1>0, <2>3 DEF Current, SyncOK, Awaited
  <2> QED BY <2>2, <2>3
<1>4. LaterClosed'
  BY <1>0, AttemptParts DEF LaterClosed, SyncOK
<1>5. BatchSent'
  <2> SUFFICES ASSUME NEW b \in Device, NEW m \in sync'[b].batch
               PROVE  \/ sync'[b].pc = "answer" /\ m \in requests'[Current(b)'].rest
                      \/ Processed(m)'
    BY DEF BatchSent
  <2>1. b # d BY <1>0, <1>1 DEF SyncOK
  <2>2. m \in sync[b].batch /\ sync'[b] = sync[b] /\ Current(b)' = Current(b)
    BY <1>0, <2>1 DEF SyncOK, Current
  <2>3. Processed(m) => Processed(m)' BY DEF Processed, server
  <2> QED BY <2>2, <2>3 DEF BatchSent
<1>6. ServerOK' BY <1>0 DEF ServerOK, server
<1> QED BY <1>2, <1>3, <1>4, <1>5, <1>6, TypeParts

(* The user edits the list.                                                *)
LEMMA EditLocal ==
  ASSUME IInv, NEW d \in Device, NEW i \in Item, NEW deleted \in BOOLEAN,
         PersistAndQueue(d, i, deleted), created' \subseteq Item
  PROVE  IInv'
<1> DEFINE list == [store[d] EXCEPT ![i] = IF deleted THEN 0 ELSE edits + 1]
           m == [id |-> edits + 1, item |-> i, deleted |-> deleted]
<1>0. LocalOK BY TypeParts DEF IInv
<1>1. list \in List BY <1>0 DEF LocalOK, List
<1>2. m \in Draft BY <1>0 DEF LocalOK, Draft
<1>3. writes[d] \in Seq(List) /\ enqueues[d] \in Seq(Draft) BY <1>0 DEF LocalOK
<1>4. /\ edits' = edits + 1 /\ store' = [store EXCEPT ![d] = list]
      /\ writes' = [writes EXCEPT ![d] = Append(writes[d], list)]
      /\ enqueues' = [enqueues EXCEPT ![d] = Append(enqueues[d], m)]
      /\ UNCHANGED <<now, disk, queue, cursor>>
      /\ UNCHANGED <<sync, faults, requests, server>>
  BY DEF PersistAndQueue, server
<1> HIDE DEF list, m
<1>5. Append(writes[d], list) \in Seq(List) BY <1>1, <1>3
<1>6. Append(enqueues[d], m) \in Seq(Draft) BY <1>2, <1>3
<1>7. LocalOK' BY <1>0, <1>1, <1>4, <1>5, <1>6 DEF LocalOK
<1> QED BY <1>4, <1>7, LocalStep

LEMMA UserInv ==
  ASSUME IInv, NEW d \in Device, UserStep(d)
  PROVE  IInv'
<1>0. created \subseteq Item BY DEF IInv, TypeOK
<1>1. PICK i \in Item : AddItem(d, i) \/ UpdateItem(d, i) \/ RemoveItem(d, i)
  BY DEF UserStep
<1>2. CASE AddItem(d, i) BY <1>0, <1>2, EditLocal DEF AddItem
<1>3. CASE UpdateItem(d, i) BY <1>0, <1>3, EditLocal DEF UpdateItem
<1>4. CASE RemoveItem(d, i) BY <1>0, <1>4, EditLocal DEF RemoveItem
<1> QED BY <1>1, <1>2, <1>3, <1>4

(* The chains of writes.                                                   *)
LEMMA ChainInv ==
  ASSUME IInv, NEW d \in Device, Persist(d) \/ Enqueue(d)
  PROVE  IInv'
<1>0. LocalOK /\ SyncOK /\ ServerOK BY TypeParts DEF IInv
<1>1. CASE Persist(d)
  <2>1. writes[d] \in Seq(List) /\ writes[d] # <<>> BY <1>0, <1>1 DEF LocalOK, Persist
  <2>2. Head(writes[d]) \in List /\ Tail(writes[d]) \in Seq(List) BY <2>1
  <2>3. LocalOK' BY <1>0, <1>1, <2>2 DEF LocalOK, Persist
  <2> QED BY <1>1, <2>3, LocalStep DEF Persist, server
<1>2. CASE Enqueue(d)
  <2>1. enqueues[d] \in Seq(Draft) /\ enqueues[d] # <<>>
    BY <1>0, <1>2 DEF LocalOK, Enqueue
  <2>2. Head(enqueues[d]) \in Draft /\ Tail(enqueues[d]) \in Seq(Draft) BY <2>1
  <2>15. Stamped(d, Head(enqueues[d])) \in Mutation
    BY <1>0, <2>2, AheadTyped DEF Stamped, Draft, Mutation, LocalOK
  <2>3. LocalOK' BY <1>0, <1>2, <2>2, <2>15 DEF LocalOK, Enqueue
  <2> DEFINE w == IF sync[d].waits = 0 THEN 0 ELSE sync[d].waits - 1
             new == [sync[d] EXCEPT !.waits = w]
  <2>4. sync[d] \in SyncType /\ sync[d].waits \in Nat BY <1>0 DEF SyncOK, SyncType
  <2>5. w \in Nat BY <2>4
  <2>6. sync' = [sync EXCEPT ![d] = new] BY <1>2 DEF Enqueue
  <2>7. /\ new \in SyncType /\ new.pc = sync[d].pc /\ new.batch = sync[d].batch
    BY <2>4, <2>5 DEF SyncType
  <2> HIDE DEF new
  <2>8. UNCHANGED <<faults, requests, server>> BY <1>2 DEF Enqueue, server
  <2>9. \A b \in Device : sync'[b].pc = sync[b].pc /\ sync'[b].batch = sync[b].batch
    BY <1>0, <2>6, <2>7 DEF SyncOK
  <2>10. SyncOK' BY <1>0, <2>6, <2>7, <2>8 DEF SyncOK
  <2>11. Awaited'
    <3>1. Awaited BY TypeParts DEF IInv
    <3> QED BY <2>8, <2>9, <3>1 DEF Awaited, Current
  <2>12. LaterClosed' BY <2>8 DEF IInv, LaterClosed
  <2>13. BatchSent' BY <2>8, <2>9 DEF IInv, BatchSent, Current, Processed, server
  <2>14. ServerOK' BY <1>0, <2>8 DEF ServerOK, server
  <2> QED BY <2>3, <2>10, <2>11, <2>12, <2>13, <2>14, TypeParts DEF IInv
<1> QED BY <1>1, <1>2

(* Faults.                                                                 *)
LEMMA FaultInv ==
  ASSUME IInv, NEW d \in Device, FailRequest(d) \/ Reload(d)
  PROVE  IInv'
<1>0. LocalOK BY TypeParts DEF IInv
<1>1. CASE FailRequest(d)
  <2>1. LocalOK' BY <1>0, <1>1 DEF FailRequest, local, LocalOK
  <2> QED BY <1>1, <2>1, FaultStep DEF FailRequest
<1>2. CASE Reload(d)
  <2>1. <<>> \in Seq(List) /\ <<>> \in Seq(Draft) OBVIOUS
  <2>2. LocalOK' BY <1>0, <1>2, <2>1 DEF Reload, LocalOK
  <2> QED BY <1>2, <2>2, FaultStep DEF Reload
<1> QED BY <1>1, <1>2

LEMMA StartInv ==
  ASSUME IInv, NEW d \in Device, StartSync(d)
  PROVE  IInv'
<1>0. LocalOK /\ ServerOK BY TypeParts DEF IInv
<1> DEFINE new == [Idle EXCEPT !.pc = "queue", !.from = cursor[d],
                               !.waits = Len(enqueues[d])]
<1>1. cursor[d] \in Nat /\ Len(enqueues[d]) \in Nat BY <1>0 DEF LocalOK
<1>2. new \in SyncType /\ new.pc = "queue" /\ new.batch = {}
  BY <1>1 DEF Idle, SyncType, List
<1>3. sync' = [sync EXCEPT ![d] = new] /\ sync[d].pc = "idle" BY <1>1 DEF StartSync
<1> HIDE DEF new
<1>4. LocalOK' /\ ServerOK' BY <1>0 DEF StartSync, local, server, LocalOK, ServerOK
<1> QED BY <1>2, <1>3, <1>4, RunStep DEF StartSync, server

LEMMA SendInv ==
  ASSUME IInv, NEW d \in Device, SendRequest(d)
  PROVE  IInv'
<1>0. LocalOK /\ SyncOK /\ Awaited /\ ServerOK BY TypeParts DEF IInv
<1>1. Batch(d) \subseteq Mutation BY <1>0 DEF Batch, LocalOK
<1> DEFINE r == [open |-> TRUE, rest |-> Batch(d), from |-> sync[d].from]
           new == [sync[d] EXCEPT !.pc = "answer", !.batch = Batch(d)]
<1>2. sync[d] \in SyncType /\ sync[d].from \in Nat BY <1>0 DEF SyncOK, SyncType
<1>3. r \in Requests /\ r.open /\ r.rest = Batch(d) BY <1>1, <1>2 DEF Requests
<1>4. new \in SyncType /\ new.pc = "answer" /\ new.batch = Batch(d)
  BY <1>1, <1>2 DEF SyncType
<1>5. sync' = [sync EXCEPT ![d] = new] /\ requests' = [requests EXCEPT ![Current(d)] = r]
      /\ UNCHANGED <<faults, server>>
  BY DEF SendRequest
<1> HIDE DEF r, new
<1>6. Current(d) \in Attempt /\ \A b \in Device : Current(b) = Current(d) => b = d
  BY <1>0, CurrentAttempt
<1>a. \A b \in Device : Current(b)' = Current(b) BY <1>5 DEF Current
<1>b. \A b \in Device : Current(b) \in Attempt BY <1>0, CurrentAttempt
<1>7. SyncOK' BY <1>0, <1>3, <1>4, <1>5, <1>6 DEF SyncOK
<1>8. Awaited'
  BY <1>0, <1>3, <1>4, <1>5, <1>6, <1>a, <1>b DEF Awaited, SyncOK
<1>9. LaterClosed'
  <2>1. Current(d)[1] = d /\ Current(d)[2] = faults[d] BY <1>0, CurrentAttempt
  <2>2. faults[d] \in Nat BY <1>0 DEF SyncOK
  <2> SUFFICES ASSUME NEW a \in Attempt, a[2] > faults'[a[1]]
               PROVE  ~requests'[a].open
    BY DEF LaterClosed
  <2>3. a # Current(d) BY <2>1, <2>2, <1>5
  <2> QED BY <1>0, <1>5, <2>3 DEF IInv, LaterClosed, SyncOK
<1>10. BatchSent'
  <2> SUFFICES ASSUME NEW b \in Device, NEW m \in sync'[b].batch
               PROVE  \/ sync'[b].pc = "answer" /\ m \in requests'[Current(b)'].rest
                      \/ Processed(m)'
    BY DEF BatchSent
  <2>1. CASE b = d BY <1>0, <1>3, <1>4, <1>5, <1>6, <1>a, <2>1 DEF SyncOK
  <2>2. CASE b # d
    <3>1. m \in sync[b].batch /\ sync'[b] = sync[b] BY <1>0, <1>5, <2>2 DEF SyncOK
    <3>2. requests'[Current(b)'] = requests[Current(b)]
      BY <1>0, <1>5, <1>6, <1>a, <1>b, <2>2 DEF SyncOK
    <3>3. Processed(m) => Processed(m)' BY <1>5 DEF Processed, server
    <3> QED BY <3>1, <3>2, <3>3 DEF IInv, BatchSent
  <2> QED BY <2>1, <2>2
<1>11. LocalOK' /\ ServerOK'
  BY <1>0, <1>5 DEF SendRequest, local, server, LocalOK, ServerOK
<1> QED BY <1>7, <1>8, <1>9, <1>10, <1>11, TypeParts DEF IInv

(* The steps of a run other than the request.                              *)
LEMMA MergedType ==
  ASSUME NEW list \in List, NEW changes \in SUBSET Change
  PROVE  Merged(list, changes) \in List
<1> SUFFICES ASSUME NEW i \in Item
             PROVE  (IF \E c \in changes : c.item = i
                     THEN (CHOOSE c \in changes : c.item = i).shown ELSE list[i]) \in Nat
  BY DEF Merged, List
<1>1. CASE \E c \in changes : c.item = i
  <2>1. (CHOOSE c \in changes : c.item = i) \in changes BY <1>1
  <2> QED BY <1>1, <2>1 DEF Change
<1>2. CASE ~\E c \in changes : c.item = i BY <1>2 DEF List
<1> QED BY <1>1, <1>2

LEMMA RunInv ==
  ASSUME IInv, NEW d \in Device, SyncStep(d)
  PROVE  IInv'
<1>0. LocalOK /\ SyncOK /\ ServerOK BY TypeParts DEF IInv
<1>1. sync[d] \in SyncType BY <1>0 DEF SyncOK
<1>2. CASE SendRequest(d) BY <1>2, SendInv
<1>3. CASE ReadList(d)
  <2> DEFINE list == Merged(disk[d], sync[d].changes)
             new == [sync[d] EXCEPT !.pc = "write", !.list = list]
  <2>1. list \in List BY <1>0, <1>1, MergedType DEF LocalOK, SyncType
  <2> HIDE DEF list
  <2>2. new \in SyncType /\ new.pc = "write" /\ new.batch = sync[d].batch
    BY <1>1, <2>1 DEF SyncType
  <2>3. sync' = [sync EXCEPT ![d] = new] /\ sync[d].pc = "read"
        /\ UNCHANGED <<local, faults, requests, server>>
    BY <1>3 DEF ReadList, list
  <2> HIDE DEF new
  <2>4. LocalOK' /\ ServerOK' BY <1>0, <2>3 DEF local, server, LocalOK, ServerOK
  <2> QED BY <2>2, <2>3, <2>4, RunStep DEF server
<1>4. CASE NothingToApply(d)
  <2> DEFINE new == [sync[d] EXCEPT !.pc = "advance"]
  <2>1. new \in SyncType /\ new.pc = "advance" /\ new.batch = sync[d].batch
    BY <1>1 DEF SyncType
  <2>2. sync' = [sync EXCEPT ![d] = new] /\ sync[d].pc = "read"
        /\ UNCHANGED <<local, faults, requests, server>>
    BY <1>4 DEF NothingToApply, Goto
  <2> HIDE DEF new
  <2>3. LocalOK' /\ ServerOK' BY <1>0, <2>2 DEF local, server, LocalOK, ServerOK
  <2> QED BY <2>1, <2>2, <2>3, RunStep DEF server
<1>5. CASE WriteList(d)
  <2> DEFINE new == [sync[d] EXCEPT !.pc = "listen"]
  <2>1. new \in SyncType /\ new.pc = "listen" /\ new.batch = sync[d].batch
    BY <1>1 DEF SyncType
  <2>2. sync' = [sync EXCEPT ![d] = new] /\ sync[d].pc = "write"
        /\ UNCHANGED <<faults, requests, server>>
    BY <1>5 DEF WriteList, Goto
  <2> HIDE DEF new
  <2>3. LocalOK' /\ ServerOK'
    BY <1>0, <1>1, <1>5 DEF WriteList, server, LocalOK, ServerOK, SyncType
  <2> QED BY <2>1, <2>2, <2>3, RunStep DEF server
<1>6. CASE NotifyStore(d)
  <2> DEFINE new == [sync[d] EXCEPT !.pc = "advance"]
  <2>1. new \in SyncType /\ new.pc = "advance" /\ new.batch = sync[d].batch
    BY <1>1 DEF SyncType
  <2>2. sync' = [sync EXCEPT ![d] = new] /\ sync[d].pc = "listen"
        /\ UNCHANGED <<faults, requests, server>>
    BY <1>6 DEF NotifyStore, Goto
  <2> HIDE DEF new
  <2>3. LocalOK' /\ ServerOK'
    BY <1>0, <1>1, <1>6 DEF NotifyStore, server, LocalOK, ServerOK, SyncType
  <2> QED BY <2>1, <2>2, <2>3, RunStep DEF server
<1>7. CASE WriteCursor(d)
  <2> DEFINE next == IF sync[d].next > sync[d].from THEN sync[d].next ELSE sync[d].from
             new == [sync[d] EXCEPT !.pc = "delete", !.from = next]
  <2>1. next \in Nat BY <1>1 DEF SyncType
  <2>2. sync' = [sync EXCEPT ![d] = new] /\ sync[d].pc = "advance"
        /\ cursor' = [cursor EXCEPT ![d] = next]
        /\ UNCHANGED <<faults, requests, server>>
        /\ UNCHANGED <<now, edits, created, store, disk, writes, enqueues, queue>>
    BY <1>7 DEF WriteCursor
  <2> HIDE DEF next
  <2>3. new \in SyncType /\ new.pc = "delete" /\ new.batch = sync[d].batch
    BY <1>1, <2>1 DEF SyncType
  <2> HIDE DEF new
  <2>4. LocalOK' /\ ServerOK' BY <1>0, <2>1, <2>2 DEF server, LocalOK, ServerOK
  <2> QED BY <2>2, <2>3, <2>4, RunStep DEF server
<1>8. CASE DeleteQueued(d)
  <2>1. PICK m \in sync[d].batch :
           /\ queue' = [queue EXCEPT ![d] = @ \ {m}]
           /\ sync' = [sync EXCEPT ![d].batch = @ \ {m}]
    BY <1>8 DEF DeleteQueued
  <2> DEFINE new == [sync[d] EXCEPT !.batch = sync[d].batch \ {m}]
  <2>2. /\ new \in SyncType /\ new.pc = sync[d].pc
        /\ new.batch \subseteq sync[d].batch
    BY <1>1 DEF SyncType
  <2>3. sync' = [sync EXCEPT ![d] = new] /\ sync[d].pc = "delete"
        /\ UNCHANGED <<faults, requests, server>>
        /\ UNCHANGED <<now, edits, created, store, disk, writes, enqueues, cursor>>
    BY <1>8, <2>1 DEF DeleteQueued
  <2> HIDE DEF new
  <2>4. LocalOK' /\ ServerOK' BY <1>0, <2>1, <2>3 DEF server, LocalOK, ServerOK
  <2> QED BY <2>2, <2>3, <2>4, RunStep DEF server
<1>9. CASE FinishSync(d)
  <2>1. Idle \in SyncType /\ Idle.pc = "idle" /\ Idle.batch = {}
    BY DEF Idle, SyncType, List
  <2>2. LocalOK' /\ ServerOK'
    BY <1>0, <1>9 DEF FinishSync, local, server, LocalOK, ServerOK
  <2> QED BY <1>9, <2>1, <2>2, RunStep DEF FinishSync, server
<1>10. CASE NextPage(d)
  <2> DEFINE pages == sync[d].pages + 1
             new == [sync[d] EXCEPT !.pc = "queue", !.pages = pages]
  <2>a. pages \in Nat BY <1>1 DEF SyncType
  <2>b. sync' = [sync EXCEPT ![d] = new] BY <1>10 DEF NextPage
  <2> HIDE DEF pages
  <2>1. new \in SyncType /\ new.pc = "queue" /\ new.batch = sync[d].batch
    BY <1>1, <2>a DEF SyncType
  <2>2. sync' = [sync EXCEPT ![d] = new] /\ sync[d].pc = "delete"
        /\ UNCHANGED <<local, faults, requests, server>>
    BY <1>10, <2>b DEF NextPage
  <2> HIDE DEF new
  <2>3. LocalOK' /\ ServerOK' BY <1>0, <2>2 DEF local, server, LocalOK, ServerOK
  <2> QED BY <2>1, <2>2, <2>3, RunStep DEF server
<1> QED BY <1>2, <1>3, <1>4, <1>5, <1>6, <1>7, <1>8, <1>9, <1>10 DEF SyncStep

(* The server processes a mutation of a request.                           *)
LEMMA ApplyInv ==
  ASSUME IInv, NEW a \in Attempt, ApplyMutation(a)
  PROVE  IInv'
<1>0. LocalOK /\ SyncOK /\ Awaited /\ ServerOK BY TypeParts DEF IInv
<1>1. PICK m \in requests[a].rest :
         /\ IF Processed(m) THEN UNCHANGED server
            ELSE Server!Apply(EntryOf(m)) /\ Renumbered
         /\ requests' = [requests EXCEPT ![a].rest = @ \ {m}]
  BY DEF ApplyMutation
<1>2. requests[a] \in Requests /\ m \in Mutation BY <1>0 DEF SyncOK, Requests
<1>3. ServerOK' /\ done \subseteq done' /\ Processed(m)'
  <2>1. CASE Processed(m) BY <1>0, <1>1, <2>1 DEF server, ServerOK, Processed
  <2>2. CASE ~Processed(m)
    <3>1. ServerOK' /\ done \subseteq done' /\ EntryOf(m) \in done'
      BY <1>0, <1>1, <1>2, <2>2, ApplyServer
    <3>2. EntryOf(m).version.mutation = m.id
      BY <1>0, <1>2, EntryType, DevicesTyped DEF LocalOK, Mutation
    <3> QED BY <3>1, <3>2 DEF Processed
  <2> QED BY <2>1, <2>2
<1> DEFINE r == [requests[a] EXCEPT !.rest = requests[a].rest \ {m}]
<1>4. r \in Requests /\ r.open = requests[a].open /\ r.rest = requests[a].rest \ {m}
  BY <1>2 DEF Requests
<1>5. requests' = [requests EXCEPT ![a] = r] BY <1>1
<1> HIDE DEF r
<1>6. UNCHANGED <<local, sync, faults>> BY DEF ApplyMutation
<1>7. LocalOK' BY <1>0, <1>6 DEF local, LocalOK
<1>8. SyncOK' BY <1>0, <1>4, <1>5, <1>6 DEF SyncOK
<1>9. \A b \in Attempt : requests'[b].open = requests[b].open
  BY <1>0, <1>4, <1>5 DEF SyncOK
<1>10. \A d \in Device : Current(d)' = Current(d) /\ Current(d) \in Attempt
  BY <1>0, <1>6, CurrentAttempt DEF Current
<1>11. Awaited' BY <1>0, <1>6, <1>9, <1>10 DEF Awaited
<1>12. LaterClosed' BY <1>6, <1>9 DEF IInv, LaterClosed
<1>13. BatchSent'
  <2> SUFFICES ASSUME NEW d \in Device, NEW n \in sync[d].batch
               PROVE  \/ sync[d].pc = "answer" /\ n \in requests'[Current(d)].rest
                      \/ Processed(n)'
    BY <1>6, <1>10 DEF BatchSent
  <2>1. Processed(n) => Processed(n)' BY <1>3 DEF Processed
  <2>2. CASE n = m BY <1>3, <2>2
  <2>3. CASE n # m
    <3>1. n \in requests[Current(d)].rest => n \in requests'[Current(d)].rest
      BY <1>0, <1>4, <1>5, <1>10, <2>3 DEF SyncOK
    <3> QED BY <2>1, <3>1 DEF IInv, BatchSent
  <2> QED BY <2>2, <2>3
<1> QED BY <1>3, <1>7, <1>8, <1>11, <1>12, <1>13, TypeParts DEF IInv

(* The server answers: nothing of the batch is left at the server then.    *)
LEMMA AnswerInv ==
  ASSUME IInv, NEW a \in Attempt, Answer(a)
  PROVE  IInv'
<1> DEFINE d == a[1]
           page == Page(requests[a].from)
<1>0. LocalOK /\ SyncOK /\ Awaited /\ ServerOK BY TypeParts DEF IInv
<1>1. d \in Device /\ a = <<d, a[2]>> BY AttemptParts
<1>2. /\ requests[a].open /\ requests[a].rest = {}
      /\ requests' = [requests EXCEPT ![a] = NoRequest]
      /\ UNCHANGED <<local, faults, server>>
  BY DEF Answer
<1>3. NoRequest \in Requests /\ ~NoRequest.open BY DEF NoRequest, Requests
<1>4. LocalOK' /\ ServerOK' BY <1>0, <1>2 DEF local, server, LocalOK, ServerOK
<1>5. LaterClosed' BY <1>0, <1>2, <1>3 DEF IInv, LaterClosed, SyncOK
<1>6. \A b \in Device : Current(b)' = Current(b) /\ Current(b) \in Attempt
  BY <1>0, <1>2, CurrentAttempt DEF Current
<1>7. \A b \in Device : b # d => Current(b) # a BY <1>1 DEF Current
<1>8. \A n : Processed(n) => Processed(n)' BY <1>2 DEF Processed, server
<1>9. CASE a = Current(d)
  <2>1. PICK next \in {requests[a].from} \cup {number[i] : i \in page} :
          sync' = [sync EXCEPT
            ![d].pc = "read", ![d].next = next,
            ![d].more = Cardinality(page) >= PageLimit,
            ![d].changes = {[item |-> i, shown |-> Shown(i)] : i \in page}]
    BY <1>9 DEF Answer
  <2>2. page \subseteq Item BY DEF Page, Pending
  <2>3. next \in Nat BY <1>0, <2>2 DEF SyncOK, Requests, ServerOK
  <2> DEFINE more == Cardinality(page) >= PageLimit
             changes == {[item |-> i, shown |-> Shown(i)] : i \in page}
             new == [sync[d] EXCEPT !.pc = "read", !.next = next, !.more = more,
                                    !.changes = changes]
  <2>4. changes \subseteq Change BY <1>0, <2>2, ShownType DEF Change
  <2>5. more \in BOOLEAN
    <3>1. IsFiniteSet(page) BY <2>2, ItemsPlain, FS_Subset
    <3>2. Cardinality(page) \in Nat BY <3>1, FS_CardinalityType
    <3> QED BY <3>2, LimitsTyped
  <2>6. sync' = [sync EXCEPT ![d] = new] BY <2>1
  <2> HIDE DEF more, changes, page
  <2>7. sync[d] \in SyncType BY <1>0, <1>1 DEF SyncOK
  <2>8. new \in SyncType /\ new.pc = "read" /\ new.batch = sync[d].batch
    BY <2>3, <2>4, <2>5, <2>7 DEF SyncType
  <2> HIDE DEF new
  <2>9. SyncOK' BY <1>0, <1>1, <1>2, <1>3, <2>6, <2>8 DEF SyncOK
  <2>10. Awaited'
    <3> SUFFICES ASSUME NEW b \in Device
                 PROVE  sync'[b].pc = "answer" <=> requests'[Current(b)].open
      BY <1>6 DEF Awaited
    <3>1. CASE b = d
      BY <1>0, <1>1, <1>2, <1>3, <1>9, <2>6, <2>8, <3>1 DEF SyncOK
    <3>2. CASE b # d
      BY <1>0, <1>2, <1>6, <1>7, <2>6, <3>2 DEF SyncOK, Awaited
    <3> QED BY <3>1, <3>2
  <2>11. BatchSent'
    <3> SUFFICES ASSUME NEW b \in Device, NEW m \in sync'[b].batch
                 PROVE  \/ sync'[b].pc = "answer" /\ m \in requests'[Current(b)].rest
                        \/ Processed(m)'
      BY <1>6 DEF BatchSent
    <3>1. m \in sync[b].batch BY <1>0, <2>6, <2>8 DEF SyncOK
    <3>2. CASE b = d
      <4>1. Processed(m) BY <1>2, <1>9, <3>1, <3>2 DEF IInv, BatchSent
      <4> QED BY <1>8, <4>1
    <3>3. CASE b # d
      <4>1. sync'[b] = sync[b] /\ requests'[Current(b)] = requests[Current(b)]
        BY <1>0, <1>2, <1>6, <1>7, <2>6, <3>3 DEF SyncOK
      <4> QED BY <1>8, <3>1, <4>1 DEF IInv, BatchSent
    <3> QED BY <3>2, <3>3
  <2> QED BY <1>4, <1>5, <2>9, <2>10, <2>11, TypeParts DEF IInv
<1>10. CASE a # Current(d)
  <2>1. UNCHANGED sync BY <1>10 DEF Answer
  <2>2. SyncOK' BY <1>0, <1>2, <1>3, <2>1 DEF SyncOK
  <2>3. \A b \in Device : requests'[Current(b)] = requests[Current(b)]
    BY <1>0, <1>2, <1>6, <1>7, <1>10 DEF SyncOK
  <2>4. Awaited' BY <1>0, <1>6, <2>1, <2>3 DEF Awaited
  <2>5. BatchSent' BY <1>6, <1>8, <2>1, <2>3 DEF IInv, BatchSent
  <2> QED BY <1>4, <1>5, <2>2, <2>4, <2>5, TypeParts DEF IInv
<1> QED BY <1>9, <1>10

-----------------------------------------------------------------------------
(* Theorems.                                                               *)

LEMMA InitInv == Init => IInv
<1> SUFFICES ASSUME Init PROVE IInv
  OBVIOUS
<1>1. Idle \in SyncType /\ Idle.pc = "idle" /\ Idle.batch = {}
  BY DEF Idle, SyncType, List
<1>2. NoRequest \in Requests /\ ~NoRequest.open BY DEF NoRequest, Requests
<1>3. LocalOK
  <2>1. <<>> \in Seq(List) /\ <<>> \in Seq(Draft) OBVIOUS
  <2> QED BY <2>1 DEF Init, LocalOK, List
<1>4. SyncOK BY <1>1, <1>2, LimitsTyped DEF Init, SyncOK
<1>5. Awaited BY <1>1, <1>2, <1>4, CurrentAttempt DEF Init, Awaited
<1>6. ServerOK BY DEF Init, Server!StoreInit, ServerOK, Row
<1>7. LaterClosed BY <1>2 DEF Init, LaterClosed
<1>8. BatchSent BY <1>1 DEF Init, BatchSent
<1> QED BY <1>3, <1>4, <1>5, <1>6, <1>7, <1>8, TypeParts DEF IInv

LEMMA NextInv == IInv /\ [Next]_vars => IInv'
<1> SUFFICES ASSUME IInv, [Next]_vars PROVE IInv'
  OBVIOUS
<1>1. ASSUME NEW d \in Device, UserStep(d) PROVE IInv' BY <1>1, UserInv
<1>2. ASSUME NEW d \in Device, Persist(d) \/ Enqueue(d) PROVE IInv' BY <1>2, ChainInv
<1>3. ASSUME NEW d \in Device, StartSync(d) PROVE IInv' BY <1>3, StartInv
<1>4. ASSUME NEW d \in Device, SyncStep(d) PROVE IInv' BY <1>4, RunInv
<1>5. ASSUME NEW d \in Device, FailRequest(d) \/ Reload(d) PROVE IInv'
  BY <1>5, FaultInv
<1>6. ASSUME NEW a \in Attempt, ServerStep(a) PROVE IInv'
  BY <1>6, ApplyInv, AnswerInv DEF ServerStep
<1>7. CASE UNCHANGED vars
  <2>1. LocalOK' BY <1>7, TypeParts DEF IInv, vars, LocalOK
  <2> QED BY <1>7, <2>1, LocalStep DEF vars, server
<1> QED BY <1>1, <1>2, <1>3, <1>4, <1>5, <1>6, <1>7 DEF Next

LEMMA Inductive == Spec => []IInv
BY InitInv, NextInv, PTL DEF Spec

(* Every variable keeps its type, and a device waits for an answer exactly *)
(* while its current request is with the server.                           *)
THEOREM TypeCorrect == Spec => []TypeOK
BY Inductive, PTL DEF IInv

(* No mutation leaves the queue of a device before the server has          *)
(* processed it.                                                           *)
THEOREM QueuedUntilProcessedHolds == Spec => QueuedUntilProcessed
<1>1. IInv /\ [Next]_vars =>
        [\A d \in Device : \A m \in queue[d] \ queue'[d] : Processed(m)]_vars
  <2> SUFFICES ASSUME IInv, Next, NEW d \in Device, NEW m \in queue[d] \ queue'[d]
               PROVE  Processed(m)
    OBVIOUS
  <2>0. LocalOK BY TypeParts DEF IInv
  <2>1. PICK b \in Device : DeleteQueued(b) \/ Enqueue(b)
    <3> SUFFICES ASSUME ~\E b \in Device : DeleteQueued(b) \/ Enqueue(b)
                 PROVE  UNCHANGED queue
      OBVIOUS
    <3>1. ASSUME NEW b \in Device, UserStep(b) PROVE UNCHANGED queue
      BY <3>1 DEF UserStep, AddItem, UpdateItem, RemoveItem, PersistAndQueue
    <3>2. ASSUME NEW b \in Device, Persist(b) \/ StartSync(b) PROVE UNCHANGED queue
      BY <3>2 DEF Persist, StartSync, local
    <3>3. ASSUME NEW b \in Device, SyncStep(b), ~DeleteQueued(b) PROVE UNCHANGED queue
      BY <3>3 DEF SyncStep, SendRequest, ReadList, NothingToApply, WriteList,
                  NotifyStore, WriteCursor, FinishSync, NextPage, local
    <3>4. ASSUME NEW b \in Device, FailRequest(b) \/ Reload(b) PROVE UNCHANGED queue
      BY <3>4 DEF FailRequest, Reload, local
    <3>5. ASSUME NEW a \in Attempt, ServerStep(a) PROVE UNCHANGED queue
      BY <3>5 DEF ServerStep, ApplyMutation, Answer, local
    <3> QED BY <3>1, <3>2, <3>3, <3>4, <3>5 DEF Next
  <2>2. ~Enqueue(b)
    <3> DEFINE new == Stamped(b, Head(enqueues[b]))
    <3>1. Enqueue(b) => queue' = [queue EXCEPT ![b] = @ \cup {new}] BY DEF Enqueue
    <3> HIDE DEF new
    <3> QED BY <2>0, <3>1 DEF LocalOK
  <2>3. sync[b].pc = "delete" /\ m \in sync[b].batch
    BY <2>0, <2>1, <2>2 DEF DeleteQueued, LocalOK
  <2> QED BY <2>3 DEF IInv, BatchSent
<1> QED BY <1>1, Inductive, PTL DEF Spec, QueuedUntilProcessed

-----------------------------------------------------------------------------
(* The cursor and the list of a device whose user does not edit.           *)

(* What the server has up to a number is on the list.                      *)
Behind(list, bound) ==
  \A i \in Item : 0 < number[i] /\ number[i] <= bound => list[i] = Shown(i)

(* A position in the feed is not beyond its last row.                      *)
Reached(bound) == bound = 0 \/ \E i \in Item : bound <= number[i]

(* The changes of a page are all there is from one position to the next;   *)
(* one that has changed since has a number beyond.                         *)
PageOf(changes, from, next) ==
  /\ \A i \in Item : from < number[i] /\ number[i] <= next => \E c \in changes : c.item = i
  /\ \A c \in changes : number[c.item] <= next => c.shown = Shown(c.item)

(* How far a run has come with its page: it is in the run, in the list it  *)
(* is about to write, or on the list, and only then is the cursor moved.   *)
Follows(d) ==
  /\ writes[d] = <<>>
  /\ Reached(cursor[d]) /\ Behind(disk[d], cursor[d])
  /\ sync[d].pc # "idle" => sync[d].from = cursor[d]
  /\ sync[d].pc = "answer" => requests[Current(d)].from = cursor[d]
  /\ sync[d].pc \in {"read", "write", "listen", "advance"} =>
       cursor[d] <= sync[d].next /\ Reached(sync[d].next)
  /\ sync[d].pc = "read" => PageOf(sync[d].changes, cursor[d], sync[d].next)
  /\ sync[d].pc = "write" => Behind(sync[d].list, sync[d].next)
  /\ sync[d].pc \in {"listen", "advance"} => Behind(disk[d], sync[d].next)

AllFollow == \A d \in Device \ Editor : Follows(d)

CInv == IInv /\ AllFollow

(* What Follows says of a device stays true while nothing it is about      *)
(* changes.                                                                *)
LEMMA FollowsKept ==
  ASSUME NEW d \in Device, Follows(d), UNCHANGED server,
         writes'[d] = writes[d], disk'[d] = disk[d], cursor'[d] = cursor[d],
         \/ sync'[d] = Idle
         \/ /\ sync'[d].pc = sync[d].pc /\ sync'[d].from = sync[d].from
            /\ sync'[d].next = sync[d].next /\ sync'[d].changes = sync[d].changes
            /\ sync'[d].list = sync[d].list
            /\ requests'[Current(d)'].from = requests[Current(d)].from
  PROVE  Follows(d)'
<1>1. CASE sync'[d] = Idle
  BY <1>1 DEF Follows, Reached, Behind, Shown, Idle, server
<1>2. CASE sync'[d] # Idle
  BY <1>2 DEF Follows, Reached, Behind, PageOf, Shown, server
<1> QED BY <1>1, <1>2

(* The steps of one device do not touch another.                           *)
LEMMA OthersFollow ==
  ASSUME CInv, NEW d \in Device, UNCHANGED server,
         \A b \in Device \ {d} :
           /\ writes'[b] = writes[b] /\ disk'[b] = disk[b] /\ cursor'[b] = cursor[b]
           /\ sync'[b] = sync[b] /\ faults'[b] = faults[b]
           /\ requests'[Current(b)] = requests[Current(b)],
         d \notin Editor => Follows(d)'
  PROVE  AllFollow'
<1>1. ASSUME NEW b \in Device \ Editor, b # d PROVE Follows(b)'
  <2>1. Follows(b) BY <1>1 DEF CInv, AllFollow
  <2>2. requests'[Current(b)'] = requests[Current(b)] BY <1>1 DEF Current
  <2> QED BY <1>1, <2>1, <2>2, FollowsKept
<1> QED BY <1>1 DEF AllFollow

(* The steps of a device outside its run.                                  *)
LEMMA FollowOutside ==
  ASSUME CInv, NEW d \in Device,
         UserStep(d) \/ Persist(d) \/ Enqueue(d) \/ StartSync(d) \/ FailRequest(d) \/ Reload(d)
  PROVE  AllFollow'
<1>0. LocalOK /\ SyncOK /\ ServerOK BY TypeParts DEF CInv, IInv
<1>1. UNCHANGED server
  BY DEF UserStep, AddItem, UpdateItem, RemoveItem, PersistAndQueue, Persist, Enqueue,
     StartSync, FailRequest, Reload, server
<1>2. requests' = requests
  BY DEF UserStep, AddItem, UpdateItem, RemoveItem, PersistAndQueue, Persist, Enqueue,
     StartSync, FailRequest, Reload
<1>3. \A b \in Device \ {d} :
        /\ writes'[b] = writes[b] /\ disk'[b] = disk[b] /\ cursor'[b] = cursor[b]
        /\ sync'[b] = sync[b] /\ faults'[b] = faults[b]
  <2>1. CASE UserStep(d)
    BY <1>0, <2>1 DEF UserStep, AddItem, UpdateItem, RemoveItem, PersistAndQueue, LocalOK
  <2>2. CASE Persist(d) BY <1>0, <2>2 DEF Persist, LocalOK
  <2>3. CASE Enqueue(d)
    <3>1. \A b \in Device \ {d} : sync'[b] = sync[b] BY <1>0, <2>3 DEF Enqueue, SyncOK
    <3> QED BY <2>3, <3>1 DEF Enqueue
  <2>4. CASE StartSync(d) BY <1>0, <2>4 DEF StartSync, SyncOK, local
  <2>5. CASE FailRequest(d) BY <1>0, <2>5 DEF FailRequest, SyncOK, local
  <2>6. CASE Reload(d) BY <1>0, <2>6 DEF Reload, LocalOK, SyncOK
  <2> QED BY <2>1, <2>2, <2>3, <2>4, <2>5, <2>6
<1>4. ASSUME d \notin Editor PROVE Follows(d)'
  <2>0. Follows(d) BY <1>4 DEF CInv, AllFollow
  <2>1. ~UserStep(d)
    BY <1>4 DEF UserStep, AddItem, UpdateItem, RemoveItem, PersistAndQueue
  <2>2. ~Persist(d) BY <2>0 DEF Persist, Follows
  <2>3. CASE Enqueue(d)
    <3>1. /\ sync'[d].pc = sync[d].pc /\ sync'[d].from = sync[d].from
          /\ sync'[d].next = sync[d].next /\ sync'[d].changes = sync[d].changes
          /\ sync'[d].list = sync[d].list
      BY <1>0, <2>3 DEF Enqueue, SyncOK, SyncType
    <3>2. Current(d)' = Current(d) BY <2>3 DEF Enqueue, Current
    <3> QED BY <1>1, <1>2, <2>0, <2>3, <3>1, <3>2, FollowsKept DEF Enqueue
  <2>4. CASE StartSync(d)
    <3>1. sync'[d].pc = "queue" /\ sync'[d].from = cursor[d] /\ UNCHANGED local
      BY <1>0, <2>4 DEF StartSync, SyncOK, Idle
    <3> QED BY <1>1, <2>0, <3>1 DEF Follows, Reached, Behind, Shown, server, local
  <2>5. CASE FailRequest(d)
    BY <1>0, <1>1, <2>0, <2>5, FollowsKept DEF FailRequest, SyncOK, local
  <2>6. CASE Reload(d)
    <3>1. sync'[d] = Idle /\ writes'[d] = <<>> /\ disk' = disk /\ cursor' = cursor
      BY <1>0, <2>6 DEF Reload, SyncOK, LocalOK
    <3> QED BY <1>1, <2>0, <3>1, FollowsKept DEF Follows
  <2> QED BY <2>1, <2>2, <2>3, <2>4, <2>5, <2>6
<1>5. \A b \in Device \ {d} : requests'[Current(b)] = requests[Current(b)]
  BY <1>2
<1> QED BY <1>1, <1>3, <1>4, <1>5, OthersFollow

(* What becomes of the list by a page.                                     *)
LEMMA MergedBehind ==
  ASSUME LocalOK, ServerOK, NEW list \in List, NEW changes \in SUBSET Change,
         NEW from \in Nat, NEW next \in Nat,
         Behind(list, from), PageOf(changes, from, next)
  PROVE  Behind(Merged(list, changes), next)
<1> SUFFICES ASSUME NEW i \in Item, 0 < number[i], number[i] <= next
             PROVE  Merged(list, changes)[i] = Shown(i)
  BY DEF Behind
<1>1. CASE \E c \in changes : c.item = i
  <2> DEFINE c == CHOOSE c \in changes : c.item = i
  <2>1. c \in changes /\ c.item = i BY <1>1
  <2>2. Merged(list, changes)[i] = c.shown BY <1>1 DEF Merged
  <2> HIDE DEF c
  <2> QED BY <2>1, <2>2 DEF PageOf
<1>2. CASE ~\E c \in changes : c.item = i
  <2>1. Merged(list, changes)[i] = list[i] BY <1>2 DEF Merged
  <2>2. ~(from < number[i]) BY <1>2 DEF PageOf
  <2>3. number[i] <= from BY <2>2 DEF ServerOK
  <2> QED BY <2>1, <2>3 DEF Behind
<1> QED BY <1>1, <1>2

(* The steps of a run.                                                     *)
LEMMA FollowRun ==
  ASSUME CInv, NEW d \in Device, SyncStep(d)
  PROVE  AllFollow'
<1>0. LocalOK /\ SyncOK /\ ServerOK BY TypeParts DEF CInv, IInv
<1>1. UNCHANGED server
  BY DEF SyncStep, SendRequest, ReadList, NothingToApply, WriteList, NotifyStore,
     WriteCursor, DeleteQueued, FinishSync, NextPage, server
<1>2. writes' = writes /\ faults' = faults /\ d \in Device
  BY DEF SyncStep, SendRequest, ReadList, NothingToApply, WriteList, NotifyStore,
     WriteCursor, DeleteQueued, FinishSync, NextPage, local
<1>3. \A b \in Device \ {d} : disk'[b] = disk[b] /\ cursor'[b] = cursor[b]
  BY <1>0 DEF SyncStep, SendRequest, ReadList, NothingToApply, WriteList, NotifyStore,
     WriteCursor, DeleteQueued, FinishSync, NextPage, local, LocalOK
<1>4. \A b \in Device \ {d} : sync'[b] = sync[b]
  BY <1>0 DEF SyncStep, SendRequest, ReadList, NothingToApply, WriteList, NotifyStore,
     WriteCursor, DeleteQueued, FinishSync, NextPage, Goto, SyncOK
<1>5. \A b \in Device \ {d} : requests'[Current(b)] = requests[Current(b)]
  <2>1. \A b \in Device \ {d} : Current(b) # Current(d)
    BY <1>0, CurrentAttempt
  <2>2. CASE SendRequest(d)
    BY <1>0, <2>1, <2>2 DEF SendRequest, SyncOK
  <2>3. CASE ~SendRequest(d)
    BY <2>3 DEF SyncStep, ReadList, NothingToApply, WriteList, NotifyStore,
       WriteCursor, DeleteQueued, FinishSync, NextPage
  <2> QED BY <2>2, <2>3
<1>6. ASSUME d \notin Editor PROVE Follows(d)'
  <2>0. Follows(d) /\ writes'[d] = <<>> /\ Current(d)' = Current(d)
    BY <1>2, <1>6 DEF CInv, AllFollow, Follows, Current
  <2>a. /\ sync[d] \in SyncType /\ disk[d] \in List /\ cursor[d] \in Nat
        /\ d \in DOMAIN sync /\ d \in DOMAIN disk /\ d \in DOMAIN cursor
    BY <1>0 DEF SyncOK, LocalOK
  <2>b. Current(d) \in Attempt /\ requests \in [Attempt -> Requests]
    BY <1>0, CurrentAttempt DEF SyncOK
  <2> USE DEF server
  <2>1. CASE SendRequest(d)
    <3>1. sync'[d].pc = "answer" /\ sync'[d].from = sync[d].from /\ UNCHANGED local
      BY <1>0, <2>1, <2>a DEF SendRequest, SyncOK, SyncType
    <3>2. requests'[Current(d)].from = sync[d].from
      BY <2>1, <2>b DEF SendRequest
    <3>3. sync[d].pc = "queue" BY <2>1 DEF SendRequest
    <3> QED BY <1>1, <2>0, <3>1, <3>2, <3>3 DEF Follows, Reached, Behind, Shown, local
  <2>2. CASE ReadList(d)
    <3>1. /\ sync'[d].pc = "write" /\ sync'[d].from = sync[d].from
          /\ sync'[d].next = sync[d].next
          /\ sync'[d].list = Merged(disk[d], sync[d].changes)
          /\ sync[d].pc = "read" /\ UNCHANGED local
      <4> DEFINE list == Merged(disk[d], sync[d].changes)
      <4>1. sync' = [sync EXCEPT ![d].pc = "write", ![d].list = list] BY <2>2 DEF ReadList
      <4> HIDE DEF list
      <4>2. sync'[d] = [sync[d] EXCEPT !.pc = "write", !.list = list] BY <2>a, <4>1
      <4>3. /\ sync'[d].pc = "write" /\ sync'[d].from = sync[d].from
            /\ sync'[d].next = sync[d].next /\ sync'[d].list = list
        BY <2>a, <4>2 DEF SyncType
      <4> QED BY <2>2, <4>3 DEF ReadList, list
    <3>2. Behind(Merged(disk[d], sync[d].changes), sync[d].next)
      BY <1>0, <2>0, <2>a, <3>1, MergedBehind DEF Follows, SyncType
    <3> HIDE DEF server
    <3>3. UNCHANGED <<rows, number>> BY <1>1 DEF server
    <3> DEFINE list == Merged(disk[d], sync[d].changes)
    <3>4. sync'[d].list = list /\ Behind(list, sync[d].next) BY <3>1, <3>2
    <3> HIDE DEF list
    <3> QED BY <2>0, <3>1, <3>3, <3>4 DEF Follows, Reached, Behind, Shown, local
  <2>3. CASE NothingToApply(d)
    <3>1. /\ sync'[d].pc = "advance" /\ sync'[d].from = sync[d].from
          /\ sync'[d].next = sync[d].next /\ sync[d].changes = {}
          /\ sync[d].pc = "read" /\ UNCHANGED local
      BY <2>3, <2>a DEF NothingToApply, Goto, SyncType
    <3>2. Behind(disk[d], sync[d].next)
      BY <1>0, <2>0, <2>a, <3>1 DEF Follows, SyncType, Behind, PageOf, ServerOK
    <3> QED BY <1>1, <2>0, <3>1, <3>2 DEF Follows, Reached, Behind, Shown, local
  <2>4. CASE WriteList(d)
    <3>1. /\ sync'[d].pc = "listen" /\ sync'[d].from = sync[d].from
          /\ sync'[d].next = sync[d].next /\ cursor' = cursor
          /\ sync[d].pc = "write" /\ disk'[d] = sync[d].list
      BY <2>4, <2>a DEF WriteList, Goto, SyncType
    <3>2. Behind(sync[d].list, cursor[d])
      BY <1>0, <2>0, <2>a, <3>1 DEF Follows, SyncType, Behind, ServerOK
    <3> QED BY <1>1, <2>0, <3>1, <3>2 DEF Follows, Reached, Behind, Shown
  <2>5. CASE NotifyStore(d)
    <3>1. /\ sync'[d].pc = "advance" /\ sync'[d].from = sync[d].from
          /\ sync'[d].next = sync[d].next /\ cursor' = cursor
          /\ sync[d].pc = "listen" /\ disk' = disk
      BY <2>5, <2>a DEF NotifyStore, Goto, SyncType
    <3> QED BY <1>1, <2>0, <3>1 DEF Follows, Reached, Behind, Shown
  <2>6. CASE WriteCursor(d)
    <3> DEFINE next == IF sync[d].next > sync[d].from THEN sync[d].next ELSE sync[d].from
    <3>1. sync' = [sync EXCEPT ![d].pc = "delete", ![d].from = next]
          /\ cursor' = [cursor EXCEPT ![d] = next] /\ disk' = disk /\ sync[d].pc = "advance"
      BY <2>6 DEF WriteCursor
    <3>2. next = sync[d].next
      BY <2>0, <2>a, <3>1 DEF Follows, SyncType
    <3> HIDE DEF next
    <3>3. sync'[d].pc = "delete" /\ sync'[d].from = next /\ cursor'[d] = next
      BY <2>a, <3>1 DEF SyncType
    <3> QED BY <1>1, <2>0, <3>1, <3>2, <3>3 DEF Follows, Reached, Behind, Shown
  <2>7. CASE DeleteQueued(d)
    <3>1. PICK m \in sync[d].batch : sync' = [sync EXCEPT ![d].batch = @ \ {m}]
      BY <2>7 DEF DeleteQueued
    <3>2. /\ sync'[d].pc = sync[d].pc /\ sync'[d].from = sync[d].from
          /\ sync'[d].next = sync[d].next /\ sync'[d].changes = sync[d].changes
          /\ sync'[d].list = sync[d].list
      BY <2>a, <3>1 DEF SyncType
    <3> QED BY <1>1, <1>2, <2>0, <2>7, <3>2, FollowsKept DEF DeleteQueued
  <2>8. CASE FinishSync(d)
    BY <1>1, <2>0, <2>8, <2>a, FollowsKept DEF FinishSync, local
  <2>9. CASE NextPage(d)
    <3>1. sync'[d].pc = "queue" /\ sync'[d].from = sync[d].from /\ sync[d].pc = "delete"
          /\ UNCHANGED local
      BY <2>9, <2>a DEF NextPage, SyncType
    <3> QED BY <1>1, <2>0, <3>1 DEF Follows, Reached, Behind, Shown, local
  <2> QED BY <2>1, <2>2, <2>3, <2>4, <2>5, <2>6, <2>7, <2>8, <2>9 DEF SyncStep
<1> QED BY <1>1, <1>2, <1>3, <1>4, <1>5, <1>6, OthersFollow

(* A row keeps its number and what is shown of it, or its number is beyond *)
(* all there were.                                                         *)
FeedGrows ==
  \A i \in Item :
    /\ number[i] <= number'[i]
    /\ \/ number'[i] = number[i] /\ Shown(i)' = Shown(i)
       \/ \A k \in Item : number[k] < number'[i]

LEMMA RenumberedGrows ==
  ASSUME ServerOK, Renumbered
  PROVE  FeedGrows
<1>1. PICK top \in {0} \cup {number[i] : i \in Item} :
         /\ \A i \in Item : number[i] <= top
         /\ number' = [i \in Item |-> IF rows'[<<HouseScope, i>>] = rows[<<HouseScope, i>>]
                                      THEN number[i] ELSE top + 1]
  BY DEF Renumbered
<1>2. top \in Nat /\ number \in [Item -> Nat] BY DEF ServerOK
<1>3. ASSUME NEW i \in Item, rows'[<<HouseScope, i>>] = rows[<<HouseScope, i>>]
      PROVE  number'[i] = number[i] /\ Shown(i)' = Shown(i)
  BY <1>1, <1>3 DEF Shown
<1>4. ASSUME NEW i \in Item, rows'[<<HouseScope, i>>] # rows[<<HouseScope, i>>]
      PROVE  number'[i] = top + 1
  BY <1>1, <1>4
<1> QED BY <1>1, <1>2, <1>3, <1>4 DEF FeedGrows

(* No position that has been reached can see a row that is written now.    *)
LEMMA GrowthUnseen ==
  ASSUME ServerOK, ServerOK', FeedGrows, NEW bound \in Nat, Reached(bound)
  PROVE  /\ Reached(bound)'
         /\ \A i \in Item : 0 < number'[i] /\ number'[i] <= bound =>
              number'[i] = number[i] /\ Shown(i)' = Shown(i)
BY DEF ServerOK, FeedGrows, Reached

LEMMA BehindKept ==
  ASSUME ServerOK, ServerOK', FeedGrows, NEW bound \in Nat, Reached(bound),
         NEW list, Behind(list, bound)
  PROVE  \A i \in Item : 0 < number'[i] /\ number'[i] <= bound => list[i] = Shown(i)'
BY GrowthUnseen DEF Behind

LEMMA PageKept ==
  ASSUME ServerOK, ServerOK', FeedGrows, NEW from \in Nat, NEW next \in Nat, Reached(next),
         NEW changes \in SUBSET Change, PageOf(changes, from, next)
  PROVE  /\ \A i \in Item : from < number'[i] /\ number'[i] <= next =>
              \E c \in changes : c.item = i
         /\ \A c \in changes : number'[c.item] <= next => c.shown = Shown(c.item)'
<1>1. ASSUME NEW i \in Item, number'[i] <= next
      PROVE  number'[i] = number[i] /\ Shown(i)' = Shown(i)
  <2>1. CASE 0 < number'[i] BY <1>1, <2>1, GrowthUnseen
  <2>2. CASE number'[i] = 0
    <3>1. \A k \in Item : number[k] \in Nat BY DEF ServerOK
    <3> QED BY <2>2, <3>1 DEF FeedGrows
  <2> QED BY <2>1, <2>2 DEF ServerOK
<1>2. \A c \in changes : c.item \in Item BY DEF Change
<1> QED BY <1>1, <1>2 DEF PageOf

(* A mutation is written while the devices do anything.                    *)
LEMMA FollowApply ==
  ASSUME CInv, ServerOK', NEW a \in Attempt, ApplyMutation(a)
  PROVE  AllFollow'
<1>0. LocalOK /\ SyncOK /\ ServerOK /\ ServerOK' BY TypeParts DEF CInv, IInv
<1>1. UNCHANGED <<local, sync, faults>> BY DEF ApplyMutation
<1>2. \A b \in Attempt : requests'[b].from = requests[b].from
  <2>1. PICK m : requests' = [requests EXCEPT ![a].rest = @ \ {m}] BY DEF ApplyMutation
  <2> QED BY <1>0, <2>1 DEF SyncOK, Requests
<1>3. CASE UNCHANGED server
  <2>1. ASSUME NEW d \in Device \ Editor PROVE Follows(d)'
    <3>1. Follows(d) /\ Current(d) \in Attempt /\ Current(d)' = Current(d)
      BY <1>0, <1>1, CurrentAttempt DEF CInv, AllFollow, Current
    <3>2. requests'[Current(d)'].from = requests[Current(d)].from BY <1>2, <3>1
    <3> QED BY <1>1, <1>3, <3>1, <3>2, FollowsKept DEF local
  <2> QED BY <2>1 DEF AllFollow
<1>4. CASE ~UNCHANGED server
  <2>0. FeedGrows BY <1>0, <1>4, RenumberedGrows DEF ApplyMutation
  <2>1. ASSUME NEW d \in Device \ Editor PROVE Follows(d)'
    <3>1. Follows(d) /\ Current(d) \in Attempt /\ Current(d)' = Current(d)
      BY <1>0, <1>1, CurrentAttempt DEF CInv, AllFollow, Current
    <3>2. requests'[Current(d)'].from = requests[Current(d)].from BY <1>2, <3>1
    <3>3. cursor[d] \in Nat /\ sync[d].next \in Nat /\ sync[d].changes \in SUBSET Change
      BY <1>0 DEF LocalOK, SyncOK, SyncType
    <3>4. writes' = writes /\ disk' = disk /\ cursor' = cursor /\ sync' = sync
      BY <1>1 DEF local
    <3>5. Reached(cursor[d]) /\ Behind(disk[d], cursor[d]) BY <3>1 DEF Follows
    <3>6. Reached(cursor[d])' /\ Behind(disk[d], cursor[d])'
      <4>1. Reached(cursor[d])'
        BY <1>0, <2>0, <3>3, <3>4, <3>5, GrowthUnseen DEF Reached
      <4>2. \A i \in Item : 0 < number'[i] /\ number'[i] <= cursor[d] =>
              disk[d][i] = Shown(i)'
        BY <1>0, <2>0, <3>3, <3>5, BehindKept
      <4> QED BY <3>4, <4>1, <4>2 DEF Behind
    <3>7. ASSUME sync[d].pc \in {"read", "write", "listen", "advance"}
          PROVE  cursor[d] <= sync[d].next /\ Reached(sync[d].next) /\ Reached(sync[d].next)'
      <4>1. cursor[d] <= sync[d].next /\ Reached(sync[d].next) BY <3>1, <3>7 DEF Follows
      <4> QED BY <1>0, <2>0, <3>3, <3>4, <4>1, GrowthUnseen DEF Reached
    <3>8. ASSUME sync[d].pc = "read"
          PROVE  PageOf(sync[d].changes, cursor[d], sync[d].next)'
      <4>1. PageOf(sync[d].changes, cursor[d], sync[d].next) BY <3>1, <3>8 DEF Follows
      <4> DEFINE changes == sync[d].changes
                 next == sync[d].next
      <4>2. changes \in SUBSET Change /\ next \in Nat /\ Reached(next)
            /\ PageOf(changes, cursor[d], next)
        BY <3>3, <3>7, <3>8, <4>1
      <4>3. sync'[d].changes = changes /\ sync'[d].next = next /\ cursor'[d] = cursor[d]
        BY <3>4
      <4> HIDE DEF changes, next
      <4>4. /\ \A i \in Item : cursor[d] < number'[i] /\ number'[i] <= next =>
                 \E c \in changes : c.item = i
            /\ \A c \in changes : number'[c.item] <= next => c.shown = Shown(c.item)'
        BY <1>0, <2>0, <3>3, <4>2, PageKept
      <4> QED BY <4>3, <4>4 DEF PageOf
    <3>9. ASSUME sync[d].pc = "write"
          PROVE  Behind(sync[d].list, sync[d].next)'
      <4>1. Behind(sync[d].list, sync[d].next) BY <3>1, <3>9 DEF Follows
      <4>2. \A i \in Item : 0 < number'[i] /\ number'[i] <= sync[d].next =>
              sync[d].list[i] = Shown(i)'
        BY <1>0, <2>0, <3>3, <3>7, <3>9, <4>1, BehindKept
      <4> QED BY <3>4, <4>2 DEF Behind
    <3>10. ASSUME sync[d].pc \in {"listen", "advance"}
           PROVE  Behind(disk[d], sync[d].next)'
      <4>1. Behind(disk[d], sync[d].next) BY <3>1, <3>10 DEF Follows
      <4>2. \A i \in Item : 0 < number'[i] /\ number'[i] <= sync[d].next =>
              disk[d][i] = Shown(i)'
        BY <1>0, <2>0, <3>3, <3>7, <3>10, <4>1, BehindKept
      <4> QED BY <3>4, <4>2 DEF Behind
    <3> QED BY <3>1, <3>2, <3>4, <3>6, <3>7, <3>8, <3>9, <3>10 DEF Follows
  <2> QED BY <2>1 DEF AllFollow
<1> QED BY <1>3, <1>4

(* A page ends where it ends: every row up to its last number is on it.    *)
LEMMA PageHasNoGaps ==
  ASSUME ServerOK, NEW from \in Nat, NEW next \in Nat,
         next \in {from} \cup {number[i] : i \in Page(from)},
         \A i \in Page(from) : number[i] <= next,
         Page(from) # {} => next # from
  PROVE  /\ from <= next
         /\ \A i \in Item : from < number[i] /\ number[i] <= next => i \in Page(from)
<1>0. Page(from) \subseteq Pending(from) /\ Pending(from) \subseteq Item
  BY DEF Page, Pending
<1>1. from <= next BY <1>0 DEF Pending, ServerOK
<1>2. ASSUME NEW i \in Item, from < number[i], number[i] <= next
      PROVE  i \in Page(from)
  <2>1. next # from BY <1>2 DEF ServerOK
  <2>2. PICK k \in Page(from) : number[k] = next BY <2>1
  <2> DEFINE S(j) == {n \in Pending(from) : number[n] < number[j]}
  <2>3. k \in Item /\ Cardinality(S(k)) < PageLimit BY <1>0 DEF Page
  <2>4. IsFiniteSet(S(k)) BY <1>0, ItemsPlain, FS_Subset
  <2>5. S(i) \subseteq S(k) BY <1>0, <1>2, <2>2, <2>3 DEF ServerOK
  <2>6. IsFiniteSet(S(i)) /\ Cardinality(S(i)) <= Cardinality(S(k))
    BY <2>4, <2>5, FS_Subset
  <2>7. Cardinality(S(i)) \in Nat /\ Cardinality(S(k)) \in Nat
    BY <2>4, <2>6, FS_CardinalityType
  <2>8. Cardinality(S(i)) < PageLimit BY <2>3, <2>6, <2>7, LimitsTyped
  <2>9. i \in Pending(from) BY <1>2 DEF Pending
  <2> QED BY <2>8, <2>9 DEF Page
<1> QED BY <1>1, <1>2

(* The answer reaches the device that waits for it.                        *)
LEMMA FollowAnswer ==
  ASSUME CInv, NEW a \in Attempt, Answer(a)
  PROVE  AllFollow'
<1>0. LocalOK /\ SyncOK /\ ServerOK /\ Awaited BY TypeParts DEF CInv, IInv
<1>1. UNCHANGED server /\ UNCHANGED local /\ faults' = faults BY DEF Answer
<1>2. requests' = [requests EXCEPT ![a] = NoRequest] BY DEF Answer
<1> DEFINE d == a[1]
           page == Page(requests[a].from)
<1>3. d \in Device BY AttemptParts
<1>4. CASE a # Current(d)
  <2>1. sync' = sync BY <1>4 DEF Answer
  <2>2. ASSUME NEW b \in Device \ Editor PROVE Follows(b)'
    <3>1. Follows(b) BY DEF CInv, AllFollow
    <3>2. Current(b)[1] = b /\ Current(b) \in Attempt BY <1>0, CurrentAttempt
    <3>3. a # Current(b) BY <1>4, <3>2
    <3>4. requests'[Current(b)'] = requests[Current(b)]
      BY <1>0, <1>1, <1>2, <3>2, <3>3 DEF Current, SyncOK
    <3> QED BY <1>1, <2>1, <3>1, <3>4, FollowsKept DEF local
  <2> QED BY <2>2 DEF AllFollow
<1>5. CASE a = Current(d)
  <2>1. PICK next \in {requests[a].from} \cup {number[i] : i \in page} :
          /\ \A i \in page : number[i] <= next
          /\ page # {} => next # requests[a].from
          /\ sync' = [sync EXCEPT
               ![d].pc = "read", ![d].next = next,
               ![d].more = Cardinality(page) >= PageLimit,
               ![d].changes = {[item |-> i, shown |-> Shown(i)] : i \in page}]
    BY <1>5 DEF Answer
  <2>2. \A b \in Device \ {d} : sync'[b] = sync[b] BY <1>0, <2>1 DEF SyncOK
  <2>3. \A b \in Device \ {d} : requests'[Current(b)] = requests[Current(b)]
    <3>1. \A b \in Device \ {d} : Current(b) # a BY <1>0, <1>3, <1>5, CurrentAttempt
    <3> QED BY <1>0, <1>2, <3>1, CurrentAttempt DEF SyncOK
  <2>4. ASSUME d \notin Editor PROVE Follows(d)'
    <3>1. Follows(d) BY <1>3, <2>4 DEF CInv, AllFollow
    <3>2. sync[d].pc = "answer"
      <4>1. requests[a].open BY DEF Answer
      <4> QED BY <1>0, <1>3, <1>5, <4>1 DEF Awaited
    <3>3. requests[a].from = cursor[d] /\ sync[d].from = cursor[d] /\ writes[d] = <<>>
      BY <1>5, <3>1, <3>2 DEF Follows
    <3> DEFINE changes == {[item |-> i, shown |-> Shown(i)] : i \in page}
    <3>4. page \subseteq Item BY DEF Page, Pending
    <3>5. cursor[d] \in Nat /\ next \in Nat /\ sync[d] \in SyncType
      BY <1>0, <1>3, <2>1, <3>3, <3>4 DEF LocalOK, ServerOK, SyncOK
    <3>6. /\ cursor[d] <= next
          /\ \A i \in Item : cursor[d] < number[i] /\ number[i] <= next => i \in page
      BY <1>0, <2>1, <3>3, <3>5, PageHasNoGaps
    <3>7. Reached(next)
      <4>1. CASE next = cursor[d] BY <3>1, <4>1 DEF Follows
      <4>2. CASE next # cursor[d]
        <5>1. PICK i \in page : next = number[i] BY <2>1, <3>3, <4>2
        <5> QED BY <1>0, <3>4, <5>1 DEF Reached, ServerOK
      <4> QED BY <4>1, <4>2
    <3>8. PageOf(changes, cursor[d], next)
      <4>1. ASSUME NEW i \in Item, cursor[d] < number[i], number[i] <= next
            PROVE  \E c \in changes : c.item = i
        <5>1. i \in page BY <3>6, <4>1
        <5>2. [item |-> i, shown |-> Shown(i)] \in changes BY <5>1
        <5>3. [item |-> i, shown |-> Shown(i)].item = i OBVIOUS
        <5> QED BY <5>2, <5>3
      <4>2. \A c \in changes : c.shown = Shown(c.item) OBVIOUS
      <4> HIDE DEF changes
      <4> QED BY <4>1, <4>2 DEF PageOf
    <3>9. /\ sync'[d].pc = "read" /\ sync'[d].next = next
          /\ sync'[d].changes = changes /\ sync'[d].from = sync[d].from
      <4> DEFINE more == Cardinality(page) >= PageLimit
      <4>1. sync' = [sync EXCEPT ![d].pc = "read", ![d].next = next, ![d].more = more,
                                 ![d].changes = changes]
        BY <2>1
      <4> HIDE DEF more, changes
      <4>2. sync'[d] = [sync[d] EXCEPT !.pc = "read", !.next = next, !.more = more,
                                       !.changes = changes]
        BY <1>0, <1>3, <4>1 DEF SyncOK
      <4> QED BY <3>5, <4>2 DEF SyncType
    <3> HIDE DEF changes, page, d
    <3>10. writes' = writes /\ disk' = disk /\ cursor' = cursor BY <1>1 DEF local
    <3>11. number' = number /\ rows' = rows BY <1>1 DEF server
    <3> QED BY <3>1, <3>3, <3>6, <3>7, <3>8, <3>9, <3>10, <3>11
         DEF Follows, Reached, Behind, PageOf, Shown
  <2>5. \A b \in Device \ {d} :
          /\ writes'[b] = writes[b] /\ disk'[b] = disk[b] /\ cursor'[b] = cursor[b]
          /\ sync'[b] = sync[b] /\ faults'[b] = faults[b]
    BY <1>1, <2>2 DEF local
  <2> HIDE DEF d
  <2> QED BY <1>1, <1>3, <2>3, <2>4, <2>5, OthersFollow
<1> QED BY <1>4, <1>5

LEMMA FollowInit == Init => AllFollow
BY DevicesTyped DEF Init, AllFollow, Follows, Reached, Behind, Idle

LEMMA FollowNext ==
  ASSUME CInv, IInv', [Next]_vars
  PROVE  AllFollow'
<1>1. ASSUME NEW d \in Device,
             \/ UserStep(d) \/ Persist(d) \/ Enqueue(d) \/ StartSync(d)
             \/ FailRequest(d) \/ Reload(d)
      PROVE  AllFollow'
  BY <1>1, FollowOutside
<1>2. ASSUME NEW d \in Device, SyncStep(d) PROVE AllFollow'
  BY <1>2, FollowRun
<1>3. ASSUME NEW a \in Attempt, ServerStep(a) PROVE AllFollow'
  <2>1. ServerOK' BY TypeParts DEF IInv
  <2> QED BY <1>3, <2>1, FollowApply, FollowAnswer DEF ServerStep
<1>4. CASE UNCHANGED vars
  <2>1. ASSUME NEW d \in Device \ Editor PROVE Follows(d)'
    BY <1>4 DEF vars, CInv, AllFollow, Follows, Reached, Behind, PageOf, Shown, Current
  <2> QED BY <2>1 DEF AllFollow
<1> QED BY <1>1, <1>2, <1>3, <1>4 DEF Next

(* A device whose user does not edit has on its list, in IndexedDB, what   *)
(* the server shows of every row its cursor has passed: the page is        *)
(* complete (PageHasNoGaps), it is merged with the list it was read beside *)
(* (MergedBehind), the cursor moves after the list, and what the server    *)
(* writes meanwhile is numbered beyond every cursor (GrowthUnseen).        *)
THEOREM CursorBehindListHolds == Spec => []CursorBehindList
<1>1. Init => CInv BY InitInv, FollowInit DEF CInv
<1>2. CInv /\ [Next]_vars => CInv'
  <2> SUFFICES ASSUME CInv, [Next]_vars PROVE CInv' OBVIOUS
  <2>1. IInv' BY NextInv DEF CInv
  <2> QED BY <2>1, FollowNext DEF CInv
<1>3. CInv => CursorBehindList
  BY DEF CInv, AllFollow, Follows, Behind, CursorBehindList
<1> QED BY <1>1, <1>2, <1>3, PTL DEF Spec
=============================================================================
