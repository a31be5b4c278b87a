------------------------- MODULE DeviceScopeProofs -------------------------
(***************************************************************************)
(* Theorems about DeviceScope, for every set of users and every number of  *)
(* sign-ins, edits and faults.                                             *)
(***************************************************************************)
EXTENDS DeviceScope, TLAPS

Maybe == Session \cup {NoSession}

BootType == [st : {"asking", "answered", "purging", "purged", "failed", "importing"},
             s : Session, prev : Scope, prevPersonal : Scope \ {Home}, confirmed : Scope]

SyncType == [st : {"sent", "accepted", "applying", "applied", "advancing", "advanced",
                   "refused", "purging", "purged", "failed"},
             s : Session, asked : Nat, batch : SUBSET Value]

ProcessesTyped ==
  /\ boot = NoBoot \/ boot \in BootType
  /\ sync = NoSync \/ sync \in SyncType
  /\ page = NoPage \/ page \in [st : {"house", "no house"}]
  /\ purge \in {"none", "waiting", "queue", "cursor"}

(* The sessions the tab has seen are of sign-ins that have happened; after *)
(* a reload it knows none until it is restored.                            *)
SessionsCounted ==
  /\ events \in Nat /\ signIns \in 0 .. MaxSignIns /\ ready \in Maybe
  /\ \A s \in {cookie, session, ready} : s # NoSession => s.n <= signIns
  /\ ~restored => session = NoSession /\ ready = NoSession /\ boot = NoBoot

(* A write of an answer is the one its synchronization waits for.          *)
WritesAwaited ==
  /\ \A w \in pending : w.kind = "apply" => sync.st = "applying"
  /\ \A w \in pending : w.kind = "cursor" => sync.st = "advancing"
  /\ \A w \in pending : w.kind # "queue" /\ w.kind # "row" => w.value.edit = 0
  /\ \A w, v \in pending : {w.kind, v.kind} \subseteq {"apply", "cursor"} => w = v

(* A purge goes on under its mark and the revocation; what it has cleared  *)
(* stays clear, because no write is left that could land.                  *)
PurgeHolds ==
  /\ purge # "none" => mark /\ revoked
  /\ purge \in {"queue", "cursor"} => pending = {} /\ row = {}
  /\ purge = "cursor" => queue = {}

(* Without the mark, all that is stored or under way is of this stay.      *)
OfThisStay ==
  mark \/ /\ \A v \in row \cup queue \cup cursor : v.of = stay
          /\ \A w \in pending : w.value.of = stay

(* Opened is Shown without the house store.                                *)
OpenedIsConfirmed ==
  /\ session # NoSession /\ ready = session /\ ~failed
  /\ active = Home /\ Writable
  => vouched = session

(* Who is told to leave was denied the membership.                         *)
DeniedIsRefused ==
  /\ boot.st = "answered" /\ boot.confirmed # Home => boot.s \in refused
  /\ sync.st = "refused" => sync.s \in refused

(* TypeOK, by the part of the state it is about.                           *)
SessionsTyped ==
  /\ member \subseteq User /\ {cookie, session, seen, vouched} \subseteq Maybe
  /\ refused \subseteq Session

ValuesTyped ==
  /\ row \subseteq Value /\ queue \subseteq Value /\ cursor \subseteq Value
  /\ \A v \in row \cup cursor : v.edit = 0
  /\ pending \subseteq [kind : {"row", "queue", "apply", "cursor"}, value : Value,
                        at : {"submitted", "passed"}]

ScopesTyped == active \in Scope /\ personal \in Scope \ {Home}

FlagsTyped ==
  /\ {mark, restored, revoked, uncertain, house, due, failed, listening} \subseteq BOOLEAN
  /\ stay \in Nat \ {0}

LEMMA TypeParts ==
  /\ TypeOK <=> SessionsTyped /\ ValuesTyped /\ ScopesTyped /\ FlagsTyped
  /\ TypeOK' <=> SessionsTyped' /\ ValuesTyped' /\ ScopesTyped' /\ FlagsTyped'
BY DEF TypeOK, SessionsTyped, ValuesTyped, ScopesTyped, FlagsTyped, Maybe

IInv == /\ TypeOK /\ ProcessesTyped /\ SessionsCounted /\ WritesAwaited
        /\ PurgeHolds /\ OfThisStay /\ OpenedIsConfirmed /\ DeniedIsRefused

-----------------------------------------------------------------------------
(* What a step may do to the processes of the tab.                         *)

LEMMA NoneRuns == NoBoot.st = "none" /\ NoSync.st = "none"
BY DEF NoBoot, NoSync

LEMMA BootRuns ==
  ASSUME ProcessesTyped, boot.st # "none"
  PROVE  boot \in BootType
<1>1. boot # NoBoot BY NoneRuns
<1> QED BY <1>1 DEF ProcessesTyped

LEMMA SyncRuns ==
  ASSUME ProcessesTyped, sync.st # "none"
  PROVE  sync \in SyncType
<1>1. sync # NoSync BY NoneRuns
<1> QED BY <1>1 DEF ProcessesTyped

BootMoves ==
  \/ boot' = boot \/ boot' = NoBoot \/ RunEffect \/ AnswerBoot
  \/ boot.st # "none" /\ \E st \in {"purging", "purged", "failed", "importing"} :
                            boot' = [boot EXCEPT !.st = st]

SyncMoves ==
  \/ sync' = sync \/ sync' = NoSync \/ StartSync \/ AnswerSync
  \/ sync.st # "none" /\ \E st \in {"applying", "applied", "advancing", "advanced",
                                    "purging", "purged", "failed"} :
                            sync' = [sync EXCEPT !.st = st]

LEMMA BootSteps ==
  ASSUME [Next]_vars
  PROVE  BootMoves
<1>1. CASE PurgeLost \/ EnterHouse \/ ImportAccount
  BY <1>1 DEF PurgeLost, EnterHouse, ImportAccount, BootMoves
<1>2. CASE CompletePurge \/ FailPurge
  BY <1>2 DEF CompletePurge, FailPurge, Told, BootMoves
<1>3. CASE ~(PurgeLost \/ EnterHouse \/ ImportAccount \/ CompletePurge \/ FailPurge)
  BY <1>3 DEF Next, Tab, Server, Environment, vars, BootMoves, CheckWrite, LandWrite,
     ClearSnapshots, ClearQueue, DropBoot, UseAccount, OpenHouse, ApplyChanges,
     WriteCursor, Submits, Acknowledge, Refuse, LeaveLost, EndSync, ShowPage, AnswerSync,
     Edit, Retry, StartSync, Refresh, LeaveHouse, LoseAnswer, SignOut, Reload, Restore,
     FailBoot, SignIn, ChangeMember
<1> QED BY <1>1, <1>2, <1>3

LEMMA SyncSteps ==
  ASSUME [Next]_vars, WritesAwaited
  PROVE  SyncMoves
<1>1. CASE ApplyChanges \/ WriteCursor \/ Refuse
  BY <1>1 DEF ApplyChanges, WriteCursor, Submits, Refuse, SyncMoves
<1>2. CASE CompletePurge \/ FailPurge
  BY <1>2 DEF CompletePurge, FailPurge, Told, SyncMoves
<1>3. ASSUME NEW w \in pending, LandWrite(w) PROVE SyncMoves
  <2>1. /\ w.kind = "apply" => sync.st = "applying"
        /\ w.kind = "cursor" => sync.st = "advancing"
    BY DEF WritesAwaited
  <2> QED BY <1>3, <2>1 DEF LandWrite, SyncMoves
<1>4. CASE ~(ApplyChanges \/ WriteCursor \/ Refuse \/ CompletePurge \/ FailPurge)
           /\ ~\E w \in pending : LandWrite(w)
  BY <1>4 DEF Next, Tab, Server, Environment, vars, SyncMoves, CheckWrite, ClearSnapshots,
     ClearQueue, RunEffect, DropBoot, PurgeLost, UseAccount, EnterHouse, ImportAccount,
     OpenHouse, Acknowledge, LeaveLost, EndSync, ShowPage, AnswerBoot, Edit, Retry,
     Refresh, LeaveHouse, LoseAnswer, SignOut, Reload, Restore, FailBoot, SignIn,
     ChangeMember
<1> QED BY <1>1, <1>2, <1>3, <1>4

(* A bootstrap or a synchronization that goes on stays the one it was.     *)
LEMMA BootTyped ==
  ASSUME IInv, BootMoves
  PROVE  /\ boot' = NoBoot \/ boot' \in BootType
         /\ boot'.st \notin {"none", "asking"} =>
              boot.st # "none" /\ boot'.s = boot.s
              /\ (boot'.confirmed = boot.confirmed \/ AnswerBoot)
<1>0. ProcessesTyped /\ SessionsTyped /\ ScopesTyped BY TypeParts DEF IInv
<1>1. CASE boot' = boot \/ boot' = NoBoot BY <1>0, <1>1, NoneRuns DEF ProcessesTyped
<1>2. CASE RunEffect
  <2>1. CASE session = NoSession BY <1>2, <2>1 DEF RunEffect, NoBoot
  <2>2. CASE session # NoSession
    <3>1. boot' = [st |-> "asking", s |-> session, prev |-> active,
                   prevPersonal |-> personal, confirmed |-> Guest]
      BY <1>2, <2>2 DEF RunEffect
    <3>2. session \in Session BY <1>0, <2>2 DEF SessionsTyped, Maybe
    <3> QED BY <1>0, <3>1, <3>2 DEF BootType, ScopesTyped, Scope
  <2> QED BY <2>1, <2>2
<1>3. CASE AnswerBoot
  <2>1. boot \in BootType BY <1>0, <1>3, BootRuns DEF AnswerBoot
  <2> DEFINE c == IF boot.s.user \in member THEN Home ELSE boot.s.user
  <2>2. boot' = [boot EXCEPT !.st = "answered", !.confirmed = c] BY <1>3 DEF AnswerBoot
  <2>3. c \in Scope BY <2>1 DEF Scope, BootType, Session
  <2> HIDE DEF c
  <2> QED BY <1>3, <2>1, <2>2, <2>3 DEF BootType, AnswerBoot
<1>4. CASE boot.st # "none" /\ \E st \in {"purging", "purged", "failed", "importing"} :
                                  boot' = [boot EXCEPT !.st = st]
  <2>1. boot \in BootType BY <1>0, <1>4, BootRuns
  <2> QED BY <1>4, <2>1 DEF BootType
<1> QED BY <1>1, <1>2, <1>3, <1>4 DEF BootMoves

LEMMA SyncTyped ==
  ASSUME IInv, SyncMoves
  PROVE  /\ sync' = NoSync \/ sync' \in SyncType
         /\ sync'.st \notin {"none", "sent"} => sync.st # "none" /\ sync'.s = sync.s
<1>0. ProcessesTyped /\ SessionsTyped /\ ValuesTyped /\ FlagsTyped BY TypeParts DEF IInv
<1>1. CASE sync' = sync \/ sync' = NoSync BY <1>0, <1>1, NoneRuns DEF ProcessesTyped
<1>2. CASE StartSync
  <2>1. session \in Session BY <1>0, <1>2 DEF SessionsTyped, Maybe, StartSync
  <2> QED BY <1>0, <1>2, <2>1 DEF StartSync, SyncType, ValuesTyped, FlagsTyped
<1>3. CASE AnswerSync
  <2>1. sync \in SyncType BY <1>0, <1>3, SyncRuns DEF AnswerSync
  <2> QED BY <1>3, <2>1 DEF SyncType, AnswerSync
<1>4. CASE sync.st # "none" /\ \E st \in {"applying", "applied", "advancing", "advanced",
                                          "purging", "purged", "failed"} :
                                  sync' = [sync EXCEPT !.st = st]
  <2>1. sync \in SyncType BY <1>0, <1>4, SyncRuns
  <2> QED BY <1>4, <2>1 DEF SyncType
<1> QED BY <1>1, <1>2, <1>3, <1>4 DEF SyncMoves

LEMMA ProcessesNext ==
  ASSUME IInv, [Next]_vars
  PROVE  ProcessesTyped'
<1>1. boot' = NoBoot \/ boot' \in BootType BY BootSteps, BootTyped
<1>2. sync' = NoSync \/ sync' \in SyncType BY SyncSteps, SyncTyped DEF IInv
<1>3. page' = page \/ page' = NoPage \/ page' \in [st : {"house", "no house"}]
  <2>1. CASE Refresh \/ LeaveHouse
    <3>1. PICK st \in {"house", "no house"} : page' = [st |-> st]
      BY <2>1 DEF Refresh, LeaveHouse
    <3> QED BY <3>1
  <2>2. CASE ~(Refresh \/ LeaveHouse)
    <3>1. page' = page \/ page' = NoPage
      BY <2>2 DEF Next, Tab, Server, Environment, vars, CheckWrite, LandWrite,
         ClearSnapshots, ClearQueue, CompletePurge, FailPurge, RunEffect, DropBoot,
         PurgeLost, UseAccount, EnterHouse, ImportAccount, OpenHouse, ApplyChanges,
         WriteCursor, Submits, Acknowledge, Refuse, LeaveLost, EndSync, ShowPage,
         AnswerBoot, AnswerSync, Edit, Retry, StartSync, LoseAnswer, SignOut, Reload,
         Restore, FailBoot, SignIn, ChangeMember
    <3> QED BY <3>1
  <2> QED BY <2>1, <2>2
<1>4. purge' \in {purge, "none", "waiting", "queue", "cursor"}
  BY DEF Next, Tab, Server, Environment, vars, CheckWrite, LandWrite, ClearSnapshots,
     ClearQueue, CompletePurge, FailPurge, RunEffect, DropBoot, PurgeLost, UseAccount,
     EnterHouse, ImportAccount, OpenHouse, ApplyChanges, WriteCursor, Submits,
     Acknowledge, Refuse, LeaveLost, EndSync, ShowPage, AnswerBoot, AnswerSync, Edit,
     Retry, StartSync, Refresh, LeaveHouse, LoseAnswer, SignOut, Reload, Restore,
     FailBoot, SignIn, ChangeMember, Revokes
<1>5. page = NoPage \/ page \in [st : {"house", "no house"}] BY DEF IInv, ProcessesTyped
<1>6. page' = NoPage \/ page' \in [st : {"house", "no house"}] BY <1>3, <1>5
<1>7. purge' \in {"none", "waiting", "queue", "cursor"} BY <1>4 DEF IInv, ProcessesTyped
<1> QED BY <1>1, <1>2, <1>6, <1>7 DEF ProcessesTyped
-----------------------------------------------------------------------------
(* Sessions.                                                               *)

LEMMA NewSession ==
  ASSUME SessionsCounted, NEW u \in User, SignIn(u)
  PROVE  session' \in Session /\ session'.n = signIns + 1 /\ signIns' \in 0 .. MaxSignIns
BY BoundsTyped DEF SessionsCounted, SignIn, Session

(* What the variables that hold sessions may become.                       *)
SessionMoves ==
  /\ (\E u \in User : SignIn(u)) \/ session' \in {session, NoSession} \/ Restore
  /\ (\E u \in User : SignIn(u)) \/ (cookie' \in {cookie, NoSession} /\ signIns' = signIns)
  /\ ready' \in {ready, NoSession, session}
  /\ seen' \in {seen, NoSession, session}
  /\ vouched' \in {vouched, NoSession, session}

LEMMA SessionSteps ==
  ASSUME [Next]_vars
  PROVE  SessionMoves
<1> USE DEF Next, Tab, Server, Environment, vars, CheckWrite, LandWrite, ClearSnapshots,
     ClearQueue, CompletePurge, FailPurge, RunEffect, DropBoot, PurgeLost, UseAccount,
     EnterHouse, ImportAccount, OpenHouse, ApplyChanges, WriteCursor, Submits,
     Acknowledge, Refuse, LeaveLost, EndSync, ShowPage, AnswerBoot, AnswerSync, Edit,
     Retry, StartSync, Refresh, LeaveHouse, LoseAnswer, SignOut, Reload, Restore,
     FailBoot, SignIn, ChangeMember,
     SessionMoves, counts, account, app, Event, Fails
<1>1. (\E u \in User : SignIn(u)) \/ session' \in {session, NoSession} \/ Restore
  OBVIOUS
<1>2. (\E u \in User : SignIn(u)) \/ (cookie' \in {cookie, NoSession} /\ signIns' = signIns)
  OBVIOUS
<1> USE DEF Current, Revokes
<1>3. ready' \in {ready, NoSession, session} OBVIOUS
<1>4. seen' \in {seen, NoSession, session} OBVIOUS
<1>5. vouched' \in {vouched, NoSession, session} OBVIOUS
<1> QED BY <1>1, <1>2, <1>3, <1>4, <1>5 DEF SessionMoves

LEMMA SessionsNext ==
  ASSUME IInv, [Next]_vars
  PROVE  SessionsTyped' /\ SessionsCounted'
<1>0. SessionsTyped /\ SessionsCounted /\ ProcessesTyped BY TypeParts DEF IInv
<1>1. SessionMoves BY SessionSteps
<1>2. session' \in Maybe /\ cookie' \in Maybe /\ signIns' \in 0 .. MaxSignIns
  <2>1. CASE \E u \in User : SignIn(u)
    BY <1>0, <2>1, NewSession DEF SignIn, Maybe
  <2>2. CASE ~\E u \in User : SignIn(u)
    BY <1>0, <1>1, <2>2 DEF SessionMoves, SessionsTyped, SessionsCounted, Maybe, Restore
  <2> QED BY <2>1, <2>2
<1>3. ready' \in Maybe /\ seen' \in Maybe /\ vouched' \in Maybe
  BY <1>0, <1>1 DEF SessionMoves, SessionsTyped, SessionsCounted, Maybe
<1>4. member' \subseteq User
  BY <1>0 DEF Next, Tab, Server, Environment, vars, CheckWrite, LandWrite, ClearSnapshots,
     ClearQueue, CompletePurge, FailPurge, RunEffect, DropBoot, PurgeLost, UseAccount,
     EnterHouse, ImportAccount, OpenHouse, ApplyChanges, WriteCursor, Submits,
     Acknowledge, Refuse, LeaveLost, EndSync, ShowPage, AnswerBoot, AnswerSync, Edit,
     Retry, StartSync, Refresh, LeaveHouse, LoseAnswer, SignOut, Reload, Restore,
     FailBoot, SignIn, ChangeMember,
     SessionsTyped
<1>5. refused' \subseteq Session
  <2>1. CASE AnswerBoot
    <3>1. boot.s \in Session BY <1>0, <2>1, BootRuns DEF AnswerBoot, BootType
    <3> QED BY <1>0, <2>1, <3>1 DEF AnswerBoot, SessionsTyped
  <2>2. CASE AnswerSync
    <3>1. sync.s \in Session BY <1>0, <2>2, SyncRuns DEF AnswerSync, SyncType
    <3> QED BY <1>0, <2>2, <3>1 DEF AnswerSync, SessionsTyped
  <2>3. CASE Refresh \/ LeaveHouse
    <3>1. session \in Session BY <1>0, <2>3 DEF Refresh, LeaveHouse, SessionsTyped, Maybe
    <3>2. refused' \subseteq refused \cup {session} BY <2>3 DEF Refresh, LeaveHouse
    <3> QED BY <1>0, <3>1, <3>2 DEF SessionsTyped
  <2>4. CASE ~(AnswerBoot \/ AnswerSync \/ Refresh \/ LeaveHouse)
    <3>1. refused' = refused
      BY <2>4 DEF Next, Tab, Server, Environment, vars, CheckWrite, LandWrite, ClearSnapshots,
     ClearQueue, CompletePurge, FailPurge, RunEffect, DropBoot, PurgeLost, UseAccount,
     EnterHouse, ImportAccount, OpenHouse, ApplyChanges, WriteCursor, Submits,
     Acknowledge, Refuse, LeaveLost, EndSync, ShowPage, AnswerBoot, AnswerSync, Edit,
     Retry, StartSync, Refresh, LeaveHouse, LoseAnswer, SignOut, Reload, Restore,
     FailBoot, SignIn, ChangeMember
    <3> QED BY <1>0, <3>1 DEF SessionsTyped
  <2> QED BY <2>1, <2>2, <2>3, <2>4
<1>6. events' \in Nat
  <2>1. events' \in {events, events + 1}
    BY DEF Next, Tab, Server, Environment, vars, CheckWrite, LandWrite, ClearSnapshots,
     ClearQueue, CompletePurge, FailPurge, RunEffect, DropBoot, PurgeLost, UseAccount,
     EnterHouse, ImportAccount, OpenHouse, ApplyChanges, WriteCursor, Submits,
     Acknowledge, Refuse, LeaveLost, EndSync, ShowPage, AnswerBoot, AnswerSync, Edit,
     Retry, StartSync, Refresh, LeaveHouse, LoseAnswer, SignOut, Reload, Restore,
     FailBoot, SignIn, ChangeMember,
       counts, Event, Fails
  <2> QED BY <1>0, <2>1 DEF SessionsCounted
<1>7. \A s \in {cookie', session', ready'} : s # NoSession => s.n <= signIns'
  <2>1. CASE \E u \in User : SignIn(u)
    <3>1. PICK u \in User : SignIn(u) BY <2>1
    <3>2. /\ session' = cookie' /\ ready' = ready /\ signIns' = signIns + 1
          /\ session'.n = signIns + 1
      BY <1>0, <3>1, NewSession DEF SignIn
    <3>3. ready # NoSession => ready.n \in Nat BY <1>0 DEF SessionsCounted, Maybe, Session
    <3>4. signIns \in Nat BY <1>0 DEF SessionsCounted
    <3>5. ready # NoSession => ready.n <= signIns BY <1>0 DEF SessionsCounted
    <3> QED BY <3>2, <3>3, <3>4, <3>5
  <2>2. CASE ~\E u \in User : SignIn(u)
    <3>1. {cookie', session', ready'} \subseteq {cookie, session, ready, NoSession}
      BY <1>1, <2>2 DEF SessionMoves, Restore
    <3>2. signIns' = signIns BY <1>1, <2>2 DEF SessionMoves
    <3> QED BY <1>0, <3>1, <3>2 DEF SessionsCounted
  <2> QED BY <2>1, <2>2
<1>8. ~restored' => session' = NoSession /\ ready' = NoSession /\ boot' = NoBoot
  <2>1. CASE Reload BY <2>1 DEF Reload
  <2>2. CASE ~Reload
    <3>1. (restored' <=> restored) \/ Restore
      BY <2>2 DEF Next, Tab, Server, Environment, vars, CheckWrite, LandWrite, ClearSnapshots,
     ClearQueue, CompletePurge, FailPurge, RunEffect, DropBoot, PurgeLost, UseAccount,
     EnterHouse, ImportAccount, OpenHouse, ApplyChanges, WriteCursor, Submits,
     Acknowledge, Refuse, LeaveLost, EndSync, ShowPage, AnswerBoot, AnswerSync, Edit,
     Retry, StartSync, Refresh, LeaveHouse, LoseAnswer, SignOut, Reload, Restore,
     FailBoot, SignIn, ChangeMember,
         account
    <3>2. CASE ~restored /\ ~Restore
      <4>1. session = NoSession /\ ready = NoSession /\ boot = NoBoot
        BY <1>0, <3>2 DEF SessionsCounted
      <4>2. session' = NoSession /\ ready' = NoSession
        BY <1>1, <3>2, <4>1 DEF SessionMoves, SignIn
      <4>3. boot.st = "none" BY <4>1, NoneRuns
      <4>4. boot' = NoBoot
        BY <3>2, <4>1, <4>3, BootSteps DEF BootMoves, RunEffect, AnswerBoot
      <4> QED BY <4>2, <4>4
    <3> QED BY <3>1, <3>2 DEF Restore
  <2> QED BY <2>1, <2>2
<1> QED BY <1>2, <1>3, <1>4, <1>5, <1>6, <1>7, <1>8 DEF SessionsTyped, SessionsCounted
-----------------------------------------------------------------------------
(* The stored values and the writes under way.                             *)

WriteType == [kind : {"row", "queue", "apply", "cursor"}, value : Value,
              at : {"submitted", "passed"}]

LEMMA NewWrite ==
  ASSUME IInv, NEW kind \in {"row", "queue", "apply", "cursor"}, NEW asked \in Nat,
         NEW k \in 0 .. MaxEvents
  PROVE  /\ Write(kind, asked, k) \in WriteType /\ Write(kind, asked, k).kind = kind
         /\ Write(kind, asked, k).value.of = stay /\ Write(kind, asked, k).value.edit = k
<1>1. stay \in Nat BY TypeParts DEF IInv, FlagsTyped
<1> QED BY <1>1 DEF Write, WriteType, Value

(* A write that goes on keeps its value; a snapshot that has landed goes   *)
(* on as the write of its mutation.                                        *)
LEMMA MovedWrite ==
  ASSUME NEW w \in WriteType
  PROVE  /\ [w EXCEPT !.at = "passed"] \in WriteType
         /\ [w EXCEPT !.at = "passed"].kind = w.kind
         /\ [w EXCEPT !.at = "passed"].value = w.value
         /\ [w EXCEPT !.kind = "queue", !.at = "submitted"] \in WriteType
         /\ [w EXCEPT !.kind = "queue", !.at = "submitted"].kind = "queue"
         /\ [w EXCEPT !.kind = "queue", !.at = "submitted"].value = w.value
         /\ [w.value EXCEPT !.edit = 0] \in Value
         /\ [w.value EXCEPT !.edit = 0].edit = 0
         /\ [w.value EXCEPT !.edit = 0].of = w.value.of
<1>1. /\ [w EXCEPT !.at = "passed"] \in WriteType
      /\ [w EXCEPT !.at = "passed"].kind = w.kind
      /\ [w EXCEPT !.at = "passed"].value = w.value
  BY DEF WriteType
<1>2. /\ [w EXCEPT !.kind = "queue", !.at = "submitted"] \in WriteType
      /\ [w EXCEPT !.kind = "queue", !.at = "submitted"].kind = "queue"
      /\ [w EXCEPT !.kind = "queue", !.at = "submitted"].value = w.value
  BY DEF WriteType
<1>3. w.value \in Value /\ 0 \in 0 .. MaxEvents BY BoundsTyped DEF WriteType
<1>4. /\ [w.value EXCEPT !.edit = 0] \in Value
      /\ [w.value EXCEPT !.edit = 0].edit = 0
      /\ [w.value EXCEPT !.edit = 0].of = w.value.of
  BY <1>3 DEF Value
<1> QED BY <1>1, <1>2, <1>4

(* What a step does to the writes under way: nothing, or one of them is    *)
(* done or goes on, or a new one of this stay joins them.                  *)
Dropped(w)  == pending' = pending \ {w}
Advanced(w) == \E c \in WriteType :
                 /\ pending' = (pending \ {w}) \cup {c}
                 /\ c.value = w.value /\ (c.kind = w.kind \/ c.kind = "queue")
Joined(kind) == \E c \in WriteType :
                  /\ pending' = pending \cup {c} /\ c.kind = kind /\ c.value.of = stay
                  /\ kind # "row" => c.value.edit = 0

LEMMA Checked ==
  ASSUME IInv, NEW w \in pending, CheckWrite(w)
  PROVE  Dropped(w) \/ (Advanced(w) /\ sync' = sync)
<1>1. w \in WriteType BY TypeParts DEF IInv, ValuesTyped, WriteType
<1>2. CASE Writable
  BY <1>1, <1>2, MovedWrite DEF CheckWrite, Advanced
<1>3. CASE ~Writable BY <1>3 DEF CheckWrite, Dropped
<1> QED BY <1>2, <1>3

LEMMA Landed ==
  ASSUME IInv, NEW w \in pending, LandWrite(w)
  PROVE  Dropped(w) \/ (Advanced(w) /\ sync' = sync)
<1>1. w \in WriteType BY TypeParts DEF IInv, ValuesTyped, WriteType
<1>2. CASE w.kind = "row"
  BY <1>1, <1>2, MovedWrite DEF LandWrite, Advanced
<1>3. CASE w.kind # "row" BY <1>3 DEF LandWrite, Dropped
<1> QED BY <1>2, <1>3

LEMMA Submitting ==
  ASSUME IInv
  PROVE  /\ ApplyChanges => /\ Joined("apply") /\ Writable /\ sync.st = "accepted"
                            /\ sync'.st = "applying"
         /\ WriteCursor => /\ Joined("cursor") /\ Writable /\ sync.st = "applied"
                           /\ sync'.st = "advancing"
<1> SUFFICES ASSUME NEW from \in {"accepted", "applied"}, NEW kind \in {"apply", "cursor"},
                    NEW to, Submits(from, kind, to)
             PROVE  Joined(kind) /\ Writable /\ sync.st = from /\ sync'.st = to
  BY DEF ApplyChanges, WriteCursor
<1>1. sync \in SyncType BY SyncRuns DEF IInv, Submits
<1>2. 0 \in 0 .. MaxEvents /\ sync.asked \in Nat BY <1>1, BoundsTyped DEF SyncType
<1>3. Joined(kind)
  BY <1>2, NewWrite DEF Submits, Joined
<1> QED BY <1>1, <1>3 DEF Submits, SyncType

LEMMA Editing ==
  ASSUME IInv, Edit
  PROVE  Joined("row") /\ Writable /\ sync' = sync
<1>1. events' \in 0 .. MaxEvents BY BoundsTyped DEF IInv, SessionsCounted, Edit, Event
<1>2. stay \in Nat BY TypeParts DEF IInv, FlagsTyped
<1>3. Joined("row") BY <1>1, <1>2, NewWrite DEF Edit, Joined
<1> QED BY <1>3 DEF Edit, Shown, Visible

LEMMA PendingSteps ==
  ASSUME [Next]_vars
  PROVE  \/ pending' = pending \/ Reload \/ Edit \/ ApplyChanges \/ WriteCursor
         \/ \E w \in pending : CheckWrite(w) \/ LandWrite(w)
BY DEF Next, Tab, Server, Environment, vars, ClearSnapshots, ClearQueue, CompletePurge,
     FailPurge, RunEffect, DropBoot, PurgeLost, UseAccount, EnterHouse,
     ImportAccount, OpenHouse, Acknowledge, Refuse, LeaveLost, EndSync, ShowPage,
     AnswerBoot, AnswerSync, Retry, StartSync, Refresh, LeaveHouse, LoseAnswer,
     SignOut, Restore, FailBoot, SignIn, ChangeMember, fence

LEMMA StoredSteps ==
  ASSUME [Next]_vars
  PROVE  \/ UNCHANGED <<row, queue, cursor>> \/ ClearSnapshots \/ ClearQueue
         \/ CompletePurge \/ Acknowledge \/ \E w \in pending : LandWrite(w)
BY DEF Next, Tab, Server, Environment, vars, CheckWrite, FailPurge, RunEffect,
     DropBoot, PurgeLost, UseAccount, EnterHouse, ImportAccount, OpenHouse,
     ApplyChanges, WriteCursor, Submits, Refuse, LeaveLost, EndSync, ShowPage,
     AnswerBoot, AnswerSync, Edit, Retry, StartSync, Refresh, LeaveHouse, LoseAnswer,
     SignOut, Reload, Restore, FailBoot, SignIn, ChangeMember, stored

LEMMA SyncWaits ==
  ASSUME [Next]_vars, sync.st \in {"applying", "advancing"}
  PROVE  sync' = sync \/ Reload \/ \E w \in pending : CheckWrite(w) \/ LandWrite(w)
BY DEF Next, Tab, Server, Environment, vars, ClearSnapshots, ClearQueue, CompletePurge,
     FailPurge, RunEffect, DropBoot, PurgeLost, UseAccount, EnterHouse,
     ImportAccount, OpenHouse, ApplyChanges, WriteCursor, Submits, Acknowledge,
     Refuse, LeaveLost, EndSync, ShowPage, AnswerBoot, AnswerSync, Edit, Retry,
     StartSync, Refresh, LeaveHouse, LoseAnswer, SignOut, Restore, FailBoot, SignIn,
     ChangeMember, Told

LEMMA ValuesNext ==
  ASSUME IInv, [Next]_vars
  PROVE  ValuesTyped'
<1>0. ValuesTyped /\ pending \subseteq WriteType
  BY TypeParts DEF IInv, ValuesTyped, WriteType
<1>1. pending' \subseteq WriteType
  <2>1. ASSUME NEW w \in pending, CheckWrite(w) \/ LandWrite(w)
        PROVE  pending' \subseteq WriteType
    BY <1>0, <2>1, Checked, Landed DEF Dropped, Advanced
  <2>2. CASE Edit \/ ApplyChanges \/ WriteCursor
    BY <1>0, <2>2, Editing, Submitting DEF Joined
  <2> QED BY <1>0, <2>1, <2>2, PendingSteps DEF Reload
<1>2. /\ row' \subseteq Value /\ queue' \subseteq Value /\ cursor' \subseteq Value
      /\ \A v \in row' \cup cursor' : v.edit = 0
  <2>1. ASSUME NEW w \in pending, LandWrite(w)
        PROVE  /\ row' \subseteq Value /\ queue' \subseteq Value /\ cursor' \subseteq Value
               /\ \A v \in row' \cup cursor' : v.edit = 0
    <3>1. w \in WriteType /\ w.value \in Value BY <1>0 DEF WriteType
    <3> DEFINE plain == [w.value EXCEPT !.edit = 0]
    <3>2. plain \in Value /\ plain.edit = 0 BY <3>1, MovedWrite
    <3>3. w.kind = "cursor" => w.value.edit = 0 BY DEF IInv, WritesAwaited
    <3>4. /\ row' = IF w.kind \in {"row", "apply"} THEN row \cup {plain} ELSE row
          /\ queue' = IF w.kind = "queue" THEN queue \cup {w.value} ELSE queue
          /\ cursor' = IF w.kind = "cursor" THEN {w.value} ELSE cursor
      BY <2>1 DEF LandWrite
    <3> HIDE DEF plain
    <3> QED BY <1>0, <3>1, <3>2, <3>3, <3>4 DEF ValuesTyped
  <2>2. CASE ClearSnapshots \/ ClearQueue \/ CompletePurge \/ Acknowledge
    BY <1>0, <2>2 DEF ClearSnapshots, ClearQueue, CompletePurge, Acknowledge, ValuesTyped
  <2>3. CASE UNCHANGED <<row, queue, cursor>> BY <1>0, <2>3 DEF ValuesTyped
  <2> QED BY <2>1, <2>2, <2>3, StoredSteps
<1> QED BY <1>1, <1>2 DEF ValuesTyped, WriteType

LEMMA AwaitedNext ==
  ASSUME IInv, [Next]_vars
  PROVE  WritesAwaited'
<1> DEFINE Answers == {"apply", "cursor"}
<1>0. WritesAwaited /\ pending \subseteq WriteType
  BY TypeParts DEF IInv, ValuesTyped, WriteType
<1>1. ASSUME NEW w \in pending, CheckWrite(w) \/ LandWrite(w)
      PROVE  WritesAwaited'
  <2>1. CASE Dropped(w)
    <3>1. CASE w.kind \in Answers
      <4>1. \A v \in pending' : v.kind \notin Answers
        BY <1>0, <2>1, <3>1 DEF WritesAwaited, Dropped
      <4> QED BY <1>0, <2>1, <4>1 DEF WritesAwaited, Dropped
    <3>2. CASE w.kind \notin Answers
      <4>1. sync' = sync BY <1>1, <3>2 DEF CheckWrite, LandWrite
      <4> QED BY <1>0, <2>1, <4>1 DEF WritesAwaited, Dropped
    <3> QED BY <3>1, <3>2
  <2>2. CASE Advanced(w) /\ sync' = sync
    <3>1. PICK c \in WriteType :
            /\ pending' = (pending \ {w}) \cup {c}
            /\ c.value = w.value /\ (c.kind = w.kind \/ c.kind = "queue")
      BY <2>2 DEF Advanced
    <3> QED BY <1>0, <2>2, <3>1 DEF WritesAwaited
  <2> QED BY <1>1, <2>1, <2>2, Checked, Landed
<1>2. CASE Edit
  <2>1. PICK c \in WriteType : pending' = pending \cup {c} /\ c.kind = "row"
    BY <1>2, Editing DEF Joined
  <2>2. sync' = sync BY <1>2, Editing
  <2> QED BY <1>0, <2>1, <2>2 DEF WritesAwaited
<1>3. CASE ApplyChanges
  <2>1. PICK c \in WriteType : pending' = pending \cup {c} /\ c.kind = "apply" /\ c.value.edit = 0
    BY <1>3, Submitting DEF Joined
  <2>2. sync.st = "accepted" /\ sync'.st = "applying" BY <1>3, Submitting
  <2>3. \A v \in pending : v.kind \notin Answers BY <1>0, <2>2 DEF WritesAwaited
  <2> QED BY <1>0, <2>1, <2>2, <2>3 DEF WritesAwaited
<1>4. CASE WriteCursor
  <2>1. PICK c \in WriteType : pending' = pending \cup {c} /\ c.kind = "cursor" /\ c.value.edit = 0
    BY <1>4, Submitting DEF Joined
  <2>2. sync.st = "applied" /\ sync'.st = "advancing" BY <1>4, Submitting
  <2>3. \A v \in pending : v.kind \notin Answers BY <1>0, <2>2 DEF WritesAwaited
  <2> QED BY <1>0, <2>1, <2>2, <2>3 DEF WritesAwaited
<1>5. CASE Reload BY <1>5 DEF Reload, WritesAwaited
<1>6. CASE /\ ~(Reload \/ Edit \/ ApplyChanges \/ WriteCursor)
           /\ ~\E w \in pending : CheckWrite(w) \/ LandWrite(w)
  <2>1. pending' = pending BY <1>6, PendingSteps
  <2>2. CASE sync.st \in {"applying", "advancing"}
    <3>1. sync' = sync BY <1>6, <2>2, SyncWaits
    <3> QED BY <1>0, <2>1, <3>1 DEF WritesAwaited
  <2>3. CASE sync.st \notin {"applying", "advancing"}
    BY <1>0, <2>1, <2>3 DEF WritesAwaited
  <2> QED BY <2>2, <2>3
<1> QED BY <1>1, <1>2, <1>3, <1>4, <1>5, <1>6
-----------------------------------------------------------------------------
(* The purge and the fence.                                                *)

(* What a purge that begins changes, where it does not join another.       *)
Begins == /\ purge = "none" /\ purge' = "waiting" /\ revoked' = TRUE /\ mark' = TRUE
          /\ vouched' = NoSession

LEMMA Beginning ==
  ASSUME PurgeLost \/ EnterHouse \/ Refuse
  PROVE  /\ UNCHANGED <<row, queue, cursor, pending>>
         /\ Begins \/ UNCHANGED <<purge, revoked, uncertain, mark, stay, vouched>>
BY DEF PurgeLost, EnterHouse, Refuse, Revokes, Begins

LEMMA PurgeSteps ==
  ASSUME [Next]_vars
  PROVE  \/ UNCHANGED <<purge, mark, stay>>
         \/ ClearSnapshots \/ ClearQueue \/ CompletePurge \/ FailPurge \/ Reload
         \/ PurgeLost \/ EnterHouse \/ Refuse
BY DEF Next, Tab, Server, Environment, vars, CheckWrite, LandWrite, RunEffect,
     DropBoot, UseAccount, ImportAccount, OpenHouse, ApplyChanges, WriteCursor,
     Submits, Acknowledge, LeaveLost, EndSync, ShowPage, AnswerBoot, AnswerSync,
     Edit, Retry, StartSync, Refresh, LeaveHouse, LoseAnswer, SignOut, Restore,
     FailBoot, SignIn, ChangeMember, stored

LEMMA RevokedSteps ==
  ASSUME [Next]_vars
  PROVE  \/ revoked' = revoked \/ OpenHouse \/ FailBoot \/ Reload
         \/ PurgeLost \/ EnterHouse \/ Refuse
BY DEF Next, Tab, Server, Environment, vars, CheckWrite, LandWrite, ClearSnapshots,
     ClearQueue, CompletePurge, FailPurge, RunEffect, DropBoot, UseAccount,
     ImportAccount, ApplyChanges, WriteCursor, Submits, Acknowledge, LeaveLost,
     EndSync, ShowPage, AnswerBoot, AnswerSync, Edit, Retry, StartSync, Refresh,
     LeaveHouse, LoseAnswer, SignOut, Restore, SignIn, ChangeMember, fence

(* The fence holds back every write while the mark is set.                 *)
LEMMA NothingJoins ==
  ASSUME IInv, [Next]_vars, mark, pending = {}
  PROVE  pending' = {}
<1>1. ~Writable BY DEF Writable
<1>2. ~Edit /\ ~ApplyChanges /\ ~WriteCursor BY <1>1, Editing, Submitting
<1> QED BY <1>2, PendingSteps DEF Reload

LEMMA PurgeNext ==
  ASSUME IInv, [Next]_vars
  PROVE  PurgeHolds'
<1>0. PurgeHolds BY DEF IInv
<1>1. purge' # "none" => mark' /\ revoked'
  <2>1. CASE PurgeLost \/ EnterHouse \/ Refuse
    BY <1>0, <2>1, Beginning DEF PurgeHolds, Begins
  <2>2. CASE CompletePurge \/ FailPurge \/ Reload
    BY <2>2 DEF CompletePurge, FailPurge, Reload
  <2>3. CASE ClearSnapshots \/ ClearQueue
    BY <1>0, <2>3 DEF ClearSnapshots, ClearQueue, PurgeHolds, fence
  <2>4. CASE /\ UNCHANGED <<purge, mark, stay>>
             /\ ~(PurgeLost \/ EnterHouse \/ Refuse \/ Reload)
    <3>1. purge # "none" => revoked' = revoked
      BY <1>0, <2>4, RevokedSteps DEF PurgeHolds, OpenHouse, FailBoot
    <3> QED BY <1>0, <2>4, <3>1 DEF PurgeHolds
  <2> QED BY <2>1, <2>2, <2>3, <2>4, PurgeSteps
<1>2. ASSUME purge' \in {"queue", "cursor"}
      PROVE  pending' = {} /\ row' = {} /\ (purge' = "cursor" => queue' = {})
  <2>1. CASE ClearSnapshots BY <2>1 DEF ClearSnapshots, Drained, fence
  <2>2. CASE ClearQueue BY <1>0, <2>2 DEF ClearQueue, PurgeHolds, fence
  <2>3. CASE ~(ClearSnapshots \/ ClearQueue)
    <3>1. purge' = purge
      BY <1>2, <2>3, PurgeSteps, Beginning DEF CompletePurge, FailPurge, Reload, Begins
    <3>2. mark /\ pending = {} /\ row = {} /\ (purge = "cursor" => queue = {})
      BY <1>0, <1>2, <3>1 DEF PurgeHolds
    <3>3. pending' = {} BY <3>2, NothingJoins
    <3>4. ~CompletePurge BY <1>2 DEF CompletePurge
    <3>5. row' = {} /\ (queue = {} => queue' = {})
      BY <2>3, <3>2, <3>4, StoredSteps DEF Acknowledge
    <3> QED BY <3>1, <3>2, <3>3, <3>5
  <2> QED BY <2>1, <2>2, <2>3
<1> QED BY <1>1, <1>2 DEF PurgeHolds

(* A step that leaves the mark off and begins no purge adds only what is   *)
(* of this stay.                                                           *)
LEMMA StayNext ==
  ASSUME IInv, [Next]_vars
  PROVE  OfThisStay'
<1>0. PurgeHolds /\ OfThisStay /\ pending \subseteq WriteType
  BY TypeParts DEF IInv, ValuesTyped, WriteType
<1>1. CASE PurgeLost \/ EnterHouse \/ Refuse
  <2>1. UNCHANGED <<row, queue, cursor, pending>> BY <1>1, Beginning
  <2>2. CASE Begins BY <2>2 DEF Begins, OfThisStay
  <2>3. CASE UNCHANGED <<purge, revoked, uncertain, mark, stay, vouched>>
    <3>1. (mark' <=> mark) /\ stay' = stay BY <2>3
    <3> QED BY <1>0, <2>1, <3>1 DEF OfThisStay
  <2> QED BY <1>1, <2>2, <2>3, Beginning
<1>2. CASE CompletePurge
  BY <1>0, <1>2 DEF CompletePurge, PurgeHolds, OfThisStay, fence
<1>3. CASE ClearSnapshots \/ ClearQueue \/ FailPurge \/ Reload
  BY <1>0, <1>3 DEF ClearSnapshots, ClearQueue, FailPurge, Reload, PurgeHolds, OfThisStay,
     fence, stored
<1>4. CASE /\ UNCHANGED <<purge, mark, stay>>
           /\ ~(ClearSnapshots \/ ClearQueue \/ CompletePurge \/ Reload)
  <2> SUFFICES ASSUME ~mark
               PROVE  /\ \A v \in row' \cup queue' \cup cursor' : v.of = stay
                      /\ \A w \in pending' : w.value.of = stay
    BY <1>4 DEF OfThisStay
  <2>0. /\ \A v \in row \cup queue \cup cursor : v.of = stay
        /\ \A w \in pending : w.value.of = stay
    BY <1>0 DEF OfThisStay
  <2>1. \A w \in pending' : w.value.of = stay
    <3>1. ASSUME NEW w \in pending, Dropped(w) \/ Advanced(w)
          PROVE  \A v \in pending' : v.value.of = stay
      BY <2>0, <3>1 DEF Dropped, Advanced
    <3>2. ASSUME NEW kind, Joined(kind)
          PROVE  \A v \in pending' : v.value.of = stay
      BY <2>0, <3>2 DEF Joined
    <3>3. CASE Edit \/ ApplyChanges \/ WriteCursor
      BY <3>2, <3>3, Editing, Submitting
    <3>4. CASE \E w \in pending : CheckWrite(w) \/ LandWrite(w)
      BY <3>1, <3>4, Checked, Landed
    <3>5. CASE pending' = pending BY <2>0, <3>5
    <3> QED BY <1>4, <3>3, <3>4, <3>5, PendingSteps
  <2>2. \A v \in row' \cup queue' \cup cursor' : v.of = stay
    <3>1. ASSUME NEW w \in pending, LandWrite(w)
          PROVE  \A v \in row' \cup queue' \cup cursor' : v.of = stay
      <4> DEFINE plain == [w.value EXCEPT !.edit = 0]
      <4>1. plain.of = stay /\ w.value.of = stay BY <1>0, <2>0, MovedWrite
      <4>2. /\ row' = IF w.kind \in {"row", "apply"} THEN row \cup {plain} ELSE row
            /\ queue' = IF w.kind = "queue" THEN queue \cup {w.value} ELSE queue
            /\ cursor' = IF w.kind = "cursor" THEN {w.value} ELSE cursor
        BY <3>1 DEF LandWrite
      <4> HIDE DEF plain
      <4> QED BY <2>0, <4>1, <4>2
    <3>2. CASE Acknowledge BY <2>0, <3>2 DEF Acknowledge
    <3>3. CASE UNCHANGED <<row, queue, cursor>> BY <2>0, <3>3
    <3> QED BY <1>4, <3>1, <3>2, <3>3, StoredSteps
  <2> QED BY <2>1, <2>2
<1> QED BY <1>1, <1>2, <1>3, <1>4, PurgeSteps
-----------------------------------------------------------------------------
(* What is shown, and who was refused.                                     *)

LEMMA ScopesNext ==
  ASSUME IInv, [Next]_vars
  PROVE  ScopesTyped'
<1>0. ScopesTyped /\ ProcessesTyped BY TypeParts DEF IInv
<1>1. \A u \in User : u \in Scope \ {Home} BY ScopesDistinct DEF Scope
<1>2. Guest \in Scope \ {Home} /\ Home \in Scope BY ScopesDistinct DEF Scope
<1>3. ASSUME boot.st # "none"
      PROVE  boot.s.user \in User /\ boot.prev \in Scope
  BY <1>0, <1>3, BootRuns DEF BootType, Session
<1>4. CASE RunEffect BY <1>0, <1>2, <1>4 DEF RunEffect, ScopesTyped
<1>5. CASE UseAccount
  BY <1>1, <1>3, <1>5 DEF UseAccount, Arrived, ScopesTyped
<1>6. CASE EnterHouse BY <1>1, <1>2, <1>3, <1>6 DEF EnterHouse, ScopesTyped
<1>7. CASE OpenHouse BY <1>0, <1>2, <1>7 DEF OpenHouse, ScopesTyped
<1>8. CASE FailBoot
  BY <1>0, <1>1, <1>2, <1>3, <1>8 DEF FailBoot, ScopesTyped
<1>9. CASE LeaveLost
  <2>1. sync \in SyncType BY <1>0, <1>9, SyncRuns DEF LeaveLost
  <2>2. session.user \in User BY <1>9, <2>1 DEF LeaveLost, SameContext, SyncType, Session
  <2> QED BY <1>1, <1>9, <2>2 DEF LeaveLost, ScopesTyped
<1>10. CASE ~(RunEffect \/ UseAccount \/ EnterHouse \/ OpenHouse \/ FailBoot \/ LeaveLost)
  <2>1. UNCHANGED <<active, personal>>
    BY <1>10 DEF Next, Tab, Server, Environment, vars, CheckWrite, LandWrite, ClearSnapshots,
     ClearQueue, CompletePurge, FailPurge, DropBoot, PurgeLost, ImportAccount,
     ApplyChanges, WriteCursor, Submits, Acknowledge, Refuse, EndSync, ShowPage,
     AnswerBoot, AnswerSync, Edit, Retry, StartSync, Refresh, LeaveHouse, LoseAnswer,
     SignOut, Reload, Restore, SignIn, ChangeMember
  <2> QED BY <1>0, <2>1 DEF ScopesTyped
<1> QED BY <1>4, <1>5, <1>6, <1>7, <1>8, <1>9, <1>10

LEMMA FlagsNext ==
  ASSUME IInv, [Next]_vars
  PROVE  FlagsTyped'
<1>0. FlagsTyped BY TypeParts DEF IInv
<1> USE DEF Next, Tab, Server, Environment, vars, CheckWrite, LandWrite, ClearSnapshots,
     ClearQueue, CompletePurge, FailPurge, RunEffect, DropBoot, PurgeLost,
     UseAccount, EnterHouse, ImportAccount, OpenHouse, ApplyChanges, WriteCursor,
     Submits, Acknowledge, Refuse, LeaveLost, EndSync, ShowPage, AnswerBoot,
     AnswerSync, Edit, Retry, StartSync, Refresh, LeaveHouse, LoseAnswer, SignOut,
     Reload, Restore, FailBoot, SignIn, ChangeMember,
     stored, fence, app, account, Revokes, HouseBecomes
<1>1. mark' \in BOOLEAN /\ restored' \in BOOLEAN BY <1>0 DEF FlagsTyped
<1>2. revoked' \in BOOLEAN BY <1>0 DEF FlagsTyped
<1>3. uncertain' \in BOOLEAN BY <1>0 DEF FlagsTyped
<1>4. house' \in BOOLEAN BY <1>0 DEF FlagsTyped
<1>5. due' \in BOOLEAN BY <1>0 DEF FlagsTyped
<1>6. failed' \in BOOLEAN /\ listening' \in BOOLEAN BY <1>0 DEF FlagsTyped
<1>7. stay' \in {stay, stay + 1} OBVIOUS
<1>8. stay' \in Nat \ {0}
  <2>1. stay \in Nat \ {0} BY ONLY <1>0 DEF FlagsTyped
  <2> QED BY ONLY <1>7, <2>1
<1> QED BY ONLY <1>1, <1>2, <1>3, <1>4, <1>5, <1>6, <1>8 DEF FlagsTyped

LEMMA OpenedSteps ==
  ASSUME [Next]_vars
  PROVE  \/ UNCHANGED <<session, ready, failed, active, revoked, uncertain, mark, vouched>>
         \/ RunEffect \/ UseAccount \/ EnterHouse \/ OpenHouse \/ FailBoot \/ LeaveLost
         \/ (\E u \in User : SignIn(u)) \/ SignOut \/ Restore \/ Reload
         \/ CompletePurge \/ PurgeLost \/ Refuse
BY DEF Next, Tab, Server, Environment, vars, CheckWrite, LandWrite, ClearSnapshots,
     ClearQueue, FailPurge, DropBoot, ImportAccount, ApplyChanges, WriteCursor,
     Submits, Acknowledge, EndSync, ShowPage, AnswerBoot, AnswerSync, Edit, Retry,
     StartSync, Refresh, LeaveHouse, LoseAnswer, ChangeMember, account, app, fence,
     stored

(* The house is opened for the session it was confirmed to; whatever       *)
(* changes the session, the scope or the membership closes it first, and   *)
(* a session signed in later is another one.                               *)
LEMMA OpenedNext ==
  ASSUME IInv, [Next]_vars
  PROVE  OpenedIsConfirmed'
<1>0. ProcessesTyped /\ SessionsCounted /\ PurgeHolds /\ OpenedIsConfirmed BY DEF IInv
<1>1. CASE UNCHANGED <<session, ready, failed, active, revoked, uncertain, mark, vouched>>
  BY <1>0, <1>1 DEF OpenedIsConfirmed, Writable
<1>2. CASE RunEffect
  BY <1>2 DEF RunEffect, OpenedIsConfirmed, Writable, account
<1>3. CASE UseAccount \/ EnterHouse \/ LeaveLost
  <2>1. ASSUME boot.st # "none" PROVE boot.s.user # Home
    BY <1>0, <2>1, BootRuns, ScopesDistinct DEF BootType, Session
  <2>2. ASSUME LeaveLost PROVE session.user # Home
    BY <1>0, <2>2, SyncRuns, ScopesDistinct DEF LeaveLost, SameContext, SyncType, Session
  <2>3. active' # Home
    BY <1>3, <2>1, <2>2, ScopesDistinct DEF UseAccount, Arrived, EnterHouse, LeaveLost
  <2> QED BY <2>3 DEF OpenedIsConfirmed
<1>4. CASE OpenHouse
  BY <1>4 DEF OpenHouse, Current, OpenedIsConfirmed, account
<1>5. CASE FailBoot
  BY <1>5 DEF FailBoot, OpenedIsConfirmed
<1>6. ASSUME NEW u \in User, SignIn(u) PROVE OpenedIsConfirmed'
  <2>1. session' \in Session /\ session'.n = signIns + 1 /\ ready' = ready
    BY <1>0, <1>6, NewSession DEF SignIn
  <2>2. ready # NoSession => ready.n <= signIns /\ ready.n \in Nat
    BY <1>0 DEF SessionsCounted, Maybe, Session
  <2>3. signIns \in Nat BY <1>0 DEF SessionsCounted
  <2>4. ready' # session' BY <2>1, <2>2, <2>3, SessionDistinct
  <2> QED BY <2>4 DEF OpenedIsConfirmed
<1>7. CASE SignOut \/ Reload BY <1>7 DEF SignOut, Reload, OpenedIsConfirmed
<1>8. CASE Restore
  <2>1. ready' = NoSession BY <1>0, <1>8 DEF Restore, SessionsCounted
  <2> QED BY <2>1 DEF OpenedIsConfirmed
<1>9. CASE CompletePurge
  <2>1. revoked' BY <1>0, <1>9 DEF CompletePurge, PurgeHolds, fence
  <2> QED BY <2>1 DEF OpenedIsConfirmed, Writable
<1>10. CASE PurgeLost \/ Refuse
  <2>1. CASE Begins BY <2>1 DEF Begins, OpenedIsConfirmed, Writable
  <2>2. CASE UNCHANGED <<purge, revoked, uncertain, mark, stay, vouched>>
    <3>1. UNCHANGED <<session, ready, failed, active>>
      BY <1>10 DEF PurgeLost, Refuse, account, app
    <3> QED BY <1>1, <2>2, <3>1
  <2> QED BY <1>10, <2>1, <2>2, Beginning
<1> QED BY <1>1, <1>2, <1>3, <1>4, <1>5, <1>6, <1>7, <1>8, <1>9, <1>10, OpenedSteps

LEMMA DeniedNext ==
  ASSUME IInv, [Next]_vars
  PROVE  DeniedIsRefused'
<1>0. ProcessesTyped /\ DeniedIsRefused BY DEF IInv
<1>1. refused \subseteq refused'
  BY DEF Next, Tab, Server, Environment, vars, CheckWrite, LandWrite, ClearSnapshots,
     ClearQueue, CompletePurge, FailPurge, RunEffect, DropBoot, PurgeLost,
     UseAccount, EnterHouse, ImportAccount, OpenHouse, ApplyChanges, WriteCursor,
     Submits, Acknowledge, Refuse, LeaveLost, EndSync, ShowPage, AnswerBoot,
     AnswerSync, Edit, Retry, StartSync, Refresh, LeaveHouse, LoseAnswer, SignOut,
     Reload, Restore, FailBoot, SignIn, ChangeMember
<1>2. BootMoves /\ SyncMoves BY BootSteps, SyncSteps DEF IInv
<1>3. ASSUME boot'.st = "answered", boot'.confirmed # Home
      PROVE  boot'.s \in refused'
  <2>1. CASE AnswerBoot
    <3>1. boot \in BootType BY <1>0, <2>1, BootRuns DEF AnswerBoot
    <3> DEFINE c == IF boot.s.user \in member THEN Home ELSE boot.s.user
    <3>2. boot' = [boot EXCEPT !.st = "answered", !.confirmed = c] BY <2>1 DEF AnswerBoot
    <3>3. c # Home => boot.s.user \notin member OBVIOUS
    <3> HIDE DEF c
    <3>4. boot'.s = boot.s /\ boot'.confirmed = c BY <3>1, <3>2 DEF BootType
    <3> QED BY <1>3, <2>1, <3>3, <3>4 DEF AnswerBoot
  <2>2. CASE ~AnswerBoot
    <3>1. ~(boot' = NoBoot) BY <1>3, NoneRuns
    <3>2. ~RunEffect
      <4>1. ASSUME RunEffect PROVE boot'.st # "answered"
        BY <4>1 DEF RunEffect, NoBoot
      <4> QED BY <1>3, <4>1
    <3>3. ASSUME boot.st # "none",
                 NEW st \in {"purging", "purged", "failed", "importing"},
                 boot' = [boot EXCEPT !.st = st]
          PROVE  FALSE
      <4>1. boot \in BootType BY <1>0, <3>3, BootRuns
      <4> QED BY <1>3, <3>3, <4>1 DEF BootType
    <3>4. boot' = boot BY <1>2, <2>2, <3>1, <3>2, <3>3 DEF BootMoves
    <3> QED BY <1>0, <1>1, <1>3, <3>4 DEF DeniedIsRefused
  <2> QED BY <2>1, <2>2
<1>4. ASSUME sync'.st = "refused"
      PROVE  sync'.s \in refused'
  <2>1. CASE AnswerSync
    <3>1. sync \in SyncType BY <1>0, <2>1, SyncRuns DEF AnswerSync
    <3>2. sync.s.user \notin member BY <1>4, <2>1, <3>1 DEF AnswerSync, SyncType
    <3>3. sync' = [sync EXCEPT !.st = "refused"] /\ refused' = refused \cup {sync.s}
      BY <2>1, <3>2 DEF AnswerSync
    <3> QED BY <3>1, <3>3 DEF SyncType
  <2>2. CASE ~AnswerSync
    <3>1. ~(sync' = NoSync) BY <1>4, NoneRuns
    <3>2. ~StartSync
      <4>1. ASSUME StartSync PROVE sync'.st # "refused" BY <4>1 DEF StartSync
      <4> QED BY <1>4, <4>1
    <3>3. ASSUME sync.st # "none",
                 NEW st \in {"applying", "applied", "advancing", "advanced",
                             "purging", "purged", "failed"},
                 sync' = [sync EXCEPT !.st = st]
          PROVE  FALSE
      <4>1. sync \in SyncType BY <1>0, <3>3, SyncRuns
      <4> QED BY <1>4, <3>3, <4>1 DEF SyncType
    <3>4. sync' = sync BY <1>2, <2>2, <3>1, <3>2, <3>3 DEF SyncMoves
    <3> QED BY <1>0, <1>1, <1>4, <3>4 DEF DeniedIsRefused
  <2> QED BY <2>1, <2>2
<1> QED BY <1>3, <1>4 DEF DeniedIsRefused

-----------------------------------------------------------------------------
(* The theorems.                                                           *)

LEMMA InitInv == Init => IInv
<1> SUFFICES ASSUME Init PROVE IInv OBVIOUS
<1>1. 1 \in 1 .. MaxSignIns /\ 0 \in 0 .. MaxEvents /\ 0 \in 0 .. MaxSignIns
      /\ 1 \in 0 .. MaxSignIns
  BY BoundsTyped
<1>2. Fresh \/ \E u \in User : Settled(u) BY DEF Init
<1> DEFINE v == Write("row", 1, 0).value
<1>3. v \in Value /\ v.edit = 0 /\ v.of = 1 BY <1>1 DEF Init, Write, Value
<1>4. /\ session \in Maybe /\ signIns \in 0 .. MaxSignIns
      /\ session # NoSession => session.n <= signIns
  <2>1. CASE Fresh BY <1>1, <2>1 DEF Fresh, Maybe
  <2>2. ASSUME NEW u \in User, Settled(u)
        PROVE  session \in Session /\ session.n = 1 /\ signIns = 1
    BY <1>1, <2>2 DEF Settled, Session
  <2> QED BY <1>1, <1>2, <2>1, <2>2 DEF Maybe
<1>5. active \in Scope /\ personal \in Scope \ {Home} /\ house \in BOOLEAN
  BY <1>2, ScopesDistinct DEF Fresh, Settled, Scope
<1>6. row \subseteq {v} /\ cursor \subseteq {v}
  BY <1>2 DEF Fresh, Settled
<1> HIDE DEF v
<1>7. TypeOK
  <2>1. SessionsTyped BY <1>4 DEF Init, SessionsTyped
  <2>2. ValuesTyped BY <1>3, <1>6 DEF Init, ValuesTyped
  <2>3. ScopesTyped BY <1>5 DEF ScopesTyped
  <2>4. FlagsTyped
    <3>1. restored \in BOOLEAN /\ listening \in BOOLEAN BY DEF Init
    <3>2. {mark, revoked, uncertain, due, failed} \subseteq BOOLEAN /\ stay = 1 BY DEF Init
    <3> QED BY <1>5, <3>1, <3>2 DEF FlagsTyped
  <2> QED BY <2>1, <2>2, <2>3, <2>4, TypeParts
<1>8. ProcessesTyped
  <2>1. boot = NoBoot /\ sync = NoSync /\ page = NoPage /\ purge = "none" BY DEF Init
  <2> QED BY <2>1 DEF ProcessesTyped
<1>9. SessionsCounted BY <1>4 DEF Init, SessionsCounted
<1>10. WritesAwaited /\ PurgeHolds BY DEF Init, WritesAwaited, PurgeHolds
<1>11. OfThisStay BY <1>3, <1>6 DEF Init, OfThisStay
<1>12. OpenedIsConfirmed BY DEF Init, OpenedIsConfirmed
<1>13. DeniedIsRefused BY NoneRuns DEF Init, DeniedIsRefused
<1> QED BY <1>7, <1>8, <1>9, <1>10, <1>11, <1>12, <1>13 DEF IInv

LEMMA NextInv == IInv /\ [Next]_vars => IInv'
BY TypeParts, SessionsNext, ValuesNext, ScopesNext, FlagsNext, ProcessesNext, AwaitedNext,
   PurgeNext, StayNext, OpenedNext, DeniedNext DEF IInv

LEMMA Inductive == Spec => []IInv
BY InitInv, NextInv, PTL DEF Spec

(* Every variable of the device holds a value of its kind.                 *)
THEOREM TypeCorrect == Spec => []TypeOK
BY Inductive, PTL DEF IInv

(* What a purge was to destroy does not come back: the fence lets no write *)
(* in while the mark is set, the purge begins to clear once those under    *)
(* way are done, and the mark goes last.                                   *)
THEOREM PurgedStaysGoneHolds == Spec => []PurgedStaysGone
<1>1. IInv => PurgedStaysGone BY DEF IInv, OfThisStay, PurgedStaysGone
<1> QED BY <1>1, Inductive, PTL

(* The house is shown only for the session the server confirmed it to.     *)
THEOREM ShownIsConfirmedHolds == Spec => []ShownIsConfirmed
<1>1. IInv => ShownIsConfirmed
  <2> SUFFICES ASSUME IInv, Shown, active = Home PROVE vouched = session
    BY DEF ShownIsConfirmed
  <2>1. Writable BY DEF Shown, Visible
  <2>2. session # NoSession BY ScopesDistinct DEF Shown, Expected
  <2> QED BY <2>1, <2>2 DEF IInv, OpenedIsConfirmed, Shown
<1> QED BY <1>1, Inductive, PTL

(* A house is purged only for a session that the server told that it is no *)
(* member, or to go on with a purge that was left unfinished.              *)
THEOREM PurgedWhenRefusedHolds == Spec => PurgedWhenRefused
<1>1. IInv /\ [Next]_vars => [stay' # stay => mark \/ session \in refused]_vars
  <2> SUFFICES ASSUME IInv, [Next]_vars, stay' # stay
               PROVE  mark \/ session \in refused
    OBVIOUS
  <2>1. PurgeLost \/ EnterHouse \/ Refuse
    BY PurgeSteps DEF ClearSnapshots, ClearQueue, CompletePurge, FailPurge, Reload
  <2>2. CASE PurgeLost
    BY <2>2 DEF PurgeLost, Lost, Current, IInv, DeniedIsRefused
  <2>3. CASE EnterHouse BY <2>3 DEF EnterHouse
  <2>4. CASE Refuse BY <2>4 DEF Refuse, InContext, IInv, DeniedIsRefused
  <2> QED BY <2>1, <2>2, <2>3, <2>4
<1> QED BY <1>1, Inductive, PTL DEF Spec, PurgedWhenRefused
=============================================================================
