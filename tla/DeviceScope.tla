----------------------------- MODULE DeviceScope -----------------------------
(***************************************************************************)
(* What one browser tab keeps of a house and when it may show or change    *)
(* it: the effect of App.tsx that bootstraps the scope of a session        *)
(* (initializeSessionScope), the fence every scoped write passes           *)
(* (scopeWriteFence.ts), the purge of a lost house (clearDataScope), a     *)
(* synchronization's answer landing among them, signing in and out, and a  *)
(* reload at any point.                                                    *)
(*                                                                         *)
(* One house, seen by the users of one browser.  A stored value is the     *)
(* stay it belongs to: stay counts the purges of the house begun on this   *)
(* device, so what carries an earlier number was to be destroyed.  The     *)
(* account's own data, the outboxes and the pages of a synchronization are *)
(* left out; localStorage is available.                                    *)
(***************************************************************************)
EXTENDS Naturals, FiniteSets

CONSTANTS
  User,
  Home,        \* the scope house:<id>; a user stands for its account scope
  Guest,       \* the scope of a device without a session
  NoSession,
  MaxSignIns,
  MaxEvents    \* bound on the edits, the faults, reloads among them, and the
               \* changes of the membership

ASSUME ScopesDistinct == Home # Guest /\ {Home, Guest} \cap User = {}
ASSUME BoundsTyped == MaxSignIns \in Nat \ {0} /\ MaxEvents \in Nat

Session == [user : User, n : 1 .. MaxSignIns]
ASSUME SessionDistinct == NoSession \notin Session

VARIABLES
  member,    \* house_memberships: the users in the house
  cookie,    \* the session the browser's cookie belongs to
  \* stored on the device
  row, queue, cursor,   \* the values of the snapshot, of the queue and of the cursor
  mark,      \* ikuck:pending-house-purge
  active, personal,     \* the active and the personal data scope
  \* in the memory of the tab
  session, restored,    \* authStore and sessionRestored
  revoked, uncertain,   \* revokedScopes, uncertainScopes
  pending,   \* pendingWrites: the scoped writes under way
  boot, purge, sync, page,
  house,     \* houseStore knows the house
  due, seen, \* the effect must run; the session it last ran for
  ready, failed, listening,
  \* history
  stay, signIns, events,
  vouched,   \* the session to which the server confirmed the membership
  refused    \* the sessions to which the server denied it

stored  == <<row, queue, cursor, mark>>
fence   == <<revoked, uncertain, pending>>
app     == <<house, due, seen, ready, failed, listening>>
account == <<cookie, session, restored>>
counts  == <<signIns, events>>
vars    == <<member, account, stored, active, personal, fence, boot, purge,
             sync, page, app, stay, counts, vouched, refused>>

NoBoot  == [st |-> "none"]
NoSync  == [st |-> "none"]
NoPage  == [st |-> "none"]

Event == events < MaxEvents /\ events' = events + 1 /\ UNCHANGED signIns

(***************************************************************************)
(* The fence.                                                              *)
(***************************************************************************)
Writable == ~revoked /\ ~uncertain /\ ~mark

(* Mutant: the page goes on showing a scope that is closed.                *)
VisibleAnyway == "active"

(* What App shows: the active scope, unless it is closed, against the one  *)
(* the session and the house store make it expect.                         *)
Visible  == IF active = Home /\ ~Writable THEN "revoked" ELSE "active"
Expected == IF session = NoSession THEN Guest
            ELSE IF house THEN Home ELSE session.user
Shown    == /\ restored /\ ~failed /\ ready = session
            /\ Visible = "active" /\ active = Expected

(* trackScopedWrite takes a write only while the scope is writable; the    *)
(* write asks again just before its put.  A value remembers the stay it    *)
(* was submitted in and, of an answer, the stay that asked for it.         *)
Write(kind, asked, k) ==
  [kind |-> kind, value |-> [of |-> stay, asked |-> asked, edit |-> k], at |-> "submitted"]
Submitted == {w \in pending : w.at = "submitted"}
Passed    == {w \in pending : w.at = "passed"}

CheckWrite(w) ==
  /\ w \in Submitted
  /\ pending' = (pending \ {w}) \cup
                  (IF Writable THEN {[w EXCEPT !.at = "passed"]} ELSE {})
  /\ sync' = IF ~Writable /\ w.kind \in {"apply", "cursor"} THEN NoSync ELSE sync
  /\ UNCHANGED <<member, account, stored, active, personal, revoked, uncertain,
                 boot, purge, page, app, stay, counts, vouched, refused>>

(* The put of a write that passed lands whatever happened since.           *)
LandWrite(w) ==
  /\ w \in Passed
  /\ pending' = (pending \ {w}) \cup
                  (IF w.kind = "row" THEN {[w EXCEPT !.kind = "queue", !.at = "submitted"]} ELSE {})
  /\ row'    = IF w.kind \in {"row", "apply"} THEN row \cup {[w.value EXCEPT !.edit = 0]} ELSE row
  /\ queue'  = IF w.kind = "queue" THEN queue \cup {w.value} ELSE queue
  /\ cursor' = IF w.kind = "cursor" THEN {w.value} ELSE cursor
  /\ sync'   = CASE w.kind = "apply"  -> [sync EXCEPT !.st = "applied"]
                 [] w.kind = "cursor" -> [sync EXCEPT !.st = "advanced"]
                 [] OTHER -> sync
  /\ UNCHANGED <<member, account, mark, active, personal, revoked, uncertain,
                 boot, purge, page, app, stay, counts, vouched, refused>>

(* React runs a due effect before the user can do anything else.           *)
Idle == ~due

(* The user edits the diary of the house: the snapshot is written and then *)
(* the mutation queued, both within one scoped write.                      *)
Edit ==
  /\ Idle /\ Shown /\ session # NoSession /\ active = Home
  /\ Event
  /\ pending' = pending \cup {Write("row", stay, events')}
  /\ UNCHANGED <<member, account, stored, active, personal, revoked, uncertain, boot,
                 purge, sync, page, app, stay, vouched, refused>>

(***************************************************************************)
(* clearDataScope.  The revocation and its mark come first, the snapshots  *)
(* wait for the writes under way, and a failed step leaves the mark.       *)
(***************************************************************************)
Revokes ==
  IF purge # "none" THEN UNCHANGED <<purge, revoked, uncertain, mark, stay, vouched>>
  ELSE /\ purge' = "waiting" /\ revoked' = TRUE /\ uncertain' = FALSE /\ mark' = TRUE
       /\ stay' = stay + 1 /\ vouched' = NoSession

(* Mutant: the promise of a failed purge is never settled.                 *)
ToldOfSuccess(process, outcome) ==
  IF process.st = "purging" /\ outcome = "purged" THEN [process EXCEPT !.st = outcome]
  ELSE process

(* Who awaits the purge goes on with its outcome.                          *)
Told(process, outcome) ==
  IF process.st = "purging" THEN [process EXCEPT !.st = outcome] ELSE process

(* Mutant: the purge does not wait for the writes under way.               *)
DrainedAtOnce == TRUE

(* waitForScopedWrites and the applications of an answer.                  *)
Drained == pending = {} /\ sync.st # "applying"

ClearSnapshots ==
  /\ purge = "waiting" /\ Drained
  /\ row' = {} /\ purge' = "queue"
  /\ UNCHANGED <<member, account, queue, cursor, mark, active, personal, fence, boot,
                 sync, page, app, stay, counts, vouched, refused>>

ClearQueue ==
  /\ purge = "queue"
  /\ queue' = {} /\ purge' = "cursor"
  /\ UNCHANGED <<member, account, row, cursor, mark, active, personal, fence, boot,
                 sync, page, app, stay, counts, vouched, refused>>

(* The cursor goes last, then the mark.                                    *)
CompletePurge ==
  /\ purge = "cursor"
  /\ cursor' = {} /\ mark' = FALSE /\ purge' = "none"
  /\ boot' = Told(boot, "purged") /\ sync' = Told(sync, "purged")
  /\ UNCHANGED <<member, account, row, queue, active, personal, fence, page, app,
                 stay, counts, vouched, refused>>

FailPurge ==
  /\ purge # "none" /\ (purge = "waiting" => Drained)
  /\ Event
  /\ purge' = "none"
  /\ boot' = Told(boot, "failed") /\ sync' = Told(sync, "failed")
  /\ UNCHANGED <<member, account, stored, active, personal, fence, page, app, stay,
                 vouched, refused>>

(***************************************************************************)
(* The effect of App and initializeSessionScope.                           *)
(***************************************************************************)
(* A change of the session or of the house store makes the effect due.     *)
HouseBecomes(h) == house' = h /\ due' = (due \/ h # house)

(* The cleanup of the last run drops its bootstrap and its listener.  The  *)
(* house in use is uncertain from here on.                                 *)
RunEffect ==
  /\ restored /\ due
  /\ seen' = session /\ failed' = FALSE /\ listening' = FALSE
  /\ house' = (house /\ seen = session)
  /\ due' = (house' # house)
  /\ IF session = NoSession
     THEN /\ active' = Guest /\ personal' = Guest /\ ready' = session
          /\ boot' = NoBoot /\ uncertain' = uncertain
     ELSE /\ uncertain' = (uncertain \/ active = Home)
          /\ boot' = [st |-> "asking", s |-> session, prev |-> active,
                      prevPersonal |-> personal, confirmed |-> Guest]
          /\ UNCHANGED <<active, personal, ready>>
  /\ UNCHANGED <<member, account, stored, revoked, pending, purge, sync, page, stay,
                 counts, vouched, refused>>

Current == boot.s = session

(* The answer of GET /v1/house; boot.confirmed is Guest until it is here.  *)
AnswerBoot ==
  /\ boot.st = "asking"
  /\ boot' = [boot EXCEPT !.st = "answered",
                 !.confirmed = IF boot.s.user \in member THEN Home ELSE boot.s.user]
  /\ refused' = IF boot.s.user \in member THEN refused ELSE refused \cup {boot.s}
  /\ UNCHANGED <<member, account, stored, active, personal, fence, purge, sync, page,
                 app, stay, counts, vouched>>

(* After every await a bootstrap whose session or run is over ends there.  *)
DropBoot ==
  /\ boot.st \in {"asking", "answered", "purged", "failed", "importing"} /\ ~Current
  /\ boot' = NoBoot
  /\ UNCHANGED <<member, account, stored, active, personal, fence, purge, sync, page,
                 app, stay, counts, vouched, refused>>

(* A house left behind is purged before anything else is activated.        *)
Lost == boot.prev = Home /\ boot.confirmed # Home /\ active = Home

PurgeLost ==
  /\ boot.st = "answered" /\ Current /\ Lost
  /\ boot' = [boot EXCEPT !.st = "purging"]
  /\ Revokes
  /\ UNCHANGED <<member, account, row, queue, cursor, active, personal, pending, sync,
                 page, app, counts, refused>>

Arrived == boot.st = "purged" \/ (boot.st = "answered" /\ ~Lost)

(* No house: the account scope is activated.                               *)
UseAccount ==
  /\ Arrived /\ Current /\ boot.confirmed # Home
  /\ active' = boot.s.user /\ personal' = boot.s.user
  /\ HouseBecomes(FALSE) /\ ready' = boot.s /\ listening' = TRUE
  /\ boot' = NoBoot
  /\ UNCHANGED <<member, account, stored, fence, purge, sync, page, seen, failed,
                 stay, counts, vouched, refused>>

(* A house: a purge an earlier departure left unfinished is done first.    *)
EnterHouse ==
  /\ boot.st = "answered" /\ Current /\ boot.confirmed = Home
  /\ active' = Guest /\ personal' = boot.s.user
  /\ IF mark
     THEN boot' = [boot EXCEPT !.st = "purging"] /\ Revokes
     ELSE /\ boot' = [boot EXCEPT !.st = "importing"]
          /\ UNCHANGED <<purge, revoked, uncertain, mark, stay, vouched>>
  /\ UNCHANGED <<member, account, row, queue, cursor, pending, sync, page, app, counts,
                 refused>>

ImportAccount ==
  /\ boot.st = "purged" /\ Current /\ boot.confirmed = Home
  /\ boot' = [boot EXCEPT !.st = "importing"]
  /\ UNCHANGED <<member, account, stored, active, personal, fence, purge, sync, page,
                 app, stay, counts, vouched, refused>>

QueueWritesDone == \A w \in pending : w.kind # "queue"

(* resumeScope and the activation of the house, once the account's queue   *)
(* is imported.                                                            *)
OpenHouse ==
  /\ boot.st = "importing" /\ Current /\ QueueWritesDone /\ ~mark
  /\ revoked' = FALSE /\ uncertain' = FALSE /\ active' = Home
  /\ HouseBecomes(TRUE) /\ ready' = boot.s /\ listening' = TRUE
  /\ vouched' = boot.s
  /\ boot' = NoBoot
  /\ UNCHANGED <<member, account, stored, personal, pending, purge, sync, page, seen,
                 failed, stay, counts, refused>>

(* The catch of initializeSessionScope: a lookup, a purge or an import     *)
(* failed.  A confirmed house is opened all the same, unless it is still   *)
(* to be purged; an unconfirmed one stays closed, and only for its user.   *)
Fails ==
  \/ boot.st \in {"asking", "importing"} /\ Event
  \/ boot.st = "failed" /\ UNCHANGED counts

FailBoot ==
  /\ boot.st # "none" /\ Current /\ Fails
  /\ LET u == boot.s.user
         keeps == boot.prev = Home /\ mark
         opens == ~keeps /\ boot.confirmed = Home
         known == boot.confirmed \notin {Guest, boot.prev}
     IN /\ active' = CASE keeps -> active
                       [] opens -> Home
                       [] known -> u
                       [] OTHER -> IF boot.prevPersonal = u THEN boot.prev ELSE u
        /\ personal' = IF keeps THEN personal ELSE u
        /\ revoked'   = (revoked /\ ~(opens /\ ~mark))
        /\ uncertain' = (uncertain /\ ~(opens /\ ~mark))
        /\ vouched'   = IF opens /\ ~mark THEN boot.s ELSE vouched
  /\ failed' = TRUE /\ boot' = NoBoot
  /\ UNCHANGED <<member, account, stored, pending, purge, sync, page, house, due, seen,
                 ready, listening, stay, refused>>

(* The user asks for another try.                                          *)
Retry ==
  /\ Idle /\ failed /\ session # NoSession
  /\ due' = TRUE
  /\ UNCHANGED <<member, account, stored, active, personal, fence, boot, purge, sync, page,
                 house, seen, ready, failed, listening, stay, counts, vouched, refused>>

(***************************************************************************)
(* A synchronization of the house.                                         *)
(***************************************************************************)
(* Mutant: the session of a request is not compared.                       *)
InContextOfUser == /\ active = Home /\ personal = sync.s.user /\ ~uncertain

(* assertCurrentContext                                                    *)
InContext == /\ sync.s = session /\ active = Home /\ personal = sync.s.user
             /\ ~uncertain

(* isCurrentContext of syncVerifiedSession, after an error.                *)
SameContext == sync.s = session /\ active = Home /\ personal = sync.s.user

StartSync ==
  /\ sync.st = "none" /\ listening /\ session # NoSession
  /\ active = Home /\ personal = session.user /\ ~uncertain /\ QueueWritesDone
  /\ sync' = [st |-> "sent", s |-> session, asked |-> stay, batch |-> queue]
  /\ UNCHANGED <<member, account, stored, active, personal, fence, boot, purge, page, app,
                 stay, counts, vouched, refused>>

AnswerSync ==
  /\ sync.st = "sent"
  /\ IF sync.s.user \in member
     THEN /\ sync' = [sync EXCEPT !.st = "accepted"]
          /\ refused' = refused
     ELSE /\ sync' = [sync EXCEPT !.st = "refused"]
          /\ refused' = refused \cup {sync.s}
  /\ UNCHANGED <<member, account, stored, active, personal, fence, boot, purge, page, app,
                 stay, counts, vouched>>

(* applyServerChanges and then the cursor are scoped writes of their own.  *)
Submits(from, kind, to) ==
  /\ sync.st = from /\ InContext /\ Writable
  /\ pending' = pending \cup {Write(kind, sync.asked, 0)}
  /\ sync' = [sync EXCEPT !.st = to]
  /\ UNCHANGED <<member, account, stored, active, personal, revoked, uncertain, boot,
                 purge, page, app, stay, counts, vouched, refused>>

ApplyChanges == Submits("accepted", "apply", "applying")
WriteCursor  == Submits("applied", "cursor", "advancing")

(* The uploaded mutations leave the queue last.                            *)
Acknowledge ==
  /\ sync.st = "advanced" /\ InContext
  /\ queue' = queue \ sync.batch /\ sync' = NoSync
  /\ UNCHANGED <<member, account, row, cursor, mark, active, personal, fence, boot, purge,
                 page, app, stay, counts, vouched, refused>>

(* A refusal of the membership purges the house, if the context is still   *)
(* the one of the request.                                                 *)
Refuse ==
  /\ sync.st = "refused" /\ InContext
  /\ sync' = [sync EXCEPT !.st = "purging"]
  /\ Revokes
  /\ UNCHANGED <<member, account, row, queue, cursor, active, personal, pending, boot,
                 page, app, counts, refused>>

LeaveLost ==
  /\ sync.st = "purged" /\ SameContext
  /\ active' = session.user /\ personal' = session.user
  /\ HouseBecomes(FALSE)
  /\ sync' = NoSync
  /\ UNCHANGED <<member, account, stored, fence, boot, purge, page, seen, ready, failed,
                 listening, stay, counts, vouched, refused>>

EndSync ==
  /\ \/ sync.st = "failed"
     \/ sync.st \in {"accepted", "applied", "advanced", "refused"} /\ ~InContext
     \/ sync.st \in {"accepted", "applied"} /\ ~Writable
     \/ sync.st = "purged" /\ ~SameContext
  /\ sync' = NoSync
  /\ UNCHANGED <<member, account, stored, active, personal, fence, boot, purge, page, app,
                 stay, counts, vouched, refused>>

(* The answer is lost, after the server took the mutations or before.      *)
LoseAnswer ==
  /\ sync.st \in {"sent", "accepted", "refused"} /\ Event
  /\ sync' = NoSync
  /\ UNCHANGED <<member, account, stored, active, personal, fence, boot, purge, page, app,
                 stay, vouched, refused>>

(***************************************************************************)
(* HousePage: refresh and leave.  The server's answer may be shown late.   *)
(***************************************************************************)
Refresh ==
  /\ Idle /\ page.st = "none" /\ session # NoSession /\ Shown
  /\ page' = [st |-> IF session.user \in member THEN "house" ELSE "no house"]
  /\ refused' = IF session.user \in member THEN refused ELSE refused \cup {session}
  /\ UNCHANGED <<member, account, stored, active, personal, fence, boot, purge, sync, app,
                 stay, counts, vouched>>

ShowPage ==
  /\ page.st \in {"house", "no house"}
  /\ HouseBecomes(page.st = "house") /\ page' = NoPage
  /\ UNCHANGED <<member, account, stored, active, personal, fence, boot, purge, sync, seen,
                 ready, failed, listening, stay, counts, vouched, refused>>

LeaveHouse ==
  /\ Idle /\ page.st = "none" /\ session # NoSession /\ Shown /\ session.user \in member
  /\ Event
  /\ member' = member \ {session.user}
  /\ page' = [st |-> "no house"] /\ refused' = refused \cup {session}
  /\ UNCHANGED <<account, stored, active, personal, fence, boot, purge, sync, app, stay,
                 vouched>>

(* Other members add a user or remove one.                                 *)
ChangeMember(u) ==
  /\ Event
  /\ member' = IF u \in member THEN member \ {u} ELSE member \cup {u}
  /\ UNCHANGED <<account, stored, active, personal, fence, boot, purge, sync, page, app,
                 stay, vouched, refused>>

(***************************************************************************)
(* Sessions.                                                               *)
(***************************************************************************)
SignIn(u) ==
  /\ Idle /\ restored /\ session = NoSession /\ signIns < MaxSignIns
  /\ signIns' = signIns + 1
  /\ session' = [user |-> u, n |-> signIns'] /\ cookie' = session'
  /\ due' = TRUE
  /\ UNCHANGED <<member, restored, stored, active, personal, fence, boot, purge, sync, page,
                 house, seen, ready, failed, listening, stay, events,
                 vouched, refused>>

(* logout drops the session of the tab even when its request fails.        *)
SignOut ==
  /\ Idle /\ session # NoSession
  /\ session' = NoSession /\ due' = TRUE
  /\ \/ cookie' = NoSession /\ UNCHANGED counts
     \/ cookie' = cookie /\ Event
  /\ UNCHANGED <<member, restored, stored, active, personal, fence, boot, purge, sync, page,
                 house, seen, ready, failed, listening, stay, vouched, refused>>

(* The tab is reloaded: its memory is gone, what is under way with it.     *)
Reload ==
  /\ Event
  /\ session' = NoSession /\ restored' = FALSE
  /\ revoked' = FALSE /\ uncertain' = FALSE /\ pending' = {}
  /\ boot' = NoBoot /\ purge' = "none" /\ sync' = NoSync /\ page' = NoPage
  /\ house' = FALSE /\ due' = FALSE /\ seen' = NoSession /\ ready' = NoSession
  /\ failed' = FALSE /\ listening' = FALSE /\ vouched' = NoSession
  /\ UNCHANGED <<member, cookie, stored, active, personal, stay, refused>>

(* restoreSession, or its failure.                                         *)
Restore ==
  /\ ~restored /\ restored' = TRUE /\ due' = TRUE
  /\ \/ session' = cookie /\ UNCHANGED counts
     \/ session' = NoSession /\ Event
  /\ UNCHANGED <<member, cookie, stored, active, personal, fence, boot, purge, sync, page,
                 house, seen, ready, failed, listening, stay, vouched, refused>>

(* A browser nobody has signed in on, or one whose user u has been in the  *)
(* house for a while, whatever has become of the membership since.         *)
Fresh ==
  /\ session = NoSession /\ active = Guest /\ personal = Guest /\ house = FALSE
  /\ row = {} /\ cursor = {} /\ signIns = 0

Settled(u) ==
  /\ session = [user |-> u, n |-> 1] /\ active = Home /\ personal = u /\ house = TRUE
  /\ row = {Write("row", 1, 0).value} /\ cursor = row /\ signIns = 1

Init ==
  /\ member \in SUBSET User
  /\ stay = 1 /\ (Fresh \/ \E u \in User : Settled(u))
  /\ cookie = session /\ seen = session /\ ready = session /\ vouched = session
  /\ restored = TRUE /\ due = FALSE /\ failed = FALSE
  /\ listening = (session # NoSession)
  /\ queue = {} /\ mark = FALSE
  /\ revoked = FALSE /\ uncertain = FALSE /\ pending = {}
  /\ boot = NoBoot /\ purge = "none" /\ sync = NoSync /\ page = NoPage
  /\ events = 0 /\ refused = {}

Tab ==
  \/ \E w \in pending : CheckWrite(w) \/ LandWrite(w)
  \/ ClearSnapshots \/ ClearQueue \/ CompletePurge
  \/ RunEffect \/ DropBoot \/ PurgeLost \/ UseAccount \/ EnterHouse
  \/ ImportAccount \/ OpenHouse
  \/ ApplyChanges \/ WriteCursor \/ Acknowledge \/ Refuse \/ LeaveLost \/ EndSync
  \/ ShowPage

Server == AnswerBoot \/ AnswerSync

Environment ==
  \/ Edit \/ Retry \/ StartSync \/ Refresh \/ LeaveHouse
  \/ FailPurge \/ LoseAnswer \/ SignOut \/ Reload \/ Restore \/ FailBoot
  \/ \E u \in User : SignIn(u) \/ ChangeMember(u)

Next == Tab \/ Server \/ Environment

Spec == Init /\ [][Next]_vars

(* The browser goes on running what it has begun, and the server answers. *)
FairSpec ==
  /\ Spec
  /\ WF_vars(\E w \in pending : CheckWrite(w))
  /\ WF_vars(\E w \in pending : LandWrite(w))
  /\ WF_vars(ClearSnapshots \/ ClearQueue \/ CompletePurge)
  /\ WF_vars(DropBoot \/ PurgeLost \/ UseAccount \/ EnterHouse \/ ImportAccount
              \/ OpenHouse \/ (boot.st = "failed" /\ FailBoot))
  /\ WF_vars(Server)
  /\ WF_vars(ApplyChanges \/ WriteCursor \/ Acknowledge \/ Refuse \/ LeaveLost \/ EndSync)

(***************************************************************************)
(* Properties.                                                             *)
(***************************************************************************)
Value == [of : Nat, asked : Nat, edit : 0 .. MaxEvents]
Scope == {Home, Guest} \cup User

(* Every variable holds a value of its kind; a snapshot and a cursor are no *)
(* edits.                                                                  *)
TypeOK ==
  /\ member \subseteq User /\ {cookie, session, seen, vouched} \subseteq Session \cup {NoSession}
  /\ row \cup queue \cup cursor \subseteq Value
  /\ \A v \in row \cup cursor : v.edit = 0
  /\ pending \subseteq [kind : {"row", "queue", "apply", "cursor"}, value : Value,
                        at : {"submitted", "passed"}]
  /\ {active, personal} \subseteq Scope /\ personal # Home
  /\ {mark, restored, revoked, uncertain, house, due, failed, listening} \subseteq BOOLEAN
  /\ refused \subseteq Session /\ stay \in Nat \ {0}

(* Unless a purge is still owed, nothing stored for the house was written  *)
(* before the last purge of it began: neither a write under way, nor a     *)
(* failed step, nor a reload, nor the membership coming back lets a        *)
(* destroyed snapshot, edit or cursor return (clearDataScope, revokeScope, *)
(* waitForScopedWrites).                                                   *)
PurgedStaysGone == mark \/ \A v \in row \cup queue \cup cursor : v.of = stay

(* The same of what an answer brings: it was asked for in this stay.       *)
AnswersAreOfThisStay == mark \/ \A v \in row \cup queue \cup cursor : v.asked = stay

(* The house is on the screen only for the session the server confirmed    *)
(* it to, and no longer than until its loss is acted upon (App.tsx).       *)
ShownIsConfirmed == Shown /\ active = Home => vouched = session

(* The first step of a purge is taken for a session that the server told   *)
(* it is not a member, never for another session's late answer.            *)
PurgedWhenRefused ==
  [][stay' # stay => mark \/ session \in refused]_vars

(* Every bootstrap ends: the writes it drains, the purge it awaits and the *)
(* synchronization it interrupts never wait for one another.               *)
EveryBootEnds == [](boot.st # "none" => <>(boot.st = "none"))
=============================================================================
