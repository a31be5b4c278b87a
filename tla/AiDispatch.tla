----------------------------- MODULE AiDispatch -----------------------------
(***************************************************************************)
(* What stands between a user and an AI provider: the consent of the user  *)
(* and its advisory lock, the gate that bounds the dispatches of a         *)
(* process, the pool of PostgreSQL connections they share with everything  *)
(* else, the quota ledger of the chef chat with its mirror in Redis and    *)
(* the daily counter of recipe generations.                                *)
(*                                                                         *)
(* One process of the server.  A call is one request of POST /v1/chef-chat *)
(* (a chat) or POST /v1/ai-recipes, from its arrival to its answer; a      *)
(* device changes the consent of its user.  Only chats keep a row in       *)
(* chef_chat_operations, only generations count in Redis.                  *)
(***************************************************************************)
EXTENDS Integers, FiniteSets, Sequences

CONSTANTS
  User,
  Call,           \* the requests, each made once
  Chats,          \* those to the chef chat; the others generate a recipe
  Owner,          \* the user of each call
  Device,         \* devices that change the consent of their user
  DeviceUser,     \* the user of each device
  Edit,           \* the changes each device may ask for
  NoCall,         \* no quota check in progress
  Capacity,       \* slots of the dispatch gate
  QueueSize,      \* calls that may wait for a slot
  Connections,    \* options.max of the pool
  DailyLimit,     \* chats of a user a day
  GlobalLimit,    \* chats at a time, of all users
  Generations,    \* MAX_GENERATIONS_PER_DAY
  MaxAttempts,    \* MAX_NOVELTY_GENERATION_ATTEMPTS
  MaxDay,         \* bound on the days
  MaxRevision,    \* bound on the revision of a consent
  MaxFaults       \* bound on failures, restarts, lost clients and acts of the operator

ASSUME CallsTyped   == /\ IsFiniteSet(Call) /\ Chats \subseteq Call /\ NoCall \notin Call
                       /\ Owner \in [Call -> User] /\ DeviceUser \in [Device -> User]
ASSUME GateTyped    == Capacity \in Nat \ {0} /\ QueueSize \in Nat
ASSUME PoolTyped    == Connections \in Nat /\ Capacity < Connections /\ IsFiniteSet(Device)
ASSUME LimitsTyped  == /\ DailyLimit \in Nat \ {0} /\ GlobalLimit \in Nat \ {0}
                       /\ Generations \in Nat /\ MaxAttempts \in Nat \ {0}
ASSUME AiBoundsTyped == MaxDay \in Nat /\ MaxRevision \in Nat /\ MaxFaults \in Nat

VARIABLES
  consent,    \* the ai_consent row of each user
  seen,       \* the consent each device has read
  editing,    \* the update each device waits to make, if any
  call,       \* the progress of each call
  active,     \* slots of the gate in use
  queue,      \* calls waiting for a slot, in order
  check,      \* the quota operation in progress (`checking`)
  op,         \* chef_chat_operations: the row of each chat
  mirror,     \* the operations Redis counts today
  enabled,    \* chef_chat_control
  provider,   \* the call of the provider made for each call
  used,       \* the generation counter of each user and day
  today,
  faults

consents == <<consent, seen, editing>>
gate     == <<active, queue>>
quota    == <<check, op, mirror, enabled>>
world    == <<today, faults>>
vars     == <<consents, call, gate, quota, provider, used, world>>

Feature == {"home", "dinner", "chat"}
FeatureOf(c) == IF c \in Chats THEN "chat" ELSE "home"

Consent == [enabled : BOOLEAN, features : SUBSET Feature, revision : Nat]
EditType == [enabled : {"on", "off", "keep"}, grants : SUBSET Feature,
             revokes : SUBSET Feature]
Update == [enabled : {"on", "off", "keep"}, grants : SUBSET Feature,
           revokes : SUBSET Feature, expected : Nat]
NoUpdate == [enabled |-> "keep", grants |-> {}, revokes |-> {}, expected |-> 0]

Pc == {"idle", "reserving", "acquire", "queued", "connect", "lock", "consent",
       "dispatch", "dispatching", "calling", "leaving", "sent", "cancelling", "done"}

(* `next` is where a call goes when it has left the gate.                  *)
CallType == [pc : Pc, next : {"sent", "failed", "again", "done"}, aborted : BOOLEAN,
             attempted : BOOLEAN, attempts : Nat, day : Nat,
             charge : {"none", "reserved", "committed", "released"}]

Check == [call : Call, what : {"reserve", "dispatch", "cancel"}, live : BOOLEAN,
          stage : {"store", "mirror", "undo", "release"}, mirrored : BOOLEAN]
NoCheck == [call |-> NoCall]

OpState == {"none", "reserved", "dispatched", "settled", "cancelled"}

TypeOK ==
  /\ consent \in [User -> Consent] /\ seen \in [Device -> Consent]
  /\ editing \in [Device -> Update]
  /\ call \in [Call -> CallType]
  /\ active \in Nat /\ queue \in Seq(Call)
  /\ check \in Check \cup {NoCheck}
  /\ op \in [Chats -> [state : OpState, day : Nat]]
  /\ mirror \subseteq Chats /\ enabled \in BOOLEAN
  /\ provider \in [Call -> [state : {"idle", "running", "answered", "failed", "closed"}, day : Nat]]
  /\ used \in [User -> [0 .. MaxDay -> Nat]]
  /\ today \in 0 .. MaxDay /\ faults \in Nat

ASSUME EditsTyped == Edit \in [Device -> SUBSET EditType]

(* Every user has given a first consent; nothing has been asked for yet.   *)
Init ==
  /\ consent = [u \in User |->
       [enabled |-> TRUE, features |-> {"home", "chat"}, revision |-> 1]]
  /\ seen = [d \in Device |-> consent[DeviceUser[d]]]
  /\ editing = [d \in Device |-> NoUpdate]
  /\ call = [c \in Call |-> [pc |-> "idle", next |-> "done", aborted |-> FALSE,
               attempted |-> FALSE, attempts |-> 0, day |-> 0, charge |-> "none"]]
  /\ active = 0 /\ queue = <<>>
  /\ check = NoCheck
  /\ op = [c \in Chats |-> [state |-> "none", day |-> 0]]
  /\ mirror = {} /\ enabled = TRUE
  /\ provider = [c \in Call |-> [state |-> "idle", day |-> 0]]
  /\ used = [u \in User |-> [d \in 0 .. MaxDay |-> 0]]
  /\ today = 0 /\ faults = 0

-----------------------------------------------------------------------------
(* The pool and the lock, as functions of the progress of the calls.       *)

HoldsSlot(c)       == call[c].pc \in {"connect", "lock", "consent", "dispatch",
                                      "dispatching", "calling", "leaving"}
HoldsConnection(c) == HoldsSlot(c) /\ call[c].pc # "connect"
HoldsLock(c)       == HoldsConnection(c) /\ call[c].pc \notin {"lock", "leaving"}

Waiting == {d \in Device : editing[d] # NoUpdate}

(* A connection of the pool is free.                                       *)
Pool == Cardinality({c \in Call : HoldsConnection(c)}) + Cardinality(Waiting) < Connections

(* Mutant: the lock of the consent is not waited for.                      *)
LockIgnored(u) == u \in User

LockFree(u) == \A c \in Call : HoldsLock(c) => Owner[c] # u

Fails == faults < MaxFaults /\ faults' = faults + 1

(* A call that is over keeps only its charge.                              *)
At(r, pc) == IF pc = "done"
             THEN [r EXCEPT !.pc = pc, !.next = "done", !.aborted = FALSE,
                            !.attempted = FALSE, !.attempts = 0]
             ELSE [r EXCEPT !.pc = pc]
To(c, pc) == [call EXCEPT ![c] = At(@, pc)]

-----------------------------------------------------------------------------
(* The consent.                                                            *)

IsGrant(u) == u.enabled = "on" \/ u.grants # {}

(* assertCurrentConsentRevision and the checks of applyAiConsentUpdate.    *)
Refused(current, u) ==
  \/ u.enabled = "on" /\ u.grants \cap {"home", "chat"} = {}
  \/ IsGrant(u) /\ u.expected # current.revision
  \/ u.grants \cap {"home", "chat"} # {} /\ u.enabled # "on" /\ ~current.enabled
  \/ u.grants \cap {"dinner", "chat"} # {} /\ u.enabled = "off"
  \/ "dinner" \in u.grants /\ ~current.enabled

(* Mutant: the revision is the clock, which can stand still.               *)
RevisionOfClock(current, now) == now

NextRevision(current, now) ==
  IF now > current.revision THEN now ELSE current.revision + 1

(* What applyAiConsentUpdate makes of the stored consent.                  *)
Updated(current, u, now) ==
  LET on == IF u.enabled = "keep" THEN current.enabled ELSE u.enabled = "on"
  IN [enabled  |-> on,
      features |-> IF on THEN ((IF current.enabled THEN current.features ELSE {})
                                 \cup u.grants) \ u.revokes
                   ELSE {},
      revision |-> NextRevision(current, now)]

(* GET /v1/ai-recipes/consent; only a grant depends on what was read.      *)
ReadConsent(d) ==
  /\ \E e \in Edit[d] : IsGrant(e)
  /\ seen[d] # consent[DeviceUser[d]]
  /\ seen' = [seen EXCEPT ![d] = consent[DeviceUser[d]]]
  /\ UNCHANGED <<consent, editing, call, gate, quota, provider, used, world>>

(* PUT /v1/ai-recipes/consent opens a transaction and waits for the lock.  *)
BeginUpdate(d, e) ==
  LET held   == consent[DeviceUser[d]]
      update == [enabled |-> e.enabled, grants |-> e.grants, revokes |-> e.revokes,
                 expected |-> seen[d].revision]
  IN /\ editing[d] = NoUpdate /\ Pool
     /\ held.revision < MaxRevision \/ Refused(held, update)
     /\ editing' = [editing EXCEPT ![d] = update]
     /\ UNCHANGED <<consent, seen, call, gate, quota, provider, used, world>>

(* updateAiConsent under the lock; also the ai_consent branch of           *)
(* applyMutation, which can only switch the consent off.                   *)
ApplyUpdate(d) ==
  LET u == DeviceUser[d] IN
  /\ editing[d] # NoUpdate /\ LockFree(u)
  /\ IF Refused(consent[u], editing[d]) THEN UNCHANGED consent
     ELSE \E now \in 0 .. 1 :
            consent' = [consent EXCEPT ![u] = Updated(consent[u], editing[d], now)]
  /\ editing' = [editing EXCEPT ![d] = NoUpdate]
  /\ UNCHANGED <<seen, call, gate, quota, provider, used, world>>

(* lock_timeout.                                                           *)
UpdateTimesOut(d) ==
  /\ editing[d] # NoUpdate /\ ~LockFree(DeviceUser[d])
  /\ editing' = [editing EXCEPT ![d] = NoUpdate]
  /\ UNCHANGED <<consent, seen, call, gate, quota, provider, used, world>>

-----------------------------------------------------------------------------
(* The gate.                                                               *)

Joined == UNCHANGED <<consents, quota, provider, used, world>>

(* Where a call goes that fails: a chat cancels its reservation unless its *)
(* dispatch was attempted, a generation gives its charge back.             *)
AfterFailure(c) ==
  IF c \in Chats THEN IF call[c].attempted THEN "done" ELSE "cancelling" ELSE "done"

(* releaseGeneration and reservation.release, or reservation.commit.       *)
Uncharged(c) == IF call[c].charge = "reserved"
                THEN [used EXCEPT ![Owner[c]][call[c].day] = IF @ > 0 THEN @ - 1 ELSE 0]
                ELSE used
Charge(c, to) == IF call[c].charge = "reserved" THEN to ELSE call[c].charge

FailTo(c) == [call EXCEPT ![c] = At([@ EXCEPT !.charge = Charge(c, "released")],
                                    AfterFailure(c))]

(* acquire: a free slot is taken only if nobody waits.                     *)
Acquire(c) ==
  /\ call[c].pc = "acquire" /\ ~call[c].aborted
  /\ active < Capacity /\ queue = <<>>
  /\ active' = active + 1 /\ call' = To(c, "connect")
  /\ UNCHANGED queue /\ Joined

Enqueue(c) ==
  /\ call[c].pc = "acquire" /\ ~call[c].aborted
  /\ ~(active < Capacity /\ queue = <<>>) /\ Len(queue) < QueueSize
  /\ queue' = Append(queue, c) /\ call' = To(c, "queued")
  /\ UNCHANGED active /\ Joined

RefuseSlot(c) ==
  /\ call[c].pc = "acquire"
  /\ \/ call[c].aborted
     \/ ~(active < Capacity /\ queue = <<>>) /\ Len(queue) >= QueueSize
  /\ call' = FailTo(c) /\ used' = Uncharged(c)
  /\ UNCHANGED <<consents, gate, quota, provider, world>>

(* removeWaiter: the queue without the place of call `c`.                  *)
Without(c) ==
  LET i == CHOOSE k \in DOMAIN queue : queue[k] = c
  IN SubSeq(queue, 1, i - 1) \o SubSeq(queue, i + 1, Len(queue))

(* The timer of a waiting call.                                            *)
WaitTimesOut(c) ==
  /\ call[c].pc = "queued"
  /\ queue' = Without(c)
  /\ call' = FailTo(c) /\ used' = Uncharged(c)
  /\ UNCHANGED <<consents, active, quota, provider, world>>

(* Mutant of release: the slot is passed on and given back as well.        *)
PassedTwice == IF queue = <<>> THEN <<active - 1, <<>>, {}>>
               ELSE <<active - 1, Tail(queue), {Head(queue)}>>

(* The release of a slot wakes the first of those who wait: the slots in   *)
(* use, the queue and the calls woken.                                     *)
Passed == IF queue = <<>> THEN <<active - 1, <<>>, {}>>
          ELSE <<active, Tail(queue), {Head(queue)}>>

(* Call `c`, which holds a slot, gives it back and goes to `pc`.           *)
GivesBack(c, next) ==
  /\ active' = Passed[1] /\ queue' = Passed[2]
  /\ call' = [w \in Call |-> IF w = c THEN next
                             ELSE IF w \in Passed[3] THEN [call[w] EXCEPT !.pc = "connect"]
                             ELSE call[w]]

-----------------------------------------------------------------------------
(* withDatabaseAiConsentDispatchLock.                                      *)

(* A connection of the pool is reserved ...                                *)
Connect(c) ==
  /\ call[c].pc = "connect" /\ Pool
  /\ call' = To(c, "lock")
  /\ UNCHANGED gate /\ Joined

(* ... or none is to be had, the five seconds are over, or the client has   *)
(* gone.                                                                   *)
ConnectFails(c) ==
  /\ call[c].pc = "connect"
  /\ GivesBack(c, FailTo(c)[c]) /\ used' = Uncharged(c)
  /\ UNCHANGED <<consents, quota, provider, world>>

Lock(c) ==
  /\ call[c].pc = "lock" /\ LockFree(Owner[c])
  /\ call' = To(c, "consent")
  /\ UNCHANGED gate /\ Joined

Leaves(c, next) == [call EXCEPT ![c].pc = "leaving", ![c].next = next]

(* lock_timeout.                                                           *)
LockTimesOut(c) ==
  /\ call[c].pc = "lock" /\ ~LockFree(Owner[c])
  /\ call' = Leaves(c, "failed")
  /\ UNCHANGED gate /\ Joined

(* The consent is read under the lock.                                     *)
CheckConsent(c) ==
  LET held == consent[Owner[c]] IN
  /\ call[c].pc = "consent"
  /\ call' = IF held.enabled /\ FeatureOf(c) \in held.features THEN To(c, "dispatch")
             ELSE Leaves(c, "failed")
  /\ UNCHANGED gate /\ Joined

(* The rest of `finally`: the connection, then the slot.                   *)
Leave(c) ==
  LET next == call[c].next IN
  /\ call[c].pc = "leaving"
  /\ GivesBack(c, IF next = "failed" THEN FailTo(c)[c]
                  ELSE At([call[c] EXCEPT !.next = "done",
                             !.charge = IF next = "done" THEN Charge(c, "committed") ELSE @],
                          IF next = "again" THEN "acquire" ELSE next))
  /\ used' = IF next = "failed" THEN Uncharged(c) ELSE used
  /\ UNCHANGED <<consents, quota, provider, world>>

(* The client closes the connection.  The routes listen for it only after  *)
(* the reservation; a waiting call leaves the queue at once.               *)
Abort(c) ==
  /\ call[c].pc \notin {"idle", "reserving", "sent", "cancelling", "done"}
  /\ ~call[c].aborted /\ Fails
  /\ call[c].pc = "leaving" => call[c].next = "again"
  /\ IF call[c].pc = "queued"
     THEN /\ queue' = Without(c) /\ used' = Uncharged(c)
          /\ call' = FailTo(c)
     ELSE call' = [call EXCEPT ![c].aborted = TRUE] /\ UNCHANGED <<queue, used>>
  /\ UNCHANGED <<consents, active, quota, provider, today>>

-----------------------------------------------------------------------------
(* POST /v1/ai-recipes.                                                    *)

Requested == UNCHANGED <<consents, gate, quota, world>>

(* The generation is charged if the consent is on and the day has room.    *)
BeginGeneration(c) ==
  LET u == Owner[c] IN
  /\ c \notin Chats /\ call[c].pc = "idle"
  /\ IF consent[u].enabled /\ used[u][today] < Generations
     THEN /\ used' = [used EXCEPT ![u][today] = @ + 1]
          /\ call' = [call EXCEPT ![c].pc = "acquire", ![c].charge = "reserved",
                                  ![c].day = today]
     ELSE call' = To(c, "done") /\ UNCHANGED used
  /\ UNCHANGED provider /\ Requested

CallProvider(c) == [provider EXCEPT ![c] = [state |-> "running", day |-> today]]

(* The provider is called, and waited for, under the lock.                 *)
Generate(c) ==
  /\ c \notin Chats /\ call[c].pc = "dispatch"
  /\ provider' = CallProvider(c)
  /\ call' = [call EXCEPT ![c].pc = "calling", ![c].attempts = @ + 1]
  /\ UNCHANGED used /\ Requested

(* The recipe is given out, refused, or too close to a known one and asked *)
(* for again.                                                              *)
Generated(c) ==
  /\ call[c].pc = "calling"
  /\ \/ provider[c].state = "answered" /\ call' = Leaves(c, "done")
     \/ provider[c].state = "answered" /\ call[c].attempts < MaxAttempts
          /\ call' = Leaves(c, "again")
     \/ provider[c].state = "answered" /\ call[c].attempts = MaxAttempts
          /\ call' = Leaves(c, "failed")
     \/ provider[c].state = "failed" /\ call' = Leaves(c, "failed")
  /\ provider' = [provider EXCEPT ![c].state = "closed"]
  /\ UNCHANGED used /\ Requested

ProviderEnds(c) ==
  /\ provider[c].state = "running"
  /\ \E state \in {"answered", "failed"} : provider' = [provider EXCEPT ![c].state = state]
  /\ UNCHANGED <<call, used>> /\ Requested

-----------------------------------------------------------------------------
(* POST /v1/chef-chat and the quota, which performs one operation at a     *)
(* time (`checking`) and answers `false` to any other.                     *)

Quiet == UNCHANGED <<consents, gate, used, today>>

(* Where a call goes whose quota operation is refused, or failed.          *)
Denied(c, what) ==
  CASE what = "reserve"  -> To(c, "done")
    [] what = "dispatch" -> Leaves(c, "failed")
    [] what = "cancel"   -> To(c, "done")

Guard(c, what, pc, others) ==
  IF check = NoCheck
  THEN /\ check' = [call |-> c, what |-> what, live |-> TRUE, stage |-> "store",
                    mirrored |-> FALSE]
       /\ call' = [others EXCEPT ![c].pc = pc]
  ELSE /\ call' = [Denied(c, what) EXCEPT ![c].attempted =
                     @ \/ (what = "dispatch" /\ others[c].attempted)]
       /\ UNCHANGED check

BeginChat(c) ==
  /\ c \in Chats /\ call[c].pc = "idle"
  /\ Guard(c, "reserve", "reserving", call)
  /\ UNCHANGED <<op, mirror, enabled, provider, faults>> /\ Quiet

(* The message may be sent: the quota is asked for the last time.          *)
DispatchChat(c) ==
  /\ c \in Chats /\ call[c].pc = "dispatch"
  /\ IF call[c].aborted THEN call' = Leaves(c, "failed") /\ UNCHANGED check
     ELSE Guard(c, "dispatch", "dispatching", [call EXCEPT ![c].attempted = TRUE])
  /\ UNCHANGED <<op, mirror, enabled, provider, faults>> /\ Quiet

CancelChat(c) ==
  /\ call[c].pc = "cancelling" /\ check.call # c
  /\ Guard(c, "cancel", "cancelling", call)
  /\ UNCHANGED <<op, mirror, enabled, provider, faults>> /\ Quiet

(* A quota operation ends and tells the route, unless it has timed out.    *)
Ends(next) == check' = NoCheck /\ call' = (IF check.live THEN next ELSE call)
GoesOn(stage) == check' = [check EXCEPT !.stage = stage] /\ UNCHANGED call

InCheck(what, stage) == check # NoCheck /\ check.what \in what /\ check.stage = stage

(* Redis does not answer the ping, or only when nobody waits any more.     *)
PingFails ==
  /\ check # NoCheck /\ check.stage = "store"
  /\ \/ ~check.live /\ Ends(call) /\ UNCHANGED faults
     \/ Fails /\ Ends(Denied(check.call, check.what))
  /\ UNCHANGED <<op, mirror, enabled, provider>> /\ Quiet

(* The route gives up after a second, the operation goes on.               *)
CheckTimesOut ==
  /\ check # NoCheck /\ check.live /\ Fails
  /\ check' = [check EXCEPT !.live = FALSE]
  /\ call' = Denied(check.call, check.what)
  /\ UNCHANGED <<op, mirror, enabled, provider>> /\ Quiet

(* The rows decideQuota counts as active, or as of this day.               *)
ActiveOps == {c \in Chats : op[c].state \in {"reserved", "dispatched"}}
OpsToday(u) == {c \in Chats : /\ Owner[c] = u /\ op[c].day = today
                              /\ op[c].state \notin {"none", "cancelled"}}

Admits(u) == /\ \A c \in ActiveOps : Owner[c] # u
             /\ Cardinality(ActiveOps) < GlobalLimit
             /\ Cardinality(OpsToday(u)) < DailyLimit

ReserveStore ==
  LET c == check.call IN
  /\ InCheck({"reserve"}, "store") /\ Pool
  /\ IF enabled /\ Admits(Owner[c])
     THEN /\ op' = [op EXCEPT ![c] = [state |-> "reserved", day |-> today]]
          /\ GoesOn(IF check.live THEN "mirror" ELSE "undo")
     ELSE Ends(To(c, "done")) /\ UNCHANGED op
  /\ UNCHANGED <<mirror, enabled, provider, faults>> /\ Quiet

MirrorHasRoom(u) == Cardinality({c \in mirror : Owner[c] = u}) < DailyLimit

ReserveMirror ==
  LET c == check.call
      room == MirrorHasRoom(Owner[c])
  IN /\ InCheck({"reserve"}, "mirror")
     /\ \/ /\ mirror' = (IF room THEN mirror \cup {c} ELSE mirror)
           /\ IF room /\ check.live THEN Ends(To(c, "acquire"))
              ELSE /\ check' = [check EXCEPT !.stage = "undo", !.mirrored = room]
                   /\ UNCHANGED call
           /\ UNCHANGED faults
        \/ /\ Fails /\ GoesOn("undo") /\ UNCHANGED mirror
     /\ UNCHANGED <<op, enabled, provider>> /\ Quiet

(* store.cancel, inside reserve or by itself.                              *)
Cancelled(c) == [op EXCEPT ![c].state = IF @ = "reserved" THEN "cancelled" ELSE @]

CancelStore ==
  LET c == check.call IN
  /\ InCheck({"reserve"}, "undo") \/ InCheck({"cancel"}, "store")
  /\ \/ /\ Pool /\ op' = Cancelled(c) /\ UNCHANGED faults
        /\ IF op'[c].state = "cancelled" /\ (check.what = "cancel" \/ check.mirrored)
           THEN GoesOn("release") ELSE Ends(To(c, "done"))
     \/ Fails /\ Ends(To(c, "done")) /\ UNCHANGED op
  /\ UNCHANGED <<mirror, enabled, provider>> /\ Quiet

ReleaseMirror ==
  /\ InCheck({"reserve", "cancel"}, "release")
  /\ \/ mirror' = mirror \ {check.call} /\ UNCHANGED faults
     \/ Fails /\ UNCHANGED mirror
  /\ Ends(To(check.call, "done"))
  /\ UNCHANGED <<op, enabled, provider>> /\ Quiet

(* Mutant: the row keeps the time of the reservation.                      *)
DispatchedAtReservation(c) == [op EXCEPT ![c] = [state |-> "dispatched", day |-> op[c].day]]

Dispatched(c) == [op EXCEPT ![c] = [state |-> "dispatched", day |-> today]]

(* store.dispatch, and what the route does with its answer.                *)
DispatchStore ==
  LET c    == check.call
      sent == check.live /\ ~call[c].aborted
  IN /\ InCheck({"dispatch"}, "store")
     /\ \/ /\ Pool /\ enabled /\ op[c].state = "reserved"
           /\ op' = Dispatched(c)
           /\ Ends(Leaves(c, IF sent THEN "sent" ELSE "failed"))
           /\ provider' = IF sent THEN CallProvider(c) ELSE provider
           /\ UNCHANGED faults
        \/ /\ Pool /\ ~(enabled /\ op[c].state = "reserved")
           /\ Ends(Leaves(c, "failed"))
           /\ UNCHANGED <<op, provider, faults>>
        \/ Fails /\ Ends(Leaves(c, "failed")) /\ UNCHANGED <<op, provider>>
     /\ UNCHANGED <<mirror, enabled>> /\ Quiet

(* Mutant: settled as soon as the provider is done, whatever came of it.   *)
SettlesAnyway(c) == provider[c].state \in {"answered", "failed"}

Settles(c) == provider[c].state = "answered"

(* store.settle, after the answer; nobody tries again when it fails.       *)
Settle(c) ==
  /\ c \in Chats /\ op[c].state = "dispatched" /\ Settles(c)
  /\ \/ Pool /\ op' = [op EXCEPT ![c].state = "settled"] /\ UNCHANGED <<provider, faults>>
     \/ Fails /\ UNCHANGED op /\ provider' = [provider EXCEPT ![c].state = "closed"]
  /\ UNCHANGED <<call, check, mirror, enabled>> /\ Quiet

AnswerChat(c) ==
  /\ call[c].pc = "sent" /\ provider[c].state # "running"
  /\ call' = To(c, "done")
  /\ UNCHANGED <<quota, provider, faults>> /\ Quiet

-----------------------------------------------------------------------------
(* The operator, the calendar and the process.                             *)

Disable ==
  /\ Fails /\ enabled /\ enabled' = FALSE
  /\ UNCHANGED <<consents, call, gate, check, op, mirror, provider, used, today>>

(* Redis drops the entries of earlier days by the time of the reservation. *)
NextDay ==
  /\ today < MaxDay /\ today' = today + 1 /\ mirror' = {}
  /\ UNCHANGED <<consents, call, gate, check, op, enabled, provider, used, faults>>

(* The process dies and starts again: what it held is given up, rows and   *)
(* counters stay, and the provider may go on with what it was sent.        *)
Restart ==
  /\ Fails
  /\ call' = [c \in Call |-> IF call[c].pc = "idle" THEN call[c]
                             ELSE At(call[c], "done")]
  /\ active' = 0 /\ queue' = <<>> /\ check' = NoCheck
  /\ editing' = [d \in Device |-> NoUpdate]
  /\ provider' = [c \in Call |->
       CASE provider[c].state = "running"  -> [provider[c] EXCEPT !.state = "failed"]
         [] provider[c].state = "answered" -> [provider[c] EXCEPT !.state = "closed"]
         [] OTHER -> provider[c]]
  /\ UNCHANGED <<consent, seen, op, mirror, enabled, used, today>>

Gate(c) == \/ Acquire(c) \/ Enqueue(c) \/ RefuseSlot(c) \/ WaitTimesOut(c)
           \/ Connect(c) \/ ConnectFails(c) \/ Lock(c) \/ LockTimesOut(c)
           \/ CheckConsent(c) \/ Leave(c)
Route(c) == \/ Generate(c) \/ Generated(c) \/ DispatchChat(c) \/ CancelChat(c)
            \/ AnswerChat(c)
QuotaStep == \/ PingFails \/ CheckTimesOut \/ ReserveStore \/ ReserveMirror
             \/ CancelStore \/ ReleaseMirror \/ DispatchStore

Next ==
  \/ \E c \in Call : \/ BeginGeneration(c) \/ BeginChat(c) \/ Abort(c)
                     \/ Gate(c) \/ Route(c) \/ ProviderEnds(c) \/ Settle(c)
  \/ QuotaStep
  \/ \E d \in Device : \/ ReadConsent(d) \/ ApplyUpdate(d) \/ UpdateTimesOut(d)
                       \/ \E e \in Edit[d] : BeginUpdate(d, e)
  \/ Disable \/ NextDay \/ Restart

Spec == Init /\ [][Next]_vars

-----------------------------------------------------------------------------
(* Properties.                                                             *)

(* The gate neither loses nor doubles a slot: the slots it counts are those *)
(* of the calls that hold one, never more than its capacity, and nobody    *)
(* waits while a slot is free, whatever is granted, timed out and aborted  *)
(* at the same moment.                                                     *)
NoSlotLost ==
  /\ active = Cardinality({c \in Call : HoldsSlot(c)})
  /\ active <= Capacity
  /\ queue # <<>> => active = Capacity
  /\ \A c \in Call : call[c].pc = "queued" <=> \E i \in DOMAIN queue : queue[i] = c

(* Nothing is sent to a provider unless the user's consent to that feature *)
(* is in force at that moment: a revocation that was confirmed is never    *)
(* overtaken by a call that had read the consent before.                   *)
SentUnderConsent ==
  [][\A c \in Call :
       provider[c].state # "running" /\ provider'[c].state = "running" =>
         /\ consent[Owner[c]].enabled
         /\ FeatureOf(c) \in consent[Owner[c]].features]_vars

(* A consent is given only by a device that has read the consent it adds   *)
(* to: one that has not seen a revocation cannot undo it.                  *)
GivenKnowingly ==
  [][\A u \in User :
       ~(consent'[u].features \subseteq consent[u].features) =>
         \E d \in Device : DeviceUser[d] = u /\ editing[d] # editing'[d]
                           /\ seen[d] = consent[u]]_vars

(* The provider works on a chat only while the ledger counts it, also when *)
(* the route has given up on it, and so on no more of them than allowed.   *)
Working == {c \in Chats : provider[c].state \in {"running", "failed"}}

WorkIsCounted ==
  /\ \A c \in Working : op[c].state = "dispatched"
  /\ Cardinality(Working) <= GlobalLimit
  /\ \A c, w \in Working : c # w => Owner[c] # Owner[w]

(* Each day counts its own work, across midnight: no user has more chats   *)
(* sent in a day than the limit, with reservations of the day before sent  *)
(* after it; and the counter of a day is the number of generations of that *)
(* day that were not given back, none charged twice, none given back twice *)
(* or to another day.                                                      *)
EachDayCounted ==
  \A u \in User, d \in 0 .. MaxDay :
    /\ Cardinality({c \in Chats : /\ Owner[c] = u /\ provider[c].state # "idle"
                                  /\ provider[c].day = d}) <= DailyLimit
    /\ used[u][d] = Cardinality({c \in Call \ Chats : /\ Owner[c] = u /\ call[c].day = d
                                   /\ call[c].charge \in {"reserved", "committed"}})
    /\ used[u][d] <= Generations

(* chefChat.test.ts:89 expects a chat whose consent was withdrawn to be    *)
(* cancelled: one whose message was definitely not sent, and which met no  *)
(* fault, does not stay in the ledger, where it bars its user.             *)
UnsentIsCancelled ==
  \A c \in Chats : call[c].pc = "done" /\ provider[c].state = "idle" /\ faults = 0 =>
                     op[c].state \in {"none", "cancelled"}
=============================================================================
