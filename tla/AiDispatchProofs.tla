------------------------- MODULE AiDispatchProofs -------------------------
(***************************************************************************)
(* Theorems about AiDispatch, for every number of calls, users, devices,   *)
(* slots, connections and limits.                                          *)
(***************************************************************************)
EXTENDS AiDispatch, FiniteSetTheorems, TLAPS

(* Inside of the gate, outside of it, and there after the arrival.         *)
Inside  == {"connect", "lock", "consent", "dispatch", "dispatching", "calling", "leaving"}
Past    == {"reserving", "acquire", "sent", "cancelling", "done"}
Outside == Past \cup {"idle"}

(* The queue of the gate is the waiting calls, each once, and the slots    *)
(* are counted.                                                            *)
Holders == {c \in Call : HoldsSlot(c)}

QueueOK ==
  /\ \A i \in DOMAIN queue : call[queue[i]].pc = "queued"
  /\ \A c \in Call : call[c].pc = "queued" => \E i \in DOMAIN queue : queue[i] = c
  /\ \A i, k \in DOMAIN queue : queue[i] = queue[k] => i = k

SlotsOK ==
  /\ active = Cardinality(Holders) /\ active <= Capacity
  /\ queue # <<>> => active = Capacity

(* A quota operation somebody waits for is the one its chat has asked for; *)
(* only chats ask.                                                         *)
Asking == [reserve |-> "reserving", dispatch |-> "dispatching", cancel |-> "cancelling"]

CheckOK ==
  /\ \A c \in Call : call[c].pc = "cancelling" => c \in Chats
  /\ check # NoCheck => /\ check.call \in Chats
                        /\ check.live => call[check.call].pc = Asking[check.what]

(* Between the check of the consent and the call of the provider the       *)
(* consent is in force: the lock keeps every update of it out.             *)
ConsentHeld ==
  \A c \in Call : call[c].pc \in {"dispatch", "dispatching"} =>
    consent[Owner[c]].enabled /\ FeatureOf(c) \in consent[Owner[c]].features

(* A revision names one consent; what a device expects it has read.        *)
RevisionsOK ==
  \A d \in Device :
    LET held == consent[DeviceUser[d]]
    IN /\ held.revision > 0 /\ seen[d].revision <= held.revision
       /\ seen[d].revision = held.revision => seen[d] = held
       /\ editing[d].expected <= seen[d].revision

(* The rows of a day, and what may still be counted to another.            *)
Counts(state) == state \notin {"none", "cancelled"}
DayOps(u, d)  == {c \in Chats : Owner[c] = u /\ op[c].day = d /\ Counts(op[c].state)}

LedgerOK ==
  /\ \A c \in Chats : Counts(op[c].state) => op[c].day <= today
  /\ \A c, w \in ActiveOps : c # w => Owner[c] # Owner[w]
  /\ Cardinality(ActiveOps) <= GlobalLimit
  /\ \A c, w \in Chats : /\ op[c].state = "reserved" /\ Counts(op[w].state) /\ Owner[c] = Owner[w]
                         => op[w].day <= op[c].day
  /\ \A u \in User, d \in 0 .. MaxDay : Cardinality(DayOps(u, d)) <= DailyLimit

(* What the provider works or worked on is dispatched in the ledger, on    *)
(* the day it was sent; a chat that is not reserved yet was never sent.    *)
SentOK ==
  /\ \A c \in Chats : provider[c].state # "idle" =>
       op[c].state \in {"dispatched", "settled"} /\ op[c].day = provider[c].day
  /\ \A c \in Working : op[c].state = "dispatched"
  /\ \A c \in Chats : call[c].pc = "idle" => provider[c].state = "idle"
  /\ check # NoCheck /\ check.what = "reserve" /\ check.stage = "store" =>
       provider[check.call].state = "idle"

(* The generations of a user and day that are charged.                     *)
Charged(u, d) == {c \in Call \ Chats : /\ Owner[c] = u /\ call[c].day = d
                                       /\ call[c].charge \in {"reserved", "committed"}}

ChargesOK ==
  /\ \A c \in Call : call[c].pc = "idle" \/ c \in Chats => call[c].charge = "none"
  /\ \A c \in Call : call[c].day <= today
  /\ \A u \in User, d \in 0 .. MaxDay :
       used[u][d] = Cardinality(Charged(u, d)) /\ used[u][d] <= Generations

IInv == /\ TypeOK /\ QueueOK /\ SlotsOK /\ CheckOK /\ ConsentHeld /\ RevisionsOK
        /\ LedgerOK /\ SentOK /\ ChargesOK

-----------------------------------------------------------------------------
(* What a step does to one call.                                           *)

(* Only call `c` has changed, and it is at `pc`.                           *)
Became(c, pc) ==
  /\ call' \in [Call -> CallType] /\ call'[c].pc = pc
  /\ \A w \in Call \ {c} : call'[w] = call[w]

Charges(c) == <<call[c].charge, call[c].day>>
Keeps(c)   == Charges(c)' = Charges(c)

LEMMA AtFields ==
  ASSUME NEW r \in CallType, NEW pc \in Pc
  PROVE  /\ At(r, pc) \in CallType /\ At(r, pc).pc = pc
         /\ At(r, pc).charge = r.charge /\ At(r, pc).day = r.day
BY DEF At, CallType

LEMMA ToBecomes ==
  ASSUME TypeOK, NEW c \in Call, NEW pc \in Pc, call' = To(c, pc)
  PROVE  Became(c, pc) /\ Keeps(c)
<1>1. call \in [Call -> CallType] /\ call[c] \in CallType BY DEF TypeOK
<1> DEFINE n == At(call[c], pc)
<1>2. n \in CallType /\ n.pc = pc /\ n.charge = call[c].charge /\ n.day = call[c].day
  BY <1>1, AtFields
<1>3. call' = [call EXCEPT ![c] = n] BY DEF To
<1> HIDE DEF n
<1> QED BY <1>1, <1>2, <1>3 DEF Became, Keeps, Charges

LEMMA LeavesBecomes ==
  ASSUME TypeOK, NEW c \in Call, NEW next \in {"sent", "failed", "again", "done"},
         call' = Leaves(c, next)
  PROVE  Became(c, "leaving") /\ Keeps(c)
<1>1. call \in [Call -> CallType] /\ call[c] \in CallType BY DEF TypeOK
<1> DEFINE n == [call[c] EXCEPT !.pc = "leaving", !.next = next]
<1>2. n \in CallType /\ n.pc = "leaving" /\ n.charge = call[c].charge /\ n.day = call[c].day
  BY <1>1 DEF CallType, Pc
<1>3. call' = [call EXCEPT ![c] = n] BY <1>1 DEF Leaves
<1> HIDE DEF n
<1> QED BY <1>1, <1>2, <1>3 DEF Became, Keeps, Charges

LEMMA AfterFailureIs ==
  ASSUME NEW c \in Call
  PROVE  /\ AfterFailure(c) \in {"done", "cancelling"}
         /\ AfterFailure(c) = "cancelling" => c \in Chats
BY DEF AfterFailure

LEMMA Failed ==
  ASSUME TypeOK, NEW c \in Call
  PROVE  /\ FailTo(c)[c] \in CallType /\ FailTo(c)[c].pc = AfterFailure(c)
         /\ FailTo(c)[c].charge = Charge(c, "released")
         /\ FailTo(c)[c].day = call[c].day
         /\ FailTo(c) = [call EXCEPT ![c] = FailTo(c)[c]]
<1>1. call \in [Call -> CallType] /\ call[c] \in CallType BY DEF TypeOK
<1> DEFINE r == [call[c] EXCEPT !.charge = Charge(c, "released")]
           n == At(r, AfterFailure(c))
<1>2. Charge(c, "released") \in {"none", "reserved", "committed", "released"}
  BY <1>1 DEF Charge, CallType
<1>3. r \in CallType /\ r.charge = Charge(c, "released") /\ r.day = call[c].day
  BY <1>1, <1>2 DEF CallType
<1>4. AfterFailure(c) \in Pc BY AfterFailureIs DEF Pc
<1>5. n \in CallType /\ n.pc = AfterFailure(c) /\ n.charge = Charge(c, "released")
      /\ n.day = call[c].day
  <2> HIDE DEF r
  <2> QED BY <1>3, <1>4, AtFields
<1>6. FailTo(c) = [call EXCEPT ![c] = n] BY <1>1 DEF FailTo
<1> HIDE DEF n
<1>7. FailTo(c)[c] = n BY <1>1, <1>6
<1> QED BY <1>5, <1>6, <1>7

LEMMA FailToBecomes ==
  ASSUME TypeOK, NEW c \in Call, call' = FailTo(c)
  PROVE  /\ Became(c, AfterFailure(c))
         /\ call'[c].charge = Charge(c, "released") /\ call'[c].day = call[c].day
<1> DEFINE n == FailTo(c)[c]
<1>1. /\ n \in CallType /\ n.pc = AfterFailure(c) /\ n.charge = Charge(c, "released")
      /\ n.day = call[c].day /\ call' = [call EXCEPT ![c] = n]
  BY Failed
<1>2. call \in [Call -> CallType] BY DEF TypeOK
<1> HIDE DEF n
<1> QED BY <1>1, <1>2 DEF Became

(* Where a call goes whose quota operation is refused.                     *)
Refusal(what) == IF what = "dispatch" THEN "leaving" ELSE "done"

LEMMA DeniedBecomes ==
  ASSUME TypeOK, NEW c \in Call, NEW what \in {"reserve", "dispatch", "cancel"},
         call' = Denied(c, what)
  PROVE  Became(c, Refusal(what)) /\ Keeps(c)
<1>1. CASE what = "dispatch"
  <2>1. call' = Leaves(c, "failed") BY <1>1 DEF Denied
  <2> QED BY <1>1, <2>1, LeavesBecomes DEF Refusal
<1>2. CASE what # "dispatch"
  <2>1. call' = To(c, "done") BY <1>2 DEF Denied
  <2> QED BY <1>2, <2>1, ToBecomes DEF Refusal, Pc
<1> QED BY <1>1, <1>2

LEMMA Checking ==
  ASSUME TypeOK
  PROVE  /\ check # NoCheck => check \in Check
         /\ \A k \in Check : k # NoCheck
         /\ NoCheck.call = NoCall
BY CallsTyped DEF TypeOK, Check, NoCheck

LEMMA GuardBecomes ==
  ASSUME TypeOK, NEW c \in Call, NEW what \in {"reserve", "dispatch", "cancel"},
         NEW pc \in Pc, NEW b \in BOOLEAN,
         Guard(c, what, pc, [call EXCEPT ![c].attempted = b])
  PROVE  /\ Keeps(c)
         /\ \/ Became(c, pc) /\ check = NoCheck /\ check' \in Check
                /\ check'.call = c /\ check'.what = what /\ check'.live
                /\ check'.stage = "store"
            \/ Became(c, Refusal(what)) /\ check # NoCheck /\ check' = check
<1>1. call \in [Call -> CallType] /\ call[c] \in CallType /\ c \in Call
  BY CallsTyped DEF TypeOK
<1> DEFINE others == [call EXCEPT ![c].attempted = b]
<1>2. CASE check = NoCheck
  <2> DEFINE n == [call[c] EXCEPT !.attempted = b, !.pc = pc]
  <2>1. n \in CallType /\ n.pc = pc /\ n.charge = call[c].charge /\ n.day = call[c].day
    BY <1>1 DEF CallType
  <2>2. call' = [call EXCEPT ![c] = n] BY <1>1, <1>2 DEF Guard
  <2>3. /\ check' = [call |-> c, what |-> what, live |-> TRUE, stage |-> "store",
                     mirrored |-> FALSE]
    BY <1>2 DEF Guard
  <2>4. Became(c, pc) /\ Keeps(c)
    <3> HIDE DEF n
    <3> QED BY <1>1, <2>1, <2>2 DEF Became, Keeps, Charges
  <2> QED BY <1>1, <1>2, <2>3, <2>4 DEF Check
<1>3. CASE check # NoCheck
  <2> DEFINE a == call[c].attempted \/ (what = "dispatch" /\ others[c].attempted)
             d == IF what = "dispatch"
                  THEN [call[c] EXCEPT !.pc = "leaving", !.next = "failed"]
                  ELSE At(call[c], "done")
             x == d.attempted \/ (what = "dispatch" /\ others[c].attempted)
             n == [d EXCEPT !.attempted = x]
  <2>1. d \in CallType /\ d.pc = Refusal(what) /\ d.charge = call[c].charge
        /\ d.day = call[c].day
    <3>1. CASE what = "dispatch" BY <1>1, <3>1 DEF CallType, Pc, Refusal
    <3>2. CASE what # "dispatch"
      <4>1. d = At(call[c], "done") BY <3>2
      <4>2. "done" \in Pc BY DEF Pc
      <4> QED BY <1>1, <3>2, <4>1, <4>2, AtFields DEF Refusal
    <3> QED BY <3>1, <3>2
  <2>2. Denied(c, what) = [call EXCEPT ![c] = d]
    <3>1. CASE what = "dispatch" BY <1>1, <3>1 DEF Denied, Leaves
    <3>2. CASE what # "dispatch" BY <1>1, <3>2 DEF Denied, To
    <3> QED BY <3>1, <3>2
  <2>3. call' = [Denied(c, what) EXCEPT ![c].attempted =
                   @ \/ (what = "dispatch" /\ others[c].attempted)] /\ check' = check
    BY <1>3 DEF Guard
  <2>4. x \in BOOLEAN OBVIOUS
  <2> HIDE DEF d
  <2>5. call' = [call EXCEPT ![c] = n] BY <1>1, <2>2, <2>3
  <2> HIDE DEF x
  <2>6. n \in CallType /\ n.pc = d.pc /\ n.charge = d.charge /\ n.day = d.day
    BY <2>1, <2>4 DEF CallType
  <2> HIDE DEF n
  <2>7. Became(c, Refusal(what)) /\ Keeps(c)
    BY <1>1, <2>1, <2>5, <2>6 DEF Became, Keeps, Charges
  <2> QED BY <1>3, <2>3, <2>7
<1> QED BY <1>2, <1>3

-----------------------------------------------------------------------------
(* What a step of the quota does.                                          *)

(* Where the answer to an operation sends the chat that asked for it.      *)
Answers == [reserve |-> {"done", "acquire"}, dispatch |-> {"leaving"}, cancel |-> {"done"}]

LEMMA EndsMoves ==
  ASSUME TypeOK, check \in Check, check.call \in Call,
         NEW pc \in Answers[check.what], NEW next,
         next = To(check.call, pc) \/ (\E n \in {"sent", "failed", "again", "done"} :
                                          next = Leaves(check.call, n) /\ pc = "leaving"),
         Ends(next)
  PROVE  /\ check' = NoCheck
         /\ call' = call \/ (check.live /\ Keeps(check.call) /\ Became(check.call, pc))
<1>1. pc \in Pc BY DEF Answers, Check, Pc
<1>2. CASE ~check.live BY <1>2 DEF Ends
<1>3. CASE check.live
  <2>1. call' = next /\ check' = NoCheck BY <1>3 DEF Ends
  <2> QED BY <1>1, <1>3, <2>1, ToBecomes, LeavesBecomes
<1> QED BY <1>2, <1>3

QuotaMove ==
  /\ \/ check' = NoCheck
     \/ /\ check' \in Check /\ check'.call = check.call /\ check'.what = check.what
        /\ check'.live => check.live /\ call' = call
        /\ check'.stage = "store" => check.stage = "store"
  /\ \/ call' = call
     \/ /\ check.live /\ Keeps(check.call)
        /\ \E pc \in Answers[check.what] : Became(check.call, pc)

LEMMA DeniedAnswers ==
  ASSUME NEW what \in {"reserve", "dispatch", "cancel"}
  PROVE  Refusal(what) \in Answers[what]
BY DEF Refusal, Answers

LEMMA GoesOnMoves ==
  ASSUME check \in Check, NEW s \in {"mirror", "undo", "release"}, NEW b \in BOOLEAN,
         check' = [check EXCEPT !.stage = s] \/ check' = [check EXCEPT !.stage = s, !.mirrored = b],
         call' = call
  PROVE  QuotaMove
BY DEF QuotaMove, Check

LEMMA QuotaMoves ==
  ASSUME TypeOK, CheckOK, QuotaStep
  PROVE  check \in Check /\ check # NoCheck /\ check.call \in Chats /\ QuotaMove
<1>1. check # NoCheck
  BY DEF QuotaStep, PingFails, CheckTimesOut, ReserveStore, ReserveMirror, CancelStore,
     ReleaseMirror, DispatchStore, InCheck
<1>2. check \in Check BY <1>1, Checking
<1>3. check.call \in Chats /\ check.call \in Call BY <1>1, <1>2, CallsTyped DEF CheckOK, Check
<1>4. check.what \in {"reserve", "dispatch", "cancel"} /\ check.live \in BOOLEAN
  BY <1>2 DEF Check
<1> SUFFICES QuotaMove BY <1>1, <1>2, <1>3
<1>5. ASSUME Ends(Denied(check.call, check.what)) PROVE QuotaMove
  <2>1. CASE ~check.live BY <1>5, <2>1 DEF Ends, QuotaMove
  <2>2. CASE check.live
    <3>1. call' = Denied(check.call, check.what) /\ check' = NoCheck BY <1>5, <2>2 DEF Ends
    <3> QED BY <1>3, <1>4, <2>2, <3>1, DeniedBecomes, DeniedAnswers DEF QuotaMove
  <2> QED BY <2>1, <2>2
<1>6. ASSUME NEW pc \in Answers[check.what], Ends(To(check.call, pc)) PROVE QuotaMove
  BY <1>2, <1>3, <1>6, EndsMoves DEF QuotaMove
<1>7. ASSUME NEW n \in {"sent", "failed", "again", "done"}, check.what = "dispatch",
             Ends(Leaves(check.call, n)) PROVE QuotaMove
  <2>1. "leaving" \in Answers[check.what] BY <1>7 DEF Answers
  <2> QED BY <1>2, <1>3, <1>7, <2>1, EndsMoves DEF QuotaMove
<1>8. ASSUME NEW s \in {"mirror", "undo", "release"}, GoesOn(s) PROVE QuotaMove
  BY <1>2, <1>8, GoesOnMoves DEF GoesOn
<1>9. CASE PingFails
  <2>1. CASE ~check.live /\ Ends(call) BY <2>1 DEF Ends, QuotaMove
  <2> QED BY <1>5, <1>9, <2>1 DEF PingFails
<1>10. CASE CheckTimesOut
  <2>1. check' = [check EXCEPT !.live = FALSE] /\ check.live
        /\ call' = Denied(check.call, check.what)
    BY <1>10 DEF CheckTimesOut
  <2>2. Became(check.call, Refusal(check.what)) /\ Keeps(check.call)
    BY <1>3, <1>4, <2>1, DeniedBecomes
  <2> QED BY <1>2, <1>4, <2>1, <2>2, DeniedAnswers DEF QuotaMove, Check
<1>11. CASE ReserveStore
  <2>1. "done" \in Answers[check.what] BY <1>11 DEF ReserveStore, InCheck, Answers
  <2>2. CASE Ends(To(check.call, "done")) BY <1>6, <2>1, <2>2
  <2>3. CASE GoesOn(IF check.live THEN "mirror" ELSE "undo") BY <1>8, <2>3
  <2> QED BY <1>11, <2>2, <2>3 DEF ReserveStore
<1>12. CASE ReserveMirror
  <2> DEFINE room == MirrorHasRoom(Owner[check.call])
  <2>1. "acquire" \in Answers[check.what] BY <1>12 DEF ReserveMirror, InCheck, Answers
  <2>2. CASE Ends(To(check.call, "acquire")) BY <1>6, <2>1, <2>2
  <2>3. CASE check' = [check EXCEPT !.stage = "undo", !.mirrored = room] /\ UNCHANGED call
    <3>1. room \in BOOLEAN BY DEF MirrorHasRoom
    <3> HIDE DEF room
    <3> QED BY <1>2, <2>3, <3>1, GoesOnMoves
  <2>4. CASE GoesOn("undo") BY <1>8, <2>4
  <2> QED BY <1>12, <2>2, <2>3, <2>4 DEF ReserveMirror
<1>13. CASE CancelStore
  <2>1. "done" \in Answers[check.what] BY <1>13 DEF CancelStore, InCheck, Answers
  <2>2. CASE Ends(To(check.call, "done")) BY <1>6, <2>1, <2>2
  <2>3. CASE GoesOn("release") BY <1>8, <2>3
  <2> QED BY <1>13, <2>2, <2>3 DEF CancelStore
<1>14. CASE ReleaseMirror
  <2>1. "done" \in Answers[check.what] BY <1>4, <1>14 DEF ReleaseMirror, InCheck, Answers
  <2> QED BY <1>6, <1>14, <2>1 DEF ReleaseMirror
<1>15. CASE DispatchStore
  <2>1. check.what = "dispatch" BY <1>15 DEF DispatchStore, InCheck
  <2>2. Ends(Leaves(check.call, IF check.live /\ ~call[check.call].aborted
                                THEN "sent" ELSE "failed"))
        \/ Ends(Leaves(check.call, "failed"))
    BY <1>15 DEF DispatchStore
  <2> QED BY <1>7, <2>1, <2>2
<1> QED BY <1>9, <1>10, <1>11, <1>12, <1>13, <1>14, <1>15 DEF QuotaStep

-----------------------------------------------------------------------------
(* What a step does to the gate.                                           *)

Beside(c) == \/ call'[c].pc = call[c].pc
             \/ call[c].pc \in Inside /\ call'[c].pc \in Inside
             \/ call[c].pc \in Outside /\ call'[c].pc \in Past

Neutral == UNCHANGED gate /\ \A c \in Call : Beside(c)

Takes(c) == /\ call[c].pc \in Outside /\ Became(c, "connect")
            /\ active < Capacity /\ queue = <<>>
            /\ active' = active + 1 /\ queue' = queue

Joins(c) == /\ call[c].pc \in Outside /\ Became(c, "queued")
            /\ ~(active < Capacity /\ queue = <<>>)
            /\ active' = active /\ queue' = Append(queue, c)

GivesUp(c) == /\ call[c].pc = "queued" /\ \E pc \in Past : Became(c, pc)
              /\ active' = active /\ queue' = Without(c)

Gives(c) ==
  /\ call[c].pc \in Inside \ {"dispatching"} /\ call'[c].pc \in Past
  /\ active' = Passed[1] /\ queue' = Passed[2]
  /\ \A w \in Passed[3] \ {c} : call'[w].pc = "connect" /\ Keeps(w)
  /\ \A w \in Call \ (Passed[3] \cup {c}) : call'[w] = call[w]

Restarts == /\ active' = 0 /\ queue' = <<>>
            /\ \A c \in Call : call'[c].pc \in Past \/ (call'[c].pc = "idle" /\ call[c].pc = "idle")

GateMoves == \/ Neutral \/ Restarts
             \/ \E c \in Call : Takes(c) \/ Joins(c) \/ GivesUp(c) \/ Gives(c)

LEMMA MovesBeside ==
  ASSUME NEW c \in Call, NEW pc, Became(c, pc),
         {call[c].pc, pc} \subseteq Inside \/ (call[c].pc \in Outside /\ pc \in Past),
         UNCHANGED gate
  PROVE  Neutral /\ call' \in [Call -> CallType]
BY DEF Neutral, Beside, Became

LEMMA WokenWait ==
  ASSUME TypeOK, QueueOK
  PROVE  /\ \A w \in Passed[3] : w \in Call /\ call[w].pc = "queued"
         /\ queue # <<>> => Passed[3] = {Head(queue)}
         /\ queue = <<>> => Passed[3] = {}
<1>1. CASE queue = <<>> BY <1>1 DEF Passed
<1>2. CASE queue # <<>>
  <2>1. Passed[3] = {Head(queue)} BY <1>2 DEF Passed
  <2>2. queue \in Seq(Call) BY DEF TypeOK
  <2>3. 1 \in DOMAIN queue /\ Head(queue) = queue[1] /\ queue[1] \in Call BY <1>2, <2>2
  <2> QED BY <1>2, <2>1, <2>3 DEF QueueOK
<1> QED BY <1>1, <1>2

LEMMA GivesBackGives ==
  ASSUME TypeOK, QueueOK, NEW c \in Call, call[c].pc \in Inside \ {"dispatching"},
         NEW next \in CallType, next.pc \in Past, GivesBack(c, next)
  PROVE  Gives(c) /\ call' \in [Call -> CallType] /\ call'[c] = next
<1>1. call \in [Call -> CallType] BY DEF TypeOK
<1>2. call' = [w \in Call |-> IF w = c THEN next
                              ELSE IF w \in Passed[3] THEN [call[w] EXCEPT !.pc = "connect"]
                              ELSE call[w]]
  BY DEF GivesBack
<1>3. ASSUME NEW w \in Call
      PROVE  /\ [call[w] EXCEPT !.pc = "connect"] \in CallType
             /\ [call[w] EXCEPT !.pc = "connect"].pc = "connect"
             /\ [call[w] EXCEPT !.pc = "connect"].charge = call[w].charge
             /\ [call[w] EXCEPT !.pc = "connect"].day = call[w].day
  BY <1>1 DEF CallType, Pc
<1>4. \A w \in Passed[3] : w \in Call BY WokenWait
<1>5. call' \in [Call -> CallType] /\ call'[c] = next BY <1>1, <1>2, <1>3
<1>6. \A w \in Passed[3] \ {c} : call'[w] = [call[w] EXCEPT !.pc = "connect"]
  BY <1>2, <1>4
<1>7. \A w \in Passed[3] \ {c} : call'[w].pc = "connect" /\ Keeps(w)
  BY <1>3, <1>4, <1>6 DEF Keeps, Charges
<1>8. \A w \in Call \ (Passed[3] \cup {c}) : call'[w] = call[w] BY <1>2
<1> QED BY <1>5, <1>7, <1>8 DEF Gives, GivesBack

(* The call a step of the gate makes leave: what becomes of it.            *)
Left(c) == LET next == call[c].next
           IN IF next = "failed" THEN FailTo(c)[c]
              ELSE At([call[c] EXCEPT !.next = "done",
                         !.charge = IF next = "done" THEN Charge(c, "committed") ELSE @],
                      IF next = "again" THEN "acquire" ELSE next)

LEMMA LeftIs ==
  ASSUME TypeOK, NEW c \in Call
  PROVE  /\ Left(c) \in CallType /\ Left(c).pc \in Past /\ Left(c).day = call[c].day
         /\ Left(c).pc = "cancelling" => c \in Chats
         /\ Left(c).charge = CASE call[c].next = "failed" -> Charge(c, "released")
                               [] call[c].next = "done"   -> Charge(c, "committed")
                               [] OTHER -> call[c].charge
<1>1. call[c] \in CallType BY DEF TypeOK
<1>2. CASE call[c].next = "failed"
  <2>1. Left(c) = FailTo(c)[c] BY <1>2 DEF Left
  <2> QED BY <1>2, <2>1, Failed, AfterFailureIs DEF Past
<1>3. CASE call[c].next # "failed"
  <2> DEFINE x == IF call[c].next = "done" THEN Charge(c, "committed") ELSE call[c].charge
             r == [call[c] EXCEPT !.next = "done", !.charge = x]
             pc == IF call[c].next = "again" THEN "acquire" ELSE call[c].next
  <2>1. x \in {"none", "reserved", "committed", "released"} BY <1>1 DEF Charge, CallType
  <2>2. x = CASE call[c].next = "failed" -> Charge(c, "released")
              [] call[c].next = "done"   -> Charge(c, "committed")
              [] OTHER -> call[c].charge
    BY <1>3
  <2>3. pc \in Pc /\ pc \in Past /\ pc # "cancelling"
    BY <1>1, <1>3 DEF CallType, Pc, Past
  <2>4. Left(c) = At(r, pc) BY <1>3 DEF Left
  <2> HIDE DEF x, pc
  <2>5. r \in CallType /\ r.charge = x /\ r.day = call[c].day BY <1>1, <2>1 DEF CallType
  <2> HIDE DEF r
  <2> QED BY <2>2, <2>3, <2>4, <2>5, AtFields
<1> QED BY <1>2, <1>3

LEMMA LeaveGives ==
  ASSUME TypeOK, QueueOK, NEW c \in Call, Leave(c)
  PROVE  Gives(c) /\ call' \in [Call -> CallType] /\ call'[c] = Left(c)
<1>1. GivesBack(c, Left(c)) /\ call[c].pc \in Inside \ {"dispatching"} BY DEF Leave, Left, Inside
<1> QED BY <1>1, LeftIs, GivesBackGives

LEMMA ConnectFailsGives ==
  ASSUME TypeOK, QueueOK, NEW c \in Call, ConnectFails(c)
  PROVE  Gives(c) /\ call' \in [Call -> CallType] /\ call'[c] = FailTo(c)[c]
<1>1. call[c].pc \in Inside \ {"dispatching"} /\ GivesBack(c, FailTo(c)[c]) BY DEF ConnectFails, Inside
<1>2. FailTo(c)[c] \in CallType /\ FailTo(c)[c].pc \in Past
  BY Failed, AfterFailureIs DEF Past
<1> QED BY <1>1, <1>2, GivesBackGives

(* The steps of one call inside or outside of the gate.                    *)
LEMMA InnerSteps ==
  ASSUME IInv, NEW c \in Call,
         \/ Connect(c) \/ Lock(c) \/ LockTimesOut(c) \/ CheckConsent(c)
         \/ Generate(c) \/ Generated(c) \/ DispatchChat(c)
  PROVE  \E pc \in Inside : Became(c, pc) /\ Keeps(c) /\ call[c].pc \in Inside /\ UNCHANGED gate
<1>0. TypeOK /\ call \in [Call -> CallType] /\ call[c] \in CallType BY DEF IInv, TypeOK
<1> USE DEF Inside
<1>1. ASSUME NEW pc \in Inside, call' = To(c, pc) PROVE Became(c, pc) /\ Keeps(c)
  BY <1>0, <1>1, ToBecomes DEF Pc
<1>2. ASSUME NEW next \in {"sent", "failed", "again", "done"}, call' = Leaves(c, next)
      PROVE  Became(c, "leaving") /\ Keeps(c)
  BY <1>0, <1>2, LeavesBecomes
<1>3. CASE Connect(c) BY <1>1, <1>3 DEF Connect
<1>4. CASE Lock(c) BY <1>1, <1>4 DEF Lock
<1>5. CASE LockTimesOut(c) BY <1>2, <1>5 DEF LockTimesOut
<1>6. CASE CheckConsent(c)
  <2>1. call' = To(c, "dispatch") \/ call' = Leaves(c, "failed") BY <1>6 DEF CheckConsent
  <2>2. (Became(c, "dispatch") \/ Became(c, "leaving")) /\ Keeps(c)
    BY <1>1, <1>2, <2>1
  <2>3. call[c].pc = "consent" /\ UNCHANGED gate BY <1>6 DEF CheckConsent
  <2> QED BY <2>2, <2>3
<1>7. CASE Generate(c)
  <2> DEFINE x == call[c].attempts + 1
             n == [call[c] EXCEPT !.pc = "calling", !.attempts = x]
  <2>0. x \in Nat BY <1>0 DEF CallType
  <2>1. n \in CallType /\ n.pc = "calling" /\ n.charge = call[c].charge /\ n.day = call[c].day
    <3> HIDE DEF x
    <3> QED BY <1>0, <2>0 DEF CallType, Pc
  <2>2. call' = [call EXCEPT ![c] = n] BY <1>0, <1>7 DEF Generate
  <2>3. call[c].pc \in Inside /\ UNCHANGED gate BY <1>7 DEF Generate, Requested
  <2> HIDE DEF n
  <2>4. Became(c, "calling") /\ Keeps(c) BY <1>0, <2>1, <2>2 DEF Became, Keeps, Charges
  <2> QED BY <2>3, <2>4
<1>8. CASE Generated(c) BY <1>2, <1>8 DEF Generated, Requested
<1>9. CASE DispatchChat(c)
  <2>1. c \in Chats /\ call[c].pc \in Inside /\ UNCHANGED gate BY <1>9 DEF DispatchChat, Quiet
  <2>2. CASE call' = Leaves(c, "failed") BY <1>2, <2>1, <2>2
  <2>3. CASE Guard(c, "dispatch", "dispatching", [call EXCEPT ![c].attempted = TRUE])
    <3>1. Keeps(c) /\ (Became(c, "dispatching") \/ Became(c, Refusal("dispatch")))
      BY <1>0, <2>1, <2>3, GuardBecomes DEF Pc
    <3>2. Refusal("dispatch") = "leaving" BY DEF Refusal
    <3> QED BY <2>1, <3>1, <3>2
  <2> QED BY <1>9, <2>2, <2>3 DEF DispatchChat
<1> QED BY <1>3, <1>4, <1>5, <1>6, <1>7, <1>8, <1>9

LEMMA BeginChatGuards ==
  ASSUME TypeOK, NEW c \in Call, NEW what \in {"reserve", "dispatch", "cancel"}, NEW pc \in Pc,
         Guard(c, what, pc, call)
  PROVE  /\ Keeps(c)
         /\ \/ Became(c, pc) /\ check = NoCheck /\ check' \in Check
                /\ check'.call = c /\ check'.what = what /\ check'.live
                /\ check'.stage = "store"
            \/ Became(c, Refusal(what)) /\ check # NoCheck /\ check' = check
<1> DEFINE b == call[c].attempted
<1>1. call \in [Call -> CallType] /\ c \in Call BY CallsTyped DEF TypeOK
<1>2. b \in BOOLEAN BY <1>1 DEF CallType
<1>3. call = [call EXCEPT ![c].attempted = b]
  <2>1. call[c] = [call[c] EXCEPT !.attempted = b] BY <1>1 DEF CallType
  <2> QED BY <1>1, <2>1
<1> HIDE DEF b
<1>4. Guard(c, what, pc, [call EXCEPT ![c].attempted = b]) BY <1>3
<1> QED BY ONLY <1>2, <1>4, GuardBecomes, TypeOK, c \in Call, pc \in Pc,
               what \in {"reserve", "dispatch", "cancel"}

LEMMA OuterSteps ==
  ASSUME IInv, NEW c \in Call,
         RefuseSlot(c) \/ BeginChat(c) \/ BeginGeneration(c) \/ CancelChat(c) \/ AnswerChat(c)
  PROVE  \E pc \in Past : Became(c, pc) /\ call[c].pc \in Outside /\ UNCHANGED gate
<1>0. TypeOK /\ call \in [Call -> CallType] /\ call[c] \in CallType BY DEF IInv, TypeOK
<1> USE DEF Past, Outside
<1>1. ASSUME call' = To(c, "done") PROVE Became(c, "done")
  BY <1>0, <1>1, ToBecomes DEF Pc
<1>2. Refusal("reserve") = "done" /\ Refusal("cancel") = "done" BY DEF Refusal
<1>3. CASE RefuseSlot(c) BY <1>0, <1>3, FailToBecomes, AfterFailureIs DEF RefuseSlot
<1>4. CASE BeginChat(c)
  <2>1. Became(c, "reserving") \/ Became(c, "done")
    BY <1>0, <1>2, <1>4, BeginChatGuards DEF BeginChat, Pc
  <2> QED BY <1>4, <2>1 DEF BeginChat, Quiet
<1>5. CASE BeginGeneration(c)
  <2>1. call[c].pc \in Outside /\ UNCHANGED gate BY <1>5 DEF BeginGeneration, Requested
  <2>2. CASE call' = [call EXCEPT ![c].pc = "acquire", ![c].charge = "reserved",
                                  ![c].day = today]
    <3> DEFINE n == [call[c] EXCEPT !.pc = "acquire", !.charge = "reserved", !.day = today]
    <3>1. today \in Nat BY AiBoundsTyped, <1>0 DEF TypeOK
    <3>2. n \in CallType /\ n.pc = "acquire" BY <1>0, <3>1 DEF CallType, Pc
    <3>3. call' = [call EXCEPT ![c] = n] BY <1>0, <2>2
    <3> HIDE DEF n
    <3> QED BY <1>0, <2>1, <3>2, <3>3 DEF Became
  <2> QED BY <1>1, <1>5, <2>1, <2>2 DEF BeginGeneration
<1>6. CASE CancelChat(c)
  <2>1. Became(c, "cancelling") \/ Became(c, "done")
    BY <1>0, <1>2, <1>6, BeginChatGuards DEF CancelChat, Pc
  <2> QED BY <1>6, <2>1 DEF CancelChat, Quiet
<1>7. CASE AnswerChat(c) BY <1>1, <1>7 DEF AnswerChat, Quiet
<1> QED BY <1>3, <1>4, <1>5, <1>6, <1>7

LEMMA RestartClears ==
  ASSUME TypeOK, Restart
  PROVE  /\ call' \in [Call -> CallType]
         /\ \A c \in Call : /\ call'[c].pc = IF call[c].pc = "idle" THEN "idle" ELSE "done"
                            /\ Keeps(c)
<1>1. call \in [Call -> CallType] BY DEF TypeOK
<1>2. call' = [c \in Call |-> IF call[c].pc = "idle" THEN call[c] ELSE At(call[c], "done")]
  BY DEF Restart
<1>3. \A c \in Call : /\ At(call[c], "done") \in CallType /\ At(call[c], "done").pc = "done"
                      /\ At(call[c], "done").charge = call[c].charge
                      /\ At(call[c], "done").day = call[c].day
  <2>1. "done" \in Pc BY DEF Pc
  <2> QED BY <1>1, <2>1, AtFields
<1> QED BY <1>1, <1>2, <1>3 DEF Keeps, Charges

LEMMA AbortSteps ==
  ASSUME TypeOK, NEW c \in Call, Abort(c)
  PROVE  /\ call' \in [Call -> CallType]
         /\ \/ GivesUp(c) /\ call' = FailTo(c)
            \/ /\ UNCHANGED gate /\ Keeps(c) /\ call[c].pc # "queued" /\ call'[c].pc = call[c].pc
               /\ \A w \in Call \ {c} : call'[w] = call[w]
<1>1. call \in [Call -> CallType] /\ call[c] \in CallType BY DEF TypeOK
<1>2. CASE call[c].pc = "queued"
  <2>1. Became(c, AfterFailure(c)) /\ call' = FailTo(c) BY <1>2, FailToBecomes DEF Abort
  <2>2. queue' = Without(c) /\ active' = active BY <1>2 DEF Abort
  <2> QED BY <1>2, <2>1, <2>2, AfterFailureIs DEF GivesUp, Past, Became
<1>3. CASE call[c].pc # "queued"
  <2> DEFINE n == [call[c] EXCEPT !.aborted = TRUE]
  <2>1. n \in CallType /\ n.pc = call[c].pc /\ n.charge = call[c].charge /\ n.day = call[c].day
    BY <1>1 DEF CallType
  <2>2. call' = [call EXCEPT ![c] = n] /\ UNCHANGED gate BY <1>1, <1>3 DEF Abort, gate
  <2> HIDE DEF n
  <2> QED BY <1>1, <1>3, <2>1, <2>2 DEF Keeps, Charges
<1> QED BY <1>2, <1>3

LEMMA GateSteps ==
  ASSUME IInv, [Next]_vars
  PROVE  GateMoves /\ call' \in [Call -> CallType]
<1>0. TypeOK /\ QueueOK /\ CheckOK /\ call \in [Call -> CallType] BY DEF IInv, TypeOK
<1>1. ASSUME NEW c \in Call,
             \/ Connect(c) \/ Lock(c) \/ LockTimesOut(c) \/ CheckConsent(c)
             \/ Generate(c) \/ Generated(c) \/ DispatchChat(c)
      PROVE  Neutral /\ call' \in [Call -> CallType]
  BY <1>1, InnerSteps, MovesBeside
<1>2. ASSUME NEW c \in Call,
             RefuseSlot(c) \/ BeginChat(c) \/ BeginGeneration(c) \/ CancelChat(c)
             \/ AnswerChat(c)
      PROVE  Neutral /\ call' \in [Call -> CallType]
  BY <1>2, OuterSteps, MovesBeside
<1>3. ASSUME NEW c \in Call, Leave(c) \/ ConnectFails(c)
      PROVE  Gives(c) /\ call' \in [Call -> CallType]
  BY <1>0, <1>3, LeaveGives, ConnectFailsGives
<1>4. ASSUME NEW c \in Call, Abort(c)
      PROVE  (GivesUp(c) \/ Neutral) /\ call' \in [Call -> CallType]
  BY <1>0, <1>4, AbortSteps DEF Neutral, Beside
<1>5. ASSUME NEW c \in Call, Acquire(c)
      PROVE  Takes(c) /\ call' \in [Call -> CallType]
  <2>1. Became(c, "connect") BY <1>0, <1>5, ToBecomes DEF Acquire, Pc
  <2> QED BY <1>5, <2>1 DEF Acquire, Takes, Became, Outside, Past
<1>6. ASSUME NEW c \in Call, Enqueue(c)
      PROVE  Joins(c) /\ call' \in [Call -> CallType]
  <2>1. Became(c, "queued") BY <1>0, <1>6, ToBecomes DEF Enqueue, Pc
  <2>2. /\ call[c].pc \in Outside /\ active' = active /\ queue' = Append(queue, c)
        /\ ~(active < Capacity /\ queue = <<>>)
    BY <1>6 DEF Enqueue, Outside, Past
  <2> QED BY <2>1, <2>2 DEF Joins, Became
<1>7. ASSUME NEW c \in Call, WaitTimesOut(c)
      PROVE  GivesUp(c) /\ call' \in [Call -> CallType]
  <2>1. Became(c, AfterFailure(c)) BY <1>0, <1>7, FailToBecomes DEF WaitTimesOut
  <2>2. call[c].pc = "queued" /\ queue' = Without(c) /\ active' = active
    BY <1>7 DEF WaitTimesOut
  <2> QED BY <2>1, <2>2, AfterFailureIs DEF GivesUp, Past, Became
<1>8. CASE QuotaStep
  <2>1. UNCHANGED gate
    BY <1>8 DEF QuotaStep, PingFails, CheckTimesOut, ReserveStore, ReserveMirror, CancelStore,
       ReleaseMirror, DispatchStore, Quiet
  <2>2. check \in Check /\ check # NoCheck /\ check.call \in Call /\ QuotaMove
    BY <1>0, <1>8, QuotaMoves, CallsTyped
  <2>3. CASE call' = call BY <1>0, <2>1, <2>3 DEF Neutral, Beside, GateMoves
  <2>4. ASSUME check.live, NEW pc \in Answers[check.what], Became(check.call, pc)
        PROVE  Neutral /\ call' \in [Call -> CallType]
    <3>1. call[check.call].pc = Asking[check.what] BY <1>0, <2>2, <2>4 DEF CheckOK
    <3>2. \/ {call[check.call].pc, pc} \subseteq Inside
          \/ call[check.call].pc \in Outside /\ pc \in Past
      BY <2>2, <2>4, <3>1 DEF Answers, Asking, Check, Inside, Outside, Past
    <3> QED BY <2>1, <2>2, <2>4, <3>2, MovesBeside
  <2> QED BY <2>2, <2>3, <2>4 DEF QuotaMove, GateMoves
<1>9. CASE Restart
  <2>1. /\ call' \in [Call -> CallType]
        /\ \A c \in Call : call'[c].pc \in Past \/ (call'[c].pc = "idle" /\ call[c].pc = "idle")
    BY <1>0, <1>9, RestartClears DEF Past
  <2> QED BY <1>9, <2>1 DEF Restart, Restarts, GateMoves
<1>10. CASE UNCHANGED <<call, gate>> BY <1>0, <1>10 DEF Neutral, Beside, GateMoves
<1>11. UNCHANGED <<call, gate>> \/ Restart \/ QuotaStep
       \/ \E c \in Call : BeginGeneration(c) \/ BeginChat(c) \/ Abort(c) \/ Gate(c) \/ Route(c)
  BY DEF Next, vars, ProviderEnds, Settle, ReadConsent, BeginUpdate, ApplyUpdate,
     UpdateTimesOut, Disable, NextDay, Requested, Quiet
<1> QED BY <1>1, <1>2, <1>3, <1>4, <1>5, <1>6, <1>7, <1>8, <1>9, <1>10, <1>11
        DEF GateMoves, Gate, Route

-----------------------------------------------------------------------------
(* The gate: NoSlotLost.                                                   *)

LEMMA HoldersAre ==
  /\ Holders = {c \in Call : call[c].pc \in Inside}
  /\ Holders' = {c \in Call : call'[c].pc \in Inside}
  /\ IsFiniteSet(Holders) /\ Cardinality(Holders) \in Nat
<1>1. /\ Holders = {c \in Call : call[c].pc \in Inside}
      /\ Holders' = {c \in Call : call'[c].pc \in Inside}
  BY DEF Holders, HoldsSlot, Inside
<1>2. Holders \subseteq Call BY <1>1
<1> QED BY <1>1, <1>2, CallsTyped, FS_Subset, FS_CardinalityType

LEMMA Sides ==
  /\ Inside \cap Outside = {} /\ "queued" \notin Inside /\ "queued" \notin Outside
  /\ Pc = Inside \cup Outside \cup {"queued"}
  /\ Outside = Past \cup {"idle"} /\ "idle" \notin Past
BY DEF Inside, Outside, Past, Pc

(* removeWaiter takes the one place of the call out of the queue.          *)
LEMMA WithoutIs ==
  ASSUME TypeOK, QueueOK, NEW i \in DOMAIN queue
  PROVE  /\ Without(queue[i]) \in Seq(Call) /\ queue # <<>>
         /\ DOMAIN Without(queue[i]) = 1 .. Len(queue) - 1
         /\ \A k \in 1 .. Len(queue) - 1 :
              Without(queue[i])[k] = queue[IF k < i THEN k ELSE k + 1]
<1>1. queue \in Seq(Call) /\ Len(queue) \in Nat /\ i \in 1 .. Len(queue) BY DEF TypeOK
<1>2. (CHOOSE k \in DOMAIN queue : queue[k] = queue[i]) = i BY DEF QueueOK
<1>3. Without(queue[i]) = SubSeq(queue, 1, i - 1) \o SubSeq(queue, i + 1, Len(queue))
  BY <1>2 DEF Without
<1> DEFINE a == SubSeq(queue, 1, i - 1)
           b == SubSeq(queue, i + 1, Len(queue))
<1>4. a \in Seq(Call) /\ Len(a) = i - 1 /\ \A k \in 1 .. i - 1 : a[k] = queue[k] BY <1>1
<1>5. /\ b \in Seq(Call) /\ Len(b) = Len(queue) - i
      /\ \A k \in 1 .. Len(queue) - i : b[k] = queue[i + k]
  BY <1>1
<1>6. Without(queue[i]) = a \o b BY <1>3
<1> HIDE DEF a, b
<1>7. a \o b \in Seq(Call) /\ Len(a \o b) = Len(queue) - 1 BY <1>1, <1>4, <1>5
<1>8. ASSUME NEW k \in 1 .. Len(queue) - 1
      PROVE  (a \o b)[k] = queue[IF k < i THEN k ELSE k + 1]
  <2>1. CASE k < i BY <1>1, <1>4, <1>5, <2>1
  <2>2. CASE k >= i
    <3>0. k \in 1 .. Len(a) + Len(b) /\ k > Len(a) /\ a \in Seq(Call) /\ b \in Seq(Call)
      BY <1>1, <1>4, <1>5, <2>2
    <3>1. (a \o b)[k] = b[k - Len(a)] BY ONLY <3>0
    <3>2. k - Len(a) \in 1 .. Len(queue) - i /\ i + (k - Len(a)) = k + 1 BY <1>1, <1>4, <2>2
    <3>3. b[k - Len(a)] = queue[i + (k - Len(a))] BY <1>5, <3>2
    <3> QED BY <1>1, <2>2, <3>1, <3>2, <3>3
  <2>3. k < i \/ k >= i BY <1>1
  <2> QED BY <2>1, <2>2, <2>3
<1> QED BY <1>1, <1>6, <1>7, <1>8

LEMMA WithoutQueue ==
  ASSUME TypeOK, QueueOK, NEW c \in Call, call[c].pc = "queued", NEW q, q = Without(c)
  PROVE  /\ q \in Seq(Call) /\ queue # <<>>
         /\ \A k \in DOMAIN q : q[k] # c /\ \E m \in DOMAIN queue : q[k] = queue[m]
         /\ \A m \in DOMAIN queue : queue[m] # c => \E k \in DOMAIN q : q[k] = queue[m]
         /\ \A k, m \in DOMAIN q : q[k] = q[m] => k = m
<1>1. PICK i \in DOMAIN queue : queue[i] = c BY DEF QueueOK
<1>2. queue \in Seq(Call) /\ Len(queue) \in Nat /\ DOMAIN queue = 1 .. Len(queue)
  BY DEF TypeOK
<1>3. /\ q \in Seq(Call) /\ queue # <<>> /\ DOMAIN q = 1 .. Len(queue) - 1
      /\ \A k \in 1 .. Len(queue) - 1 : q[k] = queue[IF k < i THEN k ELSE k + 1]
  BY <1>1, WithoutIs
<1>4. \A k, m \in DOMAIN queue : queue[k] = queue[m] => k = m BY DEF QueueOK
<1>5. ASSUME NEW k \in DOMAIN q PROVE q[k] # c /\ \E m \in DOMAIN queue : q[k] = queue[m]
  <2> DEFINE m == IF k < i THEN k ELSE k + 1
  <2>1. m \in DOMAIN queue /\ m # i BY <1>2, <1>3
  <2>2. q[k] = queue[m] BY <1>3
  <2> HIDE DEF m
  <2> QED BY <1>1, <1>4, <2>1, <2>2
<1>6. ASSUME NEW m \in DOMAIN queue, queue[m] # c PROVE \E k \in DOMAIN q : q[k] = queue[m]
  <2>1. m # i BY <1>1, <1>6
  <2> DEFINE k == IF m < i THEN m ELSE m - 1
  <2>2. k \in DOMAIN q /\ (IF k < i THEN k ELSE k + 1) = m BY <1>2, <1>3, <2>1
  <2>3. q[k] = queue[m] BY <1>3, <2>2
  <2> QED BY <2>2, <2>3
<1>7. ASSUME NEW k \in DOMAIN q, NEW m \in DOMAIN q, q[k] = q[m] PROVE k = m
  <2> DEFINE x == IF k < i THEN k ELSE k + 1
             y == IF m < i THEN m ELSE m + 1
  <2>1. x \in DOMAIN queue /\ y \in DOMAIN queue /\ (x = y => k = m) BY <1>2, <1>3
  <2>2. q[k] = queue[x] /\ q[m] = queue[y] BY <1>3
  <2> HIDE DEF x, y
  <2> QED BY <1>4, <1>7, <2>1, <2>2
<1> QED BY <1>3, <1>5, <1>6, <1>7

(* What is queued stays so but for the call that joins or leaves.          *)
LEMMA QueueNext ==
  ASSUME TypeOK, QueueOK, GateMoves, call' \in [Call -> CallType]
  PROVE  QueueOK' /\ queue' \in Seq(Call)
<1>0. queue \in Seq(Call) /\ \A i \in DOMAIN queue : queue[i] \in Call BY DEF TypeOK
<1>1. CASE UNCHANGED queue /\ \A c \in Call : call'[c].pc = "queued" <=> call[c].pc = "queued"
  BY <1>0, <1>1 DEF QueueOK
<1>2. CASE Neutral BY <1>1, <1>2, Sides DEF Neutral, Beside, gate
<1>3. ASSUME NEW c \in Call, Takes(c) PROVE QueueOK' /\ queue' \in Seq(Call)
  BY <1>1, <1>3, Sides DEF Takes, Became
<1>4. ASSUME NEW c \in Call, Joins(c) PROVE QueueOK' /\ queue' \in Seq(Call)
  <2>1. /\ call[c].pc # "queued" /\ call'[c].pc = "queued" /\ queue' = Append(queue, c)
        /\ \A w \in Call \ {c} : call'[w] = call[w]
    BY <1>4, Sides DEF Joins, Became
  <2>2. queue' \in Seq(Call) /\ DOMAIN queue' = 1 .. Len(queue) + 1
        /\ DOMAIN queue = 1 .. Len(queue) /\ Len(queue) \in Nat
        /\ queue'[Len(queue) + 1] = c /\ \A i \in 1 .. Len(queue) : queue'[i] = queue[i]
    BY <1>0, <2>1
  <2>3. \A i \in DOMAIN queue : queue[i] # c BY <2>1 DEF QueueOK
  <2>4. \A i \in DOMAIN queue' : i \in DOMAIN queue \/ i = Len(queue) + 1 BY <2>2
  <2>5. \A i \in DOMAIN queue' : call'[queue'[i]].pc = "queued"
    BY <1>0, <2>1, <2>2, <2>3, <2>4 DEF QueueOK
  <2>6. \A w \in Call : call'[w].pc = "queued" => \E i \in DOMAIN queue' : queue'[i] = w
    <3> SUFFICES ASSUME NEW w \in Call, call'[w].pc = "queued"
                 PROVE  \E i \in DOMAIN queue' : queue'[i] = w
      OBVIOUS
    <3>1. CASE w = c BY <2>2, <3>1
    <3>2. CASE w # c
      <4>1. PICK i \in DOMAIN queue : queue[i] = w BY <2>1, <3>2 DEF QueueOK
      <4> QED BY <2>2, <4>1
    <3> QED BY <3>1, <3>2
  <2>7. \A i, k \in DOMAIN queue' : queue'[i] = queue'[k] => i = k
    BY <2>2, <2>3, <2>4 DEF QueueOK
  <2> QED BY <2>2, <2>5, <2>6, <2>7 DEF QueueOK
<1>5. ASSUME NEW c \in Call, GivesUp(c) PROVE QueueOK' /\ queue' \in Seq(Call)
  <2>1. /\ call[c].pc = "queued" /\ call'[c].pc # "queued" /\ queue' = Without(c)
        /\ \A w \in Call \ {c} : call'[w] = call[w]
    BY <1>5, Sides DEF GivesUp, Became
  <2>2. /\ queue' \in Seq(Call)
        /\ \A k \in DOMAIN queue' : queue'[k] # c /\ \E m \in DOMAIN queue : queue'[k] = queue[m]
        /\ \A m \in DOMAIN queue : queue[m] # c => \E k \in DOMAIN queue' : queue'[k] = queue[m]
        /\ \A k, m \in DOMAIN queue' : queue'[k] = queue'[m] => k = m
    BY <2>1, WithoutQueue
  <2>3. \A i \in DOMAIN queue' : call'[queue'[i]].pc = "queued"
    BY <1>0, <2>1, <2>2 DEF QueueOK
  <2>4. \A w \in Call : call'[w].pc = "queued" => \E i \in DOMAIN queue' : queue'[i] = w
    BY <2>1, <2>2 DEF QueueOK
  <2> QED BY <2>2, <2>3, <2>4 DEF QueueOK
<1>6. ASSUME NEW c \in Call, Gives(c) PROVE QueueOK' /\ queue' \in Seq(Call)
  <2>1. /\ c \notin Passed[3] /\ call'[c].pc # "queued" /\ queue' = Passed[2]
        /\ \A w \in Passed[3] : call'[w].pc # "queued"
        /\ \A w \in Call \ (Passed[3] \cup {c}) : call'[w] = call[w]
    BY <1>6, Sides, WokenWait DEF Gives
  <2>2. call[c].pc # "queued" BY <1>6, Sides DEF Gives
  <2>3. CASE queue = <<>>
    <3>1. queue' = queue /\ Passed[3] = {} BY <2>1, <2>3 DEF Passed
    <3> QED BY <1>1, <2>1, <2>2, <3>1
  <2>4. CASE queue # <<>>
    <3>1. queue' = Tail(queue) /\ Passed[3] = {Head(queue)} BY <2>1, <2>4 DEF Passed
    <3>2. /\ queue' \in Seq(Call) /\ Len(queue) \in Nat \ {0} /\ Head(queue) = queue[1]
          /\ DOMAIN queue' = 1 .. Len(queue) - 1 /\ DOMAIN queue = 1 .. Len(queue)
          /\ \A i \in 1 .. Len(queue) - 1 : queue'[i] = queue[i + 1]
      BY <1>0, <2>4, <3>1
    <3>3. \A i, k \in DOMAIN queue : queue[i] = queue[k] => i = k BY DEF QueueOK
    <3>4. \A i \in DOMAIN queue' : i + 1 \in DOMAIN queue /\ i + 1 # 1 /\ i \in Nat BY <3>2
    <3>5. \A i \in DOMAIN queue' : queue'[i] # Head(queue) /\ queue'[i] # c
                                   /\ call[queue'[i]].pc = "queued" /\ queue'[i] \in Call
      <4> SUFFICES ASSUME NEW i \in DOMAIN queue'
                   PROVE  /\ queue'[i] # Head(queue) /\ queue'[i] # c
                          /\ call[queue'[i]].pc = "queued" /\ queue'[i] \in Call
        OBVIOUS
      <4>1. queue'[i] = queue[i + 1] /\ i + 1 \in DOMAIN queue /\ i + 1 # 1 BY <3>2, <3>4
      <4>2. 1 \in DOMAIN queue BY <3>2
      <4>3. call[queue[i + 1]].pc = "queued" BY <4>1 DEF QueueOK
      <4> QED BY <1>0, <2>2, <3>2, <3>3, <4>1, <4>2, <4>3
    <3>6. \A i \in DOMAIN queue' : call'[queue'[i]].pc = "queued" BY <2>1, <3>1, <3>5
    <3>7. \A w \in Call : call'[w].pc = "queued" => \E i \in DOMAIN queue' : queue'[i] = w
      <4> SUFFICES ASSUME NEW w \in Call, call'[w].pc = "queued"
                   PROVE  \E i \in DOMAIN queue' : queue'[i] = w
        OBVIOUS
      <4>1. w # c /\ w # Head(queue) /\ call'[w] = call[w] BY <2>1, <3>1
      <4>2. PICK k \in DOMAIN queue : queue[k] = w BY <4>1 DEF QueueOK
      <4>3. k # 1 BY <3>2, <4>1, <4>2
      <4>4. k - 1 \in DOMAIN queue' /\ queue'[k - 1] = queue[(k - 1) + 1] /\ (k - 1) + 1 = k
        BY <3>2, <4>2, <4>3
      <4> QED BY <4>2, <4>4
    <3>8. \A i, k \in DOMAIN queue' : queue'[i] = queue'[k] => i = k
      <4> SUFFICES ASSUME NEW i \in DOMAIN queue', NEW k \in DOMAIN queue',
                          queue'[i] = queue'[k]
                   PROVE  i = k
        OBVIOUS
      <4>1. queue[i + 1] = queue[k + 1] BY <3>2
      <4>2. i + 1 = k + 1 BY <3>3, <3>4, <4>1
      <4> QED BY <3>4, <4>2
    <3> QED BY <3>2, <3>6, <3>7, <3>8 DEF QueueOK
  <2> QED BY <2>3, <2>4
<1>7. CASE Restarts
  <2>1. queue' = <<>> /\ \A c \in Call : call'[c].pc # "queued" BY <1>7, Sides DEF Restarts
  <2> QED BY <2>1 DEF QueueOK
<1> QED BY <1>2, <1>3, <1>4, <1>5, <1>6, <1>7 DEF GateMoves

LEMMA SlotsNext ==
  ASSUME TypeOK, QueueOK, SlotsOK, GateMoves, call' \in [Call -> CallType]
  PROVE  SlotsOK' /\ active' \in Nat
<1>0. /\ active \in Nat /\ active = Cardinality(Holders) /\ active <= Capacity
      /\ queue # <<>> => active = Capacity
      /\ IsFiniteSet(Holders) /\ Capacity \in Nat \ {0}
  BY HoldersAre, GateTyped DEF TypeOK, SlotsOK
<1> USE DEF SlotsOK
<1>1. ASSUME Holders' = Holders, active' = active, queue' # <<>> => queue # <<>>
      PROVE  SlotsOK' /\ active' \in Nat
  BY <1>0, <1>1
<1>2. ASSUME NEW c \in Call, \A w \in Call \ {c} : call'[w] = call[w],
             call[c].pc \notin Inside, call'[c].pc \notin Inside
      PROVE  Holders' = Holders
  BY <1>2, HoldersAre
<1>3. CASE Neutral
  <2>1. Holders' = Holders BY <1>3, HoldersAre, Sides DEF Neutral, Beside
  <2> QED BY <1>1, <1>3, <2>1 DEF Neutral, gate
<1>4. ASSUME NEW c \in Call, Takes(c) PROVE SlotsOK' /\ active' \in Nat
  <2>1. /\ call[c].pc \notin Inside /\ call'[c].pc \in Inside /\ active < Capacity
        /\ queue' = <<>> /\ active' = active + 1
        /\ \A w \in Call \ {c} : call'[w] = call[w]
    BY <1>4, Sides DEF Takes, Became, Inside
  <2>2. c \notin Holders /\ Holders' = Holders \cup {c} BY <2>1, HoldersAre
  <2>3. Cardinality(Holders') = Cardinality(Holders) + 1 BY <1>0, <2>2, FS_AddElement
  <2> QED BY <1>0, <2>1, <2>3
<1>5. ASSUME NEW c \in Call, Joins(c) PROVE SlotsOK' /\ active' \in Nat
  <2>1. Holders' = Holders BY <1>2, <1>5, Sides DEF Joins, Became
  <2>2. active' = active /\ active = Capacity BY <1>0, <1>5 DEF Joins
  <2> QED BY <1>0, <2>1, <2>2
<1>6. ASSUME NEW c \in Call, GivesUp(c) PROVE SlotsOK' /\ active' \in Nat
  <2>1. Holders' = Holders BY <1>2, <1>6, Sides DEF GivesUp, Became
  <2>2. queue # <<>> BY <1>6, WithoutQueue DEF GivesUp
  <2> QED BY <1>0, <1>1, <1>6, <2>1, <2>2 DEF GivesUp
<1>7. ASSUME NEW c \in Call, Gives(c) PROVE SlotsOK' /\ active' \in Nat
  <2>1. /\ call[c].pc \in Inside /\ call'[c].pc \notin Inside /\ c \notin Passed[3]
        /\ active' = Passed[1] /\ queue' = Passed[2]
        /\ \A w \in Passed[3] : w \in Call /\ call[w].pc \notin Inside /\ call'[w].pc \in Inside
        /\ \A w \in Call \ (Passed[3] \cup {c}) : call'[w] = call[w]
    BY <1>7, Sides, WokenWait DEF Gives, Inside
  <2>2. c \in Holders /\ Holders' = (Holders \ {c}) \cup Passed[3] BY <2>1, HoldersAre
  <2>3. /\ IsFiniteSet(Holders \ {c})
        /\ Cardinality(Holders \ {c}) = Cardinality(Holders) - 1
    BY <1>0, <2>2, FS_RemoveElement
  <2>4. CASE queue = <<>>
    <3>1. active' = active - 1 /\ queue' = <<>> /\ Passed[3] = {} BY <2>1, <2>4 DEF Passed
    <3>2. Holders' = Holders \ {c} BY <2>2, <3>1
    <3>3. Cardinality(Holders \ {c}) \in Nat BY <2>3, FS_CardinalityType
    <3> QED BY <1>0, <2>3, <3>1, <3>2, <3>3
  <2>5. CASE queue # <<>>
    <3>1. active' = active /\ Passed[3] = {Head(queue)} BY <2>1, <2>5 DEF Passed
    <3>2. Head(queue) \notin Holders \ {c} /\ Holders' = (Holders \ {c}) \cup {Head(queue)}
      BY <2>1, <2>2, <3>1, HoldersAre
    <3>3. Cardinality(Holders') = Cardinality(Holders \ {c}) + 1 BY <2>3, <3>2, FS_AddElement
    <3> QED BY <1>0, <2>3, <2>5, <3>1, <3>3
  <2> QED BY <2>4, <2>5
<1>8. CASE Restarts
  <2>1. Holders' = {} BY <1>8, HoldersAre, Sides DEF Restarts
  <2>2. Cardinality(Holders') = 0 BY <2>1, FS_EmptySet
  <2> QED BY <1>0, <1>8, <2>2 DEF Restarts
<1> QED BY <1>3, <1>4, <1>5, <1>6, <1>7, <1>8 DEF GateMoves

-----------------------------------------------------------------------------
(* The quota operation in progress.                                        *)

(* What a step does to the operation: nothing, and its chat waits on; its  *)
(* next step or its end; or a chat begins a new one.                       *)
Starts(c) ==
  /\ check = NoCheck /\ check' \in Check /\ check'.call = c /\ check'.stage = "store"
  /\ call'[c].pc = Asking[check'.what]
  /\ check'.what = "reserve" => call[c].pc = "idle"

CheckMoves ==
  \/ check' = NoCheck
  \/ check' = check /\ (check # NoCheck /\ check.live =>
                          call'[check.call].pc = call[check.call].pc)
  \/ QuotaStep
  \/ \E c \in Chats : Starts(c)

LEMMA CheckUntouched ==
  ASSUME IInv, NEW c \in Call, NEW pc, Became(c, pc), check' = check,
         check # NoCheck /\ check.live /\ check.call = c =>
           call[c].pc \notin {"reserving", "dispatching", "cancelling"}
  PROVE  CheckMoves
<1>1. CASE check = NoCheck BY <1>1 DEF CheckMoves
<1>2. CASE check # NoCheck
  <2>1. check \in Check /\ check.call \in Call BY <1>2, Checking DEF IInv, Check
  <2>2. check.live => call[check.call].pc \in {"reserving", "dispatching", "cancelling"}
    BY <1>2, <2>1 DEF IInv, CheckOK, Asking, Check
  <2>3. check.live => check.call # c BY <1>2, <2>2
  <2> QED BY <1>2, <2>1, <2>3 DEF CheckMoves, Became
<1> QED BY <1>1, <1>2

LEMMA CheckGives ==
  ASSUME IInv, NEW c \in Call, Gives(c), check' = check
  PROVE  CheckMoves
<1>1. CASE check = NoCheck BY <1>1 DEF CheckMoves
<1>2. CASE check # NoCheck
  <2>1. check \in Check /\ check.call \in Call BY <1>2, Checking DEF IInv, Check
  <2>2. check.live => call[check.call].pc \in {"reserving", "dispatching", "cancelling"}
    BY <1>2, <2>1 DEF IInv, CheckOK, Asking, Check
  <2>3. \A w \in Passed[3] : call[w].pc = "queued" BY WokenWait DEF IInv
  <2>4. CASE check.call \notin Passed[3] \cup {c}
    BY <1>2, <2>1, <2>4 DEF CheckMoves, Gives
  <2>5. CASE check.call \in Passed[3] BY <1>2, <2>2, <2>3, <2>5 DEF CheckMoves
  <2>6. CASE check.call = c BY <1>2, <2>2, <2>6 DEF CheckMoves, Gives, Inside
  <2> QED BY <1>2, <2>4, <2>5, <2>6 DEF CheckMoves
<1> QED BY <1>1, <1>2

LEMMA CheckSteps ==
  ASSUME IInv, [Next]_vars
  PROVE  CheckMoves
<1>0. TypeOK /\ QueueOK /\ CheckOK BY DEF IInv
<1>1. CASE check' = check /\ call' = call BY <1>1 DEF CheckMoves
<1>2. ASSUME NEW c \in Call,
             \/ Connect(c) \/ Lock(c) \/ LockTimesOut(c) \/ CheckConsent(c)
             \/ Generate(c) \/ Generated(c) PROVE CheckMoves
  <2>1. \E pc \in Inside : Became(c, pc) BY <1>2, InnerSteps
  <2>2. check' = check /\ call[c].pc \notin {"reserving", "dispatching", "cancelling"}
    BY <1>2 DEF Connect, Lock, LockTimesOut, CheckConsent, Generate, Generated, Joined,
       Requested, quota
  <2> QED BY <2>1, <2>2, CheckUntouched
<1>3. ASSUME NEW c \in Call, RefuseSlot(c) \/ BeginGeneration(c) \/ AnswerChat(c)
      PROVE  CheckMoves
  <2>1. \E pc \in Past : Became(c, pc) BY <1>3, OuterSteps
  <2>2. check' = check /\ call[c].pc \notin {"reserving", "dispatching", "cancelling"}
    BY <1>3 DEF RefuseSlot, BeginGeneration, AnswerChat, Requested, quota
  <2> QED BY <2>1, <2>2, CheckUntouched
<1>4. ASSUME NEW c \in Call, Acquire(c) \/ Enqueue(c) \/ WaitTimesOut(c) PROVE CheckMoves
  <2>1. Became(c, "connect") \/ Became(c, "queued") \/ Became(c, AfterFailure(c))
    BY <1>0, <1>4, ToBecomes, FailToBecomes DEF Acquire, Enqueue, WaitTimesOut, Pc
  <2>2. check' = check /\ call[c].pc \notin {"reserving", "dispatching", "cancelling"}
    BY <1>4 DEF Acquire, Enqueue, WaitTimesOut, Joined, quota
  <2> QED BY <2>1, <2>2, CheckUntouched
<1>5. ASSUME NEW c \in Call, Leave(c) \/ ConnectFails(c) PROVE CheckMoves
  <2>1. check' = check BY <1>5 DEF Leave, ConnectFails, quota
  <2> QED BY <1>0, <1>5, <2>1, LeaveGives, ConnectFailsGives, CheckGives
<1>6. ASSUME NEW c \in Call, Abort(c) PROVE CheckMoves
  <2>1. check' = check BY <1>6 DEF Abort, quota
  <2>2. CASE GivesUp(c)
    <3>1. \E pc \in Past : Became(c, pc) /\ call[c].pc = "queued" BY <2>2 DEF GivesUp
    <3> QED BY <2>1, <3>1, CheckUntouched
  <2>3. CASE /\ call'[c].pc = call[c].pc /\ \A w \in Call \ {c} : call'[w] = call[w]
    <3>1. CASE check = NoCheck BY <2>1, <3>1 DEF CheckMoves
    <3>2. CASE check # NoCheck
      <4>1. check.call \in Call BY <1>0, <3>2, Checking DEF Check
      <4> QED BY <2>1, <2>3, <4>1 DEF CheckMoves
    <3> QED BY <3>1, <3>2
  <2> QED BY <1>0, <1>6, <2>2, <2>3, AbortSteps
<1>7. ASSUME NEW c \in Call, DispatchChat(c) PROVE CheckMoves
  <2>1. c \in Chats /\ call[c].pc = "dispatch" BY <1>7 DEF DispatchChat
  <2>2. CASE call' = Leaves(c, "failed") /\ UNCHANGED check
    BY <1>0, <2>1, <2>2, LeavesBecomes, CheckUntouched
  <2>3. CASE Guard(c, "dispatch", "dispatching", [call EXCEPT ![c].attempted = TRUE])
    <3>1. \/ /\ Became(c, "dispatching") /\ check = NoCheck /\ check' \in Check
             /\ check'.call = c /\ check'.what = "dispatch" /\ check'.stage = "store"
          \/ Became(c, Refusal("dispatch")) /\ check' = check
      BY <1>0, <2>3, GuardBecomes DEF Pc
    <3>2. CASE check' = check /\ Became(c, Refusal("dispatch"))
      BY <2>1, <3>2, CheckUntouched
    <3>3. CASE check = NoCheck /\ Became(c, "dispatching") /\ check' \in Check
               /\ check'.call = c /\ check'.what = "dispatch" /\ check'.stage = "store"
      BY <2>1, <3>3 DEF CheckMoves, Starts, Became, Asking
    <3> QED BY <3>1, <3>2, <3>3
  <2> QED BY <1>7, <2>2, <2>3 DEF DispatchChat
<1>8. ASSUME NEW c \in Call, BeginChat(c) PROVE CheckMoves
  <2>1. c \in Chats /\ call[c].pc = "idle" BY <1>8 DEF BeginChat
  <2>2. \/ /\ Became(c, "reserving") /\ check = NoCheck /\ check' \in Check
           /\ check'.call = c /\ check'.what = "reserve" /\ check'.stage = "store"
        \/ Became(c, Refusal("reserve")) /\ check' = check
    BY <1>0, <1>8, BeginChatGuards DEF BeginChat, Pc
  <2>3. CASE check' = check /\ Became(c, Refusal("reserve"))
    BY <2>1, <2>3, CheckUntouched
  <2>4. CASE /\ Became(c, "reserving") /\ check = NoCheck /\ check' \in Check
             /\ check'.call = c /\ check'.what = "reserve" /\ check'.stage = "store"
    BY <2>1, <2>4 DEF CheckMoves, Starts, Became, Asking
  <2> QED BY <2>2, <2>3, <2>4
<1>9. ASSUME NEW c \in Call, CancelChat(c) PROVE CheckMoves
  <2>1. c \in Chats /\ check.call # c BY <1>0, <1>9 DEF CancelChat, CheckOK
  <2>2. \/ /\ Became(c, "cancelling") /\ check = NoCheck /\ check' \in Check
           /\ check'.call = c /\ check'.what = "cancel" /\ check'.stage = "store"
        \/ Became(c, Refusal("cancel")) /\ check' = check
    BY <1>0, <1>9, BeginChatGuards DEF CancelChat, Pc
  <2>3. CASE check' = check /\ Became(c, Refusal("cancel"))
    BY <2>1, <2>3, CheckUntouched
  <2>4. CASE /\ Became(c, "cancelling") /\ check = NoCheck /\ check' \in Check
             /\ check'.call = c /\ check'.what = "cancel" /\ check'.stage = "store"
    BY <2>1, <2>4 DEF CheckMoves, Starts, Became, Asking
  <2> QED BY <2>2, <2>3, <2>4
<1>10. CASE Restart \/ QuotaStep BY <1>10 DEF Restart, CheckMoves
<1>11. \/ (check' = check /\ call' = call) \/ Restart \/ QuotaStep
       \/ \E c \in Call : BeginGeneration(c) \/ BeginChat(c) \/ Abort(c) \/ Gate(c) \/ Route(c)
  BY DEF Next, vars, ProviderEnds, Settle, ReadConsent, BeginUpdate, ApplyUpdate,
     UpdateTimesOut, Disable, NextDay, Requested, Quiet, quota
<1> QED BY <1>1, <1>2, <1>3, <1>4, <1>5, <1>6, <1>7, <1>8, <1>9, <1>10, <1>11 DEF Gate, Route

(* Only a chat whose message was not sent cancels its reservation.         *)
LEMMA CancellingNext ==
  ASSUME IInv, [Next]_vars, NEW c \in Call, call'[c].pc = "cancelling"
  PROVE  c \in Chats
<1>0. /\ TypeOK /\ QueueOK /\ CheckOK
      /\ call[c].pc = "cancelling" => c \in Chats
      /\ "cancelling" \notin Inside
  BY DEF IInv, CheckOK, Inside
<1>1. ASSUME NEW w \in Call, NEW pc, Became(w, pc), w = c => pc # "cancelling" \/ c \in Chats
      PROVE  c \in Chats
  BY <1>0, <1>1 DEF Became
<1>2. ASSUME NEW w \in Call, Became(w, AfterFailure(w)) PROVE c \in Chats
  BY <1>1, <1>2, AfterFailureIs
<1>3. ASSUME NEW w \in Call,
             \/ Connect(w) \/ Lock(w) \/ LockTimesOut(w) \/ CheckConsent(w)
             \/ Generate(w) \/ Generated(w) \/ DispatchChat(w)
      PROVE  c \in Chats
  <2>1. PICK pc \in Inside : Became(w, pc) BY <1>3, InnerSteps
  <2> QED BY <1>0, <1>1, <2>1
<1>4. ASSUME NEW w \in Call, BeginChat(w) \/ CancelChat(w) PROVE c \in Chats
  <2>1. w \in Chats BY <1>0, <1>4 DEF BeginChat, CancelChat, CheckOK
  <2>2. PICK pc \in Past : Became(w, pc) BY <1>4, OuterSteps
  <2> QED BY <1>1, <2>1, <2>2
<1>5. ASSUME NEW w \in Call, RefuseSlot(w) \/ WaitTimesOut(w) PROVE c \in Chats
  BY <1>0, <1>2, <1>5, FailToBecomes DEF RefuseSlot, WaitTimesOut
<1>6. ASSUME NEW w \in Call, Acquire(w) \/ Enqueue(w) \/ AnswerChat(w) PROVE c \in Chats
  <2>1. Became(w, "connect") \/ Became(w, "queued") \/ Became(w, "done")
    BY <1>0, <1>6, ToBecomes DEF Acquire, Enqueue, AnswerChat, Pc
  <2> QED BY <1>1, <2>1
<1>7. ASSUME NEW w \in Call, BeginGeneration(w) PROVE c \in Chats
  <2>1. PICK pc \in Past : Became(w, pc) BY <1>7, OuterSteps
  <2>2. CASE call' = To(w, "done") BY <1>0, <1>1, <2>2, ToBecomes DEF Pc
  <2>3. CASE call' = [call EXCEPT ![w].pc = "acquire", ![w].charge = "reserved",
                                  ![w].day = today]
    <3>1. call'[w].pc = "acquire" BY <1>0, <2>3 DEF TypeOK, CallType
    <3> QED BY <1>1, <2>1, <3>1 DEF Became
  <2> QED BY <1>7, <2>2, <2>3 DEF BeginGeneration
<1>8. ASSUME NEW w \in Call, Leave(w) \/ ConnectFails(w) PROVE c \in Chats
  <2>1. Gives(w) /\ (call'[w].pc = "cancelling" => w \in Chats)
    <3>1. CASE Leave(w) BY <1>0, <3>1, LeaveGives, LeftIs
    <3>2. CASE ConnectFails(w) BY <1>0, <3>2, ConnectFailsGives, Failed, AfterFailureIs
    <3> QED BY <1>8, <3>1, <3>2
  <2>2. CASE c = w BY <2>1, <2>2
  <2>3. CASE c \in Passed[3] \ {w} BY <2>1, <2>3 DEF Gives
  <2>4. CASE c \notin Passed[3] \cup {w} BY <1>0, <2>1, <2>4 DEF Gives
  <2> QED BY <2>2, <2>3, <2>4
<1>9. ASSUME NEW w \in Call, Abort(w) PROVE c \in Chats
  <2>1. CASE call' = FailTo(w) BY <1>0, <1>2, <2>1, FailToBecomes
  <2>2. CASE call'[w].pc = call[w].pc /\ \A v \in Call \ {w} : call'[v] = call[v]
    BY <1>0, <2>2
  <2> QED BY <1>0, <1>9, <2>1, <2>2, AbortSteps
<1>10. CASE QuotaStep
  <2>1. check \in Check /\ check.call \in Call /\ QuotaMove
    BY <1>0, <1>10, QuotaMoves, CallsTyped
  <2>2. CASE call' = call BY <1>0, <2>2
  <2>3. ASSUME NEW pc \in Answers[check.what], Became(check.call, pc) PROVE c \in Chats
    <3>1. pc # "cancelling" BY <2>1 DEF Answers, Check
    <3> QED BY <1>1, <2>1, <2>3, <3>1
  <2> QED BY <2>1, <2>2, <2>3 DEF QuotaMove
<1>11. CASE Restart BY <1>0, <1>11, RestartClears
<1>12. CASE UNCHANGED call BY <1>0, <1>12
<1>13. UNCHANGED call \/ Restart \/ QuotaStep
       \/ \E w \in Call : BeginGeneration(w) \/ BeginChat(w) \/ Abort(w) \/ Gate(w) \/ Route(w)
  BY DEF Next, vars, ProviderEnds, Settle, ReadConsent, BeginUpdate, ApplyUpdate,
     UpdateTimesOut, Disable, NextDay, Requested, Quiet
<1> QED BY <1>3, <1>4, <1>5, <1>6, <1>7, <1>8, <1>9, <1>10, <1>11, <1>12, <1>13 DEF Gate, Route

LEMMA CheckNext ==
  ASSUME IInv, [Next]_vars
  PROVE  CheckOK' /\ check' \in Check \cup {NoCheck}
<1>1. \A c \in Call : call'[c].pc = "cancelling" => c \in Chats BY CancellingNext
<1>2. CASE check' = NoCheck BY <1>1, <1>2 DEF CheckOK
<1>3. CASE check' = check /\ (check # NoCheck /\ check.live =>
                                 call'[check.call].pc = call[check.call].pc)
  BY <1>1, <1>3 DEF CheckOK, IInv, TypeOK
<1>4. CASE QuotaStep
  <2>1. check \in Check /\ check # NoCheck /\ check.call \in Chats /\ QuotaMove
    BY <1>4, QuotaMoves DEF IInv
  <2>2. check.live => call[check.call].pc = Asking[check.what] BY <2>1 DEF IInv, CheckOK
  <2> QED BY <1>1, <2>1, <2>2 DEF CheckOK, QuotaMove
<1>5. ASSUME NEW c \in Chats, Starts(c) PROVE CheckOK' /\ check' \in Check \cup {NoCheck}
  BY <1>1, <1>5 DEF CheckOK, Starts
<1> QED BY <1>2, <1>3, <1>4, <1>5, CheckSteps DEF CheckMoves

-----------------------------------------------------------------------------
(* The consent: SentUnderConsent and GivenKnowingly.                       *)

Sending == {"dispatch", "dispatching"}

LEMMA SendingSteps ==
  ASSUME IInv, [Next]_vars, NEW c \in Call, call'[c].pc \in Sending
  PROVE  \/ call[c].pc \in Sending
         \/ /\ CheckConsent(c) /\ consent[Owner[c]].enabled
            /\ FeatureOf(c) \in consent[Owner[c]].features
<1> DEFINE G == \/ call[c].pc \in Sending
                \/ /\ CheckConsent(c) /\ consent[Owner[c]].enabled
                   /\ FeatureOf(c) \in consent[Owner[c]].features
<1> SUFFICES G OBVIOUS
<1>a. call[c].pc \in Sending => G OBVIOUS
<1> HIDE DEF G
<1>0. TypeOK /\ QueueOK /\ CheckOK /\ Sending \subseteq Inside /\ Sending \cap Past = {}
      /\ "queued" \notin Sending /\ (call[c].pc \in Sending => G)
  BY <1>a DEF IInv, Sending, Inside, Past
<1>1. ASSUME NEW w \in Call, NEW pc, Became(w, pc), w = c => pc \notin Sending \/ G PROVE G
  BY <1>0, <1>1 DEF Became
<1>2. ASSUME NEW w \in Call,
             RefuseSlot(w) \/ BeginChat(w) \/ BeginGeneration(w) \/ CancelChat(w)
             \/ AnswerChat(w)
      PROVE  G
  <2>1. PICK pc \in Past : Became(w, pc) BY <1>2, OuterSteps
  <2> QED BY <1>0, <1>1, <2>1
<1>3. ASSUME NEW w \in Call, Acquire(w) \/ Enqueue(w) \/ WaitTimesOut(w) PROVE G
  <2>1. Became(w, "connect") \/ Became(w, "queued") \/ Became(w, AfterFailure(w))
    BY <1>0, <1>3, ToBecomes, FailToBecomes DEF Acquire, Enqueue, WaitTimesOut, Pc
  <2> QED BY <1>1, <2>1, AfterFailureIs DEF Sending
<1>4. ASSUME NEW w \in Call,
             Connect(w) \/ Lock(w) \/ LockTimesOut(w) \/ Generate(w) \/ Generated(w)
      PROVE  G
  <2>1. PICK pc \in Inside : Became(w, pc) BY <1>4, InnerSteps
  <2>2. call \in [Call -> CallType] BY <1>0 DEF TypeOK
  <2>3. call' = To(w, "lock") \/ call' = To(w, "consent")
        \/ (\E n \in {"sent", "failed", "again", "done"} : call' = Leaves(w, n)) \/ Generate(w)
    BY <1>4 DEF Connect, Lock, LockTimesOut, Generated
  <2>4. CASE Generate(w)
    <3>1. call'[w].pc = "calling"
      <4> DEFINE x == call[w].attempts + 1
      <4>1. call' = [call EXCEPT ![w].pc = "calling", ![w].attempts = x] BY <2>4 DEF Generate
      <4> HIDE DEF x
      <4> QED BY <2>2, <4>1 DEF CallType
    <3> QED BY <1>1, <2>1, <3>1 DEF Became, Sending
  <2>5. CASE ~Generate(w)
    <3>1. Became(w, "lock") \/ Became(w, "consent") \/ Became(w, "leaving")
      BY <1>0, <2>3, <2>5, ToBecomes, LeavesBecomes DEF Pc
    <3> QED BY <1>1, <3>1 DEF Sending
  <2> QED BY <2>4, <2>5
<1>5. ASSUME NEW w \in Call, DispatchChat(w) PROVE G
  <2>1. PICK pc \in Inside : Became(w, pc) BY <1>5, InnerSteps
  <2>2. call[w].pc \in Sending BY <1>5 DEF DispatchChat, Sending
  <2> QED BY <1>0, <1>1, <2>1, <2>2
<1>6. ASSUME NEW w \in Call, CheckConsent(w) PROVE G
  <2>1. CASE call' = To(w, "dispatch") /\ consent[Owner[w]].enabled
             /\ FeatureOf(w) \in consent[Owner[w]].features
    <3>1. Became(w, "dispatch") BY <1>0, <2>1, ToBecomes DEF Pc
    <3> QED BY <1>1, <1>6, <2>1, <3>1 DEF G
  <2>2. CASE call' = Leaves(w, "failed")
    <3>1. Became(w, "leaving") BY <1>0, <2>2, LeavesBecomes
    <3> QED BY <1>1, <3>1 DEF Sending
  <2> QED BY <1>6, <2>1, <2>2 DEF CheckConsent
<1>7. ASSUME NEW w \in Call, Leave(w) \/ ConnectFails(w) PROVE G
  <2>1. Gives(w) BY <1>0, <1>7, LeaveGives, ConnectFailsGives
  <2>2. CASE c = w BY <1>0, <2>1, <2>2 DEF Gives
  <2>3. CASE c \in Passed[3] \ {w} BY <2>1, <2>3 DEF Gives, Sending
  <2>4. CASE c \notin Passed[3] \cup {w} BY <1>0, <2>1, <2>4 DEF Gives
  <2> QED BY <2>2, <2>3, <2>4
<1>8. ASSUME NEW w \in Call, Abort(w) PROVE G
  <2>1. CASE GivesUp(w) BY <1>0, <1>1, <2>1 DEF GivesUp
  <2>2. CASE call'[w].pc = call[w].pc /\ \A v \in Call \ {w} : call'[v] = call[v]
    BY <1>0, <2>2
  <2> QED BY <1>0, <1>8, <2>1, <2>2, AbortSteps
<1>9. CASE QuotaStep
  <2>1. check \in Check /\ check.call \in Call /\ QuotaMove
    BY <1>0, <1>9, QuotaMoves, CallsTyped
  <2>2. CASE call' = call BY <1>0, <2>2
  <2>3. ASSUME NEW pc \in Answers[check.what], Became(check.call, pc) PROVE G
    <3>1. pc \notin Sending BY <2>1 DEF Answers, Check, Sending
    <3> QED BY <1>1, <2>1, <2>3, <3>1
  <2> QED BY <2>1, <2>2, <2>3 DEF QuotaMove
<1>10. CASE Restart BY <1>0, <1>10, RestartClears DEF Sending
<1>11. CASE UNCHANGED call BY <1>0, <1>11
<1>12. UNCHANGED call \/ Restart \/ QuotaStep
       \/ \E w \in Call : BeginGeneration(w) \/ BeginChat(w) \/ Abort(w) \/ Gate(w) \/ Route(w)
  BY DEF Next, vars, ProviderEnds, Settle, ReadConsent, BeginUpdate, ApplyUpdate,
     UpdateTimesOut, Disable, NextDay, Requested, Quiet
<1> QED BY <1>2, <1>3, <1>4, <1>5, <1>6, <1>7, <1>8, <1>9, <1>10, <1>11, <1>12 DEF Gate, Route

(* The consent of a user changes only under its lock.                      *)
LEMMA ConsentSteps ==
  ASSUME [Next]_vars
  PROVE  \/ UNCHANGED consent
         \/ \E d \in Device : ApplyUpdate(d)
BY DEF Next, vars, consents, BeginGeneration, BeginChat, Abort, Gate, Route, QuotaStep,
   Acquire, Enqueue, RefuseSlot, WaitTimesOut, Connect, ConnectFails, Lock, LockTimesOut,
   CheckConsent, Leave, Generate, Generated, DispatchChat, CancelChat, AnswerChat,
   PingFails, CheckTimesOut, ReserveStore, ReserveMirror, CancelStore, ReleaseMirror,
   DispatchStore, ProviderEnds, Settle, ReadConsent, BeginUpdate, UpdateTimesOut, Disable,
   NextDay, Restart, Joined, Requested, Quiet

LEMMA AppliedConsent ==
  ASSUME TypeOK, NEW d \in Device, ApplyUpdate(d)
  PROVE  \/ UNCHANGED consent
         \/ /\ ~Refused(consent[DeviceUser[d]], editing[d])
            /\ \E now \in 0 .. 1 : consent' = [consent EXCEPT ![DeviceUser[d]] =
                                     Updated(consent[DeviceUser[d]], editing[d], now)]
BY DEF ApplyUpdate

LEMMA ConsentHeldNext ==
  ASSUME IInv, [Next]_vars
  PROVE  ConsentHeld'
<1> SUFFICES ASSUME NEW c \in Call, call'[c].pc \in Sending
             PROVE  consent'[Owner[c]].enabled /\ FeatureOf(c) \in consent'[Owner[c]].features
  BY DEF ConsentHeld, Sending, FeatureOf
<1>0. TypeOK /\ ConsentHeld BY DEF IInv
<1>1. CASE CheckConsent(c) /\ consent[Owner[c]].enabled
           /\ FeatureOf(c) \in consent[Owner[c]].features
  BY <1>1 DEF CheckConsent, Joined, consents
<1>2. CASE call[c].pc \in Sending
  <2>1. consent[Owner[c]].enabled /\ FeatureOf(c) \in consent[Owner[c]].features
    BY <1>0, <1>2 DEF ConsentHeld, Sending
  <2>2. CASE UNCHANGED consent BY <2>1, <2>2
  <2>3. ASSUME NEW d \in Device, ApplyUpdate(d), consent' # consent
        PROVE  consent'[Owner[c]] = consent[Owner[c]]
    <3>1. HoldsLock(c) BY <1>2 DEF HoldsLock, HoldsConnection, HoldsSlot, Sending
    <3>2. Owner[c] # DeviceUser[d] BY <2>3, <3>1 DEF ApplyUpdate, LockFree
    <3>3. PICK x : consent' = [consent EXCEPT ![DeviceUser[d]] = x]
      BY <1>0, <2>3, AppliedConsent
    <3>4. consent \in [User -> Consent] /\ Owner[c] \in User BY <1>0, CallsTyped DEF TypeOK
    <3> QED BY <3>2, <3>3, <3>4
  <2> QED BY <2>1, <2>2, <2>3, ConsentSteps
<1> QED BY <1>1, <1>2, SendingSteps

(* A provider is called by a generation at its dispatch, or by the         *)
(* dispatch of a chat that still waits for it.                             *)
LEMMA CallingSteps ==
  ASSUME IInv, [Next]_vars, NEW c \in Call,
         provider[c].state # "running", provider'[c].state = "running"
  PROVE  /\ call[c].pc \in Sending /\ UNCHANGED consent
         /\ provider' = [provider EXCEPT ![c] = [state |-> "running", day |-> today]]
         /\ c \in Chats => /\ check # NoCheck /\ check.call = c /\ check.what = "dispatch"
                           /\ op[c].state = "reserved" /\ op' = Dispatched(c)
<1>0. TypeOK /\ CheckOK
      /\ provider \in [Call -> [state : {"idle", "running", "answered", "failed", "closed"},
                                day : Nat]]
  BY DEF IInv, TypeOK
<1>1. ASSUME NEW w \in Call, NEW s \in {"answered", "failed", "closed"},
             provider' = [provider EXCEPT ![w].state = s]
      PROVE  FALSE
  BY <1>0, <1>1
<1>2. ASSUME NEW w \in Call, provider' = CallProvider(w) PROVE w = c
  BY <1>0, <1>2 DEF CallProvider
<1>3. CASE UNCHANGED provider BY <1>3
<1>4. ASSUME NEW w \in Call, Generate(w)
      PROVE  w = c /\ c \notin Chats /\ call[c].pc \in Sending /\ UNCHANGED consent
             /\ provider' = CallProvider(c)
  BY <1>2, <1>4 DEF Generate, Sending, Requested, consents
<1>5. ASSUME NEW w \in Call, Generated(w) \/ ProviderEnds(w) \/ Settle(w) PROVE FALSE
  BY <1>1, <1>3, <1>5 DEF Generated, ProviderEnds, Settle
<1>6. CASE DispatchStore
  <2>1. /\ provider' = CallProvider(check.call) /\ check.live /\ op[check.call].state = "reserved"
        /\ op' = Dispatched(check.call) /\ UNCHANGED consent
        /\ check # NoCheck /\ check.what = "dispatch"
    BY <1>3, <1>6 DEF DispatchStore, InCheck, Quiet, consents
  <2>2. check.call \in Chats /\ call[check.call].pc = "dispatching"
    BY <1>0, <2>1 DEF CheckOK, Asking
  <2>3. check.call = c BY <1>2, <2>1, <2>2, CallsTyped
  <2> QED BY <2>1, <2>2, <2>3 DEF Sending, CallProvider
<1>7. CASE Restart
  <2>1. provider'[c] \in {[provider[c] EXCEPT !.state = "failed"],
                          [provider[c] EXCEPT !.state = "closed"], provider[c]}
    BY <1>7 DEF Restart
  <2> QED BY <1>0, <2>1
<1>8. UNCHANGED provider \/ Restart \/ DispatchStore
      \/ \E w \in Call : Generate(w) \/ Generated(w) \/ ProviderEnds(w) \/ Settle(w)
  BY DEF Next, vars, BeginGeneration, BeginChat, Abort, Gate, Route, QuotaStep,
   Acquire, Enqueue, RefuseSlot, WaitTimesOut, Connect, ConnectFails, Lock, LockTimesOut,
   CheckConsent, Leave, DispatchChat, CancelChat, AnswerChat,
   PingFails, CheckTimesOut, ReserveStore, ReserveMirror, CancelStore, ReleaseMirror,
   ReadConsent, BeginUpdate, ApplyUpdate, UpdateTimesOut, Disable,
   NextDay, Joined, Requested, Quiet
<1> QED BY <1>3, <1>4, <1>5, <1>6, <1>7, <1>8 DEF CallProvider

LEMMA SentUnderConsentNext ==
  ASSUME IInv, [Next]_vars, NEW c \in Call,
         provider[c].state # "running", provider'[c].state = "running"
  PROVE  consent[Owner[c]].enabled /\ FeatureOf(c) \in consent[Owner[c]].features
BY CallingSteps DEF IInv, ConsentHeld, Sending

ConsentsTyped ==
  /\ consent \in [User -> Consent] /\ seen \in [Device -> Consent]
  /\ editing \in [Device -> Update]

(* An update that is not refused makes a new revision; it adds a feature   *)
(* only to the consent it expects.                                         *)
LEMMA UpdatedIs ==
  ASSUME NEW held \in Consent, NEW u \in Update, NEW now \in 0 .. 1
  PROVE  /\ Updated(held, u, now) \in Consent
         /\ Updated(held, u, now).revision > held.revision
         /\ ~(Updated(held, u, now).features \subseteq held.features) =>
              Refused(held, u) \/ u.expected = held.revision
<1> DEFINE on == IF u.enabled = "keep" THEN held.enabled ELSE u.enabled = "on"
           f  == IF on THEN ((IF held.enabled THEN held.features ELSE {})
                               \cup u.grants) \ u.revokes
                 ELSE {}
           r  == NextRevision(held, now)
<1>1. on \in BOOLEAN BY DEF Consent
<1>2. f \in SUBSET Feature BY DEF Consent, Update
<1>3. r \in Nat /\ r > held.revision BY DEF NextRevision, Consent
<1>4. Updated(held, u, now) = [enabled |-> on, features |-> f, revision |-> r]
  BY DEF Updated
<1>5. ~(f \subseteq held.features) => Refused(held, u) \/ u.expected = held.revision
  <2>1. CASE u.grants = {} BY <2>1
  <2>2. CASE u.grants # {} BY <2>2 DEF Refused, IsGrant
  <2> QED BY <2>1, <2>2
<1> HIDE DEF on, f, r
<1>6. /\ Updated(held, u, now).features = f /\ Updated(held, u, now).revision = r
      /\ Updated(held, u, now) \in Consent
  BY <1>1, <1>2, <1>3, <1>4 DEF Consent
<1> QED BY <1>3, <1>5, <1>6

LEMMA NoUpdateIs == NoUpdate \in Update /\ NoUpdate.expected = 0
BY DEF NoUpdate, Update

(* What a step does to the consents, and to what the devices know of them. *)
LEMMA ConsentsSteps ==
  ASSUME [Next]_vars
  PROVE  \/ UNCHANGED consents
         \/ Restart
         \/ \E d \in Device : \/ ReadConsent(d) \/ ApplyUpdate(d) \/ UpdateTimesOut(d)
                              \/ \E e \in Edit[d] : BeginUpdate(d, e)
BY DEF Next, vars, BeginGeneration, BeginChat, Abort, Gate, Route, QuotaStep,
   Acquire, Enqueue, RefuseSlot, WaitTimesOut, Connect, ConnectFails, Lock, LockTimesOut,
   CheckConsent, Leave, Generate, Generated, DispatchChat, CancelChat, AnswerChat,
   PingFails, CheckTimesOut, ReserveStore, ReserveMirror, CancelStore, ReleaseMirror,
   DispatchStore, ProviderEnds, Settle, Disable,
   NextDay, Joined, Requested, Quiet

LEMMA ConsentsNext ==
  ASSUME IInv, [Next]_vars
  PROVE  ConsentsTyped' /\ RevisionsOK'
<1>0. /\ consent \in [User -> Consent] /\ seen \in [Device -> Consent]
      /\ editing \in [Device -> Update] /\ DeviceUser \in [Device -> User]
  BY CallsTyped DEF IInv, TypeOK
<1>1. ASSUME NEW d \in Device
      PROVE  /\ consent[DeviceUser[d]].revision \in Nat \ {0} /\ seen[d].revision \in Nat
             /\ editing[d].expected \in Nat
             /\ seen[d].revision <= consent[DeviceUser[d]].revision
             /\ seen[d].revision = consent[DeviceUser[d]].revision =>
                  seen[d] = consent[DeviceUser[d]]
             /\ editing[d].expected <= seen[d].revision
  <2>1. consent[DeviceUser[d]] \in Consent /\ seen[d] \in Consent /\ editing[d] \in Update
    BY <1>0
  <2> QED BY <2>1 DEF IInv, RevisionsOK, Consent, Update
<1> USE DEF ConsentsTyped, RevisionsOK
<1>2. CASE UNCHANGED consents BY <1>0, <1>1, <1>2 DEF consents
<1>3. ASSUME NEW d \in Device, ReadConsent(d) PROVE ConsentsTyped' /\ RevisionsOK'
  BY <1>0, <1>1, <1>3 DEF ReadConsent
<1>4. ASSUME NEW d \in Device, NEW e \in Edit[d], BeginUpdate(d, e)
      PROVE  ConsentsTyped' /\ RevisionsOK'
  <2> DEFINE n == [enabled |-> e.enabled, grants |-> e.grants, revokes |-> e.revokes,
                   expected |-> seen[d].revision]
  <2>1. e \in EditType BY EditsTyped
  <2>2. n \in Update /\ n.expected = seen[d].revision BY <1>1, <2>1 DEF EditType, Update
  <2>3. editing' = [editing EXCEPT ![d] = n] /\ consent' = consent /\ seen' = seen
    BY <1>4 DEF BeginUpdate
  <2> HIDE DEF n
  <2> QED BY <1>0, <1>1, <2>2, <2>3
<1>5. ASSUME NEW d \in Device, UpdateTimesOut(d) PROVE ConsentsTyped' /\ RevisionsOK'
  BY <1>0, <1>1, <1>5, NoUpdateIs DEF UpdateTimesOut
<1>6. ASSUME NEW d \in Device, ApplyUpdate(d) PROVE ConsentsTyped' /\ RevisionsOK'
  <2>1. editing' = [editing EXCEPT ![d] = NoUpdate] /\ seen' = seen BY <1>6 DEF ApplyUpdate
  <2>2. CASE UNCHANGED consent BY <1>0, <1>1, <2>1, <2>2, NoUpdateIs
  <2>3. ASSUME NEW now \in 0 .. 1,
               consent' = [consent EXCEPT ![DeviceUser[d]] =
                             Updated(consent[DeviceUser[d]], editing[d], now)]
        PROVE  ConsentsTyped' /\ RevisionsOK'
    <3> DEFINE n == Updated(consent[DeviceUser[d]], editing[d], now)
    <3>1. n \in Consent /\ n.revision \in Nat /\ n.revision > consent[DeviceUser[d]].revision
      BY <1>0, UpdatedIs DEF Consent
    <3>2. consent' = [consent EXCEPT ![DeviceUser[d]] = n] BY <2>3
    <3> HIDE DEF n
    <3> QED BY <1>0, <1>1, <2>1, <3>1, <3>2, NoUpdateIs
  <2> QED BY <1>0, <1>6, <2>2, <2>3, AppliedConsent DEF IInv
<1>7. CASE Restart
  <2>1. editing' = [d \in Device |-> NoUpdate] /\ consent' = consent /\ seen' = seen
    BY <1>7 DEF Restart
  <2> QED BY <1>0, <1>1, <2>1, NoUpdateIs
<1> QED BY <1>2, <1>3, <1>4, <1>5, <1>6, <1>7, ConsentsSteps

LEMMA GivenKnowinglyNext ==
  ASSUME IInv, [Next]_vars, NEW u \in User, ~(consent'[u].features \subseteq consent[u].features)
  PROVE  \E d \in Device : DeviceUser[d] = u /\ editing[d] # editing'[d] /\ seen[d] = consent[u]
<1>0. /\ TypeOK /\ consent \in [User -> Consent] /\ seen \in [Device -> Consent]
      /\ editing \in [Device -> Update] /\ DeviceUser \in [Device -> User]
  BY CallsTyped DEF IInv, TypeOK
<1>1. PICK d \in Device : ApplyUpdate(d) /\ consent' # consent BY ConsentSteps
<1>2. PICK now \in 0 .. 1 : /\ ~Refused(consent[DeviceUser[d]], editing[d])
                            /\ consent' = [consent EXCEPT ![DeviceUser[d]] =
                                 Updated(consent[DeviceUser[d]], editing[d], now)]
  BY <1>0, <1>1, AppliedConsent
<1>3. u = DeviceUser[d] BY <1>0, <1>2
<1>4. consent'[u] = Updated(consent[u], editing[d], now) BY <1>0, <1>2, <1>3
<1>5. consent[u] \in Consent /\ editing[d] \in Update /\ seen[d] \in Consent BY <1>0
<1>6. editing[d].expected = consent[u].revision BY <1>2, <1>3, <1>4, <1>5, UpdatedIs
<1>7. seen[d].revision <= consent[u].revision /\ editing[d].expected <= seen[d].revision
      /\ (seen[d].revision = consent[u].revision => seen[d] = consent[u])
  BY <1>3 DEF IInv, RevisionsOK
<1>8. seen[d] = consent[u] BY <1>5, <1>6, <1>7 DEF Consent
<1>9. editing[d] # editing'[d] BY <1>0, <1>1 DEF ApplyUpdate
<1> QED BY <1>3, <1>8, <1>9

-----------------------------------------------------------------------------
(* The ledger of the chats: WorkIsCounted, and the chats of a day.         *)

OpType == [state : OpState, day : Nat]

ProviderType == [state : {"idle", "running", "answered", "failed", "closed"}, day : Nat]

LEMMA IdleNext ==
  ASSUME IInv, [Next]_vars, NEW c \in Call, call'[c].pc = "idle"
  PROVE  call[c].pc = "idle"
<1>1. CASE Neutral BY <1>1, Sides DEF Neutral, Beside, Inside
<1>2. ASSUME NEW w \in Call, NEW pc, Became(w, pc), pc # "idle" PROVE call[c].pc = "idle"
  BY <1>2 DEF Became
<1>3. ASSUME NEW w \in Call, Takes(w) \/ Joins(w) \/ GivesUp(w) PROVE call[c].pc = "idle"
  BY <1>2, <1>3, Sides DEF Takes, Joins, GivesUp
<1>4. ASSUME NEW w \in Call, Gives(w) PROVE call[c].pc = "idle"
  <2>1. CASE c = w BY <1>4, <2>1, Sides DEF Gives
  <2>2. CASE c \in Passed[3] \ {w} BY <1>4, <2>2 DEF Gives
  <2>3. CASE c \notin Passed[3] \cup {w} BY <1>4, <2>3 DEF Gives
  <2> QED BY <2>1, <2>2, <2>3
<1>5. CASE Restarts BY <1>5, Sides DEF Restarts
<1> QED BY <1>1, <1>3, <1>4, <1>5, GateSteps DEF GateMoves

(* The row of a chat is written by its reservation, its cancellation, its  *)
(* dispatch or its settlement.                                             *)
Reserves(c)  == /\ Admits(Owner[c]) /\ check # NoCheck /\ check.what = "reserve"
                /\ check.stage = "store"
                /\ op' = [op EXCEPT ![c] = [state |-> "reserved", day |-> today]]
Cancels(c)   == op[c].state = "reserved" /\ op' = [op EXCEPT ![c].state = "cancelled"]
Sends(c)     == op[c].state = "reserved" /\ op' = Dispatched(c)
Closes(c)    == /\ op[c].state = "dispatched" /\ provider[c].state = "answered"
                /\ op' = [op EXCEPT ![c].state = "settled"]

OpMoves ==
  \/ UNCHANGED op /\ today' = today
  \/ UNCHANGED op /\ today' = today + 1 /\ today < MaxDay
  \/ /\ today' = today
     /\ \E c \in Chats : \/ Reserves(c) /\ c = check.call
                         \/ Cancels(c) \/ Sends(c) \/ Closes(c)

LEMMA OpSteps ==
  ASSUME IInv, [Next]_vars
  PROVE  OpMoves
<1>0. op \in [Chats -> OpType] /\ CheckOK BY DEF IInv, TypeOK, OpType
<1> USE DEF OpMoves
<1>1. CASE ReserveStore
  <2>1. check.call \in Chats /\ today' = today BY <1>0, <1>1 DEF ReserveStore, InCheck, CheckOK, Quiet
  <2>2. UNCHANGED op \/ Reserves(check.call) BY <1>1 DEF ReserveStore, Reserves, InCheck
  <2> QED BY <2>1, <2>2
<1>2. CASE CancelStore
  <2>1. check.call \in Chats /\ today' = today BY <1>0, <1>2 DEF CancelStore, InCheck, CheckOK, Quiet
  <2>2. UNCHANGED op \/ op' = Cancelled(check.call) BY <1>2 DEF CancelStore
  <2>3. ASSUME op' = Cancelled(check.call) PROVE UNCHANGED op \/ Cancels(check.call)
    <3>1. CASE op[check.call].state = "reserved" BY <2>3, <3>1 DEF Cancelled, Cancels
    <3>2. CASE op[check.call].state # "reserved"
      <4>1. op' = [op EXCEPT ![check.call] = [op[check.call] EXCEPT !.state = op[check.call].state]]
        BY <2>3, <3>2 DEF Cancelled
      <4>2. op[check.call] \in OpType BY <1>0, <2>1
      <4>3. [op[check.call] EXCEPT !.state = op[check.call].state] = op[check.call]
        BY <4>2 DEF OpType
      <4> QED BY <1>0, <4>1, <4>3
    <3> QED BY <3>1, <3>2
  <2> QED BY <2>1, <2>2, <2>3
<1>3. CASE DispatchStore
  <2>1. check.call \in Chats /\ today' = today
    BY <1>0, <1>3 DEF DispatchStore, InCheck, CheckOK, Quiet
  <2>2. UNCHANGED op \/ Sends(check.call) BY <1>3 DEF DispatchStore, Sends
  <2> QED BY <2>1, <2>2
<1>4. ASSUME NEW c \in Call, Settle(c) PROVE OpMoves
  <2>1. c \in Chats /\ today' = today BY <1>4 DEF Settle, Quiet
  <2>2. UNCHANGED op \/ Closes(c) BY <1>4 DEF Settle, Settles, Closes
  <2> QED BY <2>1, <2>2
<1>5. CASE NextDay BY <1>5 DEF NextDay
<1>6. CASE UNCHANGED <<op, today>> BY <1>6
<1>7. UNCHANGED <<op, today>> \/ NextDay \/ ReserveStore \/ CancelStore \/ DispatchStore
      \/ \E c \in Call : Settle(c)
  BY DEF Next, vars, quota, world, BeginGeneration, BeginChat, Abort, Gate, Route, QuotaStep,
   Acquire, Enqueue, RefuseSlot, WaitTimesOut, Connect, ConnectFails, Lock, LockTimesOut,
   CheckConsent, Leave, Generate, Generated, DispatchChat, CancelChat, AnswerChat,
   PingFails, CheckTimesOut, ReserveMirror, ReleaseMirror,
   ReadConsent, BeginUpdate, ApplyUpdate, UpdateTimesOut, ProviderEnds, Disable,
   Restart, Joined, Requested, Quiet
<1> QED BY <1>1, <1>2, <1>3, <1>4, <1>5, <1>6, <1>7

LEMMA OpTyped ==
  ASSUME IInv, OpMoves
  PROVE  op' \in [Chats -> OpType] /\ today' \in 0 .. MaxDay
<1>0. op \in [Chats -> OpType] /\ today \in 0 .. MaxDay /\ MaxDay \in Nat
  BY AiBoundsTyped DEF IInv, TypeOK, OpType
<1>1. ASSUME NEW c \in Chats, Reserves(c) \/ Cancels(c) \/ Sends(c) \/ Closes(c)
      PROVE  op' \in [Chats -> OpType]
  BY <1>0, <1>1 DEF Reserves, Cancels, Sends, Closes, Dispatched, OpType, OpState
<1> QED BY <1>0, <1>1 DEF OpMoves

(* What the rows count, as sets of chats.                                  *)
LEMMA Counted ==
  /\ ActiveOps \subseteq Chats /\ IsFiniteSet(ActiveOps) /\ Cardinality(ActiveOps) \in Nat
  /\ \A u, d : IsFiniteSet(DayOps(u, d)) /\ Cardinality(DayOps(u, d)) \in Nat
  /\ \A u : OpsToday(u) = DayOps(u, today)
<1>1. IsFiniteSet(Chats) BY CallsTyped, FS_Subset
<1>2. ActiveOps \subseteq Chats /\ \A u, d : DayOps(u, d) \subseteq Chats
  BY DEF ActiveOps, DayOps
<1>3. \A u : OpsToday(u) = DayOps(u, today) BY DEF OpsToday, DayOps, Counts
<1> QED BY <1>1, <1>2, <1>3, FS_Subset, FS_CardinalityType

(* Smaller sets count less, one more counts one more.                      *)
LEMMA Fewer ==
  ASSUME NEW S, IsFiniteSet(S), NEW T, T \subseteq S, NEW n \in Nat, Cardinality(S) <= n
  PROVE  IsFiniteSet(T) /\ Cardinality(T) <= n
BY FS_Subset, FS_CardinalityType

LEMMA OneMore ==
  ASSUME NEW S, IsFiniteSet(S), NEW c, NEW T, T \subseteq S \cup {c}, NEW n \in Nat,
         Cardinality(S) < n
  PROVE  IsFiniteSet(T) /\ Cardinality(T) <= n
<1>1. IsFiniteSet(S \cup {c})
      /\ Cardinality(S \cup {c}) = IF c \in S THEN Cardinality(S) ELSE Cardinality(S) + 1
  BY FS_AddElement
<1>2. Cardinality(S) \in Nat BY FS_CardinalityType
<1>3. Cardinality(S \cup {c}) <= n BY <1>1, <1>2
<1> QED BY <1>1, <1>3, Fewer

LEMMA LedgerNext ==
  ASSUME IInv, OpMoves
  PROVE  LedgerOK'
<1>0. /\ op \in [Chats -> OpType] /\ today \in Nat /\ LedgerOK
      /\ GlobalLimit \in Nat /\ DailyLimit \in Nat \ {0} /\ Owner \in [Call -> User]
      /\ Chats \subseteq Call
  BY AiBoundsTyped, LimitsTyped, CallsTyped DEF IInv, TypeOK, OpType
<1>1. /\ \A c \in Chats : Counts(op[c].state) => op[c].day <= today
      /\ \A c, w \in ActiveOps : c # w => Owner[c] # Owner[w]
      /\ Cardinality(ActiveOps) <= GlobalLimit
      /\ \A c, w \in Chats :
           op[c].state = "reserved" /\ Counts(op[w].state) /\ Owner[c] = Owner[w]
             => op[w].day <= op[c].day
      /\ \A u \in User, d \in 0 .. MaxDay : Cardinality(DayOps(u, d)) <= DailyLimit
  BY <1>0 DEF LedgerOK
<1>2. CASE UNCHANGED op /\ (today' = today \/ today' = today + 1)
  <2>1. ActiveOps' = ActiveOps /\ \A u, d : DayOps(u, d)' = DayOps(u, d)
    BY <1>2 DEF ActiveOps, DayOps
  <2>2. \A c \in Chats : op[c].day \in Nat BY <1>0 DEF OpType
  <2> QED BY <1>0, <1>1, <1>2, <2>1, <2>2 DEF LedgerOK
<1>3. ASSUME NEW c \in Chats, Cancels(c) \/ Closes(c), today' = today PROVE LedgerOK'
  <2>1. /\ \A w \in Chats : op'[w].day = op[w].day
        /\ \A w \in Chats \ {c} : op'[w] = op[w]
        /\ op'[c].state \in {"cancelled", "settled"}
        /\ op'[c].state = "settled" => Counts(op[c].state)
    BY <1>0, <1>3 DEF Cancels, Closes, OpType, Counts
  <2>2. /\ \A w \in Chats : Counts(op'[w].state) => Counts(op[w].state)
        /\ \A w \in Chats : op'[w].state = "reserved" => op[w].state = "reserved"
    BY <2>1 DEF Counts
  <2>3. ActiveOps' \subseteq ActiveOps BY <2>1 DEF ActiveOps
  <2>4. \A u, d : DayOps(u, d)' \subseteq DayOps(u, d) BY <2>1, <2>2 DEF DayOps
  <2>5. Cardinality(ActiveOps') <= GlobalLimit BY <1>0, <1>1, <2>3, Counted, Fewer
  <2>6. \A u \in User, d \in 0 .. MaxDay : Cardinality(DayOps(u, d)') <= DailyLimit
    BY <1>0, <1>1, <2>4, Counted, Fewer
  <2> QED BY <1>1, <1>3, <2>1, <2>2, <2>3, <2>5, <2>6 DEF LedgerOK
<1>4. ASSUME NEW c \in Chats, Reserves(c), today' = today PROVE LedgerOK'
  <2>1. /\ op'[c].state = "reserved" /\ op'[c].day = today
        /\ \A w \in Chats \ {c} : op'[w] = op[w]
    BY <1>0, <1>4 DEF Reserves
  <2>2. /\ \A w \in ActiveOps : Owner[w] # Owner[c]
        /\ Cardinality(ActiveOps) < GlobalLimit
        /\ Cardinality(DayOps(Owner[c], today)) < DailyLimit
    BY <1>4, Counted DEF Reserves, Admits
  <2>3. ActiveOps' \subseteq ActiveOps \cup {c} BY <2>1 DEF ActiveOps
  <2>4. Cardinality(ActiveOps') <= GlobalLimit BY <1>0, <2>2, <2>3, Counted, OneMore
  <2>5. \A u, d : DayOps(u, d)' \subseteq DayOps(u, d) \cup {c} BY <2>1 DEF DayOps
  <2>6. \A u, d : ~(u = Owner[c] /\ d = today) => DayOps(u, d)' \subseteq DayOps(u, d)
    BY <2>1 DEF DayOps
  <2>7. ASSUME NEW u \in User, NEW d \in 0 .. MaxDay
        PROVE  Cardinality(DayOps(u, d)') <= DailyLimit
    <3>1. CASE u = Owner[c] /\ d = today
      BY <1>0, <2>2, <2>5, <3>1, Counted, OneMore
    <3>2. CASE ~(u = Owner[c] /\ d = today)
      BY <1>0, <1>1, <2>6, <3>2, Counted, Fewer
    <3> QED BY <3>1, <3>2
  <2>8. \A w \in Chats \ {c} : op[w].state = "reserved" => w \in ActiveOps BY DEF ActiveOps
  <2>9. \A v, w \in Chats :
           op'[v].state = "reserved" /\ Counts(op'[w].state) /\ Owner[v] = Owner[w]
             => op'[w].day <= op'[v].day
    <3> SUFFICES ASSUME NEW v \in Chats, NEW w \in Chats, op'[v].state = "reserved",
                        Counts(op'[w].state), Owner[v] = Owner[w]
                 PROVE  op'[w].day <= op'[v].day
      OBVIOUS
    <3>1. CASE v = c BY <1>0, <1>1, <2>1, <3>1
    <3>2. CASE v # c /\ w = c BY <2>1, <2>2, <2>8, <3>2
    <3>3. CASE v # c /\ w # c BY <1>1, <2>1, <3>3
    <3> QED BY <3>1, <3>2, <3>3
  <2>10. \A v \in Chats : Counts(op'[v].state) => op'[v].day <= today'
    BY <1>0, <1>1, <1>4, <2>1
  <2>11. \A v, w \in ActiveOps' : v # w => Owner[v] # Owner[w] BY <1>1, <2>2, <2>3
  <2> QED BY <2>4, <2>7, <2>9, <2>10, <2>11 DEF LedgerOK
<1>5. ASSUME NEW c \in Chats, Sends(c), today' = today PROVE LedgerOK'
  <2>1. /\ op[c].state = "reserved" /\ op'[c].state = "dispatched" /\ op'[c].day = today
        /\ \A w \in Chats \ {c} : op'[w] = op[w]
    BY <1>0, <1>5 DEF Sends, Dispatched
  <2>2. ActiveOps' = ActiveOps /\ c \in ActiveOps BY <2>1 DEF ActiveOps
  <2>3. \A u, d : DayOps(u, d)' \subseteq DayOps(u, d) \cup {c} BY <2>1 DEF DayOps
  <2>4. \A u, d : ~(u = Owner[c] /\ d = today) => DayOps(u, d)' \subseteq DayOps(u, d)
    BY <2>1 DEF DayOps
  <2>5. ASSUME NEW u \in User, NEW d \in 0 .. MaxDay
        PROVE  Cardinality(DayOps(u, d)') <= DailyLimit
    <3>1. CASE ~(u = Owner[c] /\ d = today) BY <1>0, <1>1, <2>4, <3>1, Counted, Fewer
    <3>2. CASE u = Owner[c] /\ d = today /\ op[c].day = today
      <4>1. c \in DayOps(u, d) BY <2>1, <3>2 DEF DayOps, Counts
      <4>2. DayOps(u, d)' \subseteq DayOps(u, d) BY <2>3, <4>1
      <4> QED BY <1>0, <1>1, <4>2, Counted, Fewer
    <3>3. CASE u = Owner[c] /\ d = today /\ op[c].day # today
      <4>1. op[c].day < today BY <1>0, <1>1, <2>1, <3>3 DEF Counts, OpType
      <4>2. \A w \in Chats : op[w].day \in Nat BY <1>0 DEF OpType
      <4>3. DayOps(u, d) = {}
        <5> SUFFICES ASSUME NEW w \in DayOps(u, d) PROVE FALSE OBVIOUS
        <5>1. w \in Chats /\ Owner[w] = Owner[c] /\ op[w].day = today /\ Counts(op[w].state)
          BY <3>3 DEF DayOps
        <5>2. op[w].day <= op[c].day BY <1>1, <2>1, <5>1
        <5> QED BY <1>0, <4>1, <4>2, <5>1, <5>2
      <4>4. Cardinality({}) < DailyLimit /\ IsFiniteSet({}) BY <1>0, FS_EmptySet
      <4> QED BY <1>0, <2>3, <4>3, <4>4, OneMore
    <3> QED BY <3>1, <3>2, <3>3
  <2>6. \A v \in Chats : op'[v].state = "reserved" => v # c /\ Owner[v] # Owner[c]
    <3> SUFFICES ASSUME NEW v \in Chats, op'[v].state = "reserved"
                 PROVE  v # c /\ Owner[v] # Owner[c]
      OBVIOUS
    <3>1. v # c /\ op[v].state = "reserved" BY <2>1
    <3>2. v \in ActiveOps BY <3>1 DEF ActiveOps
    <3> QED BY <1>1, <2>2, <3>1, <3>2
  <2>7. \A v, w \in Chats :
           op'[v].state = "reserved" /\ Counts(op'[w].state) /\ Owner[v] = Owner[w]
             => op'[w].day <= op'[v].day
    BY <1>1, <2>1, <2>6
  <2>8. \A v \in Chats : Counts(op'[v].state) => op'[v].day <= today'
    BY <1>0, <1>1, <1>5, <2>1
  <2>9. \A v, w \in ActiveOps' : v # w => Owner[v] # Owner[w] BY <1>1, <2>2
  <2>10. Cardinality(ActiveOps') <= GlobalLimit BY <1>1, <2>2
  <2> QED BY <2>5, <2>7, <2>8, <2>9, <2>10 DEF LedgerOK
<1> QED BY <1>2, <1>3, <1>4, <1>5 DEF OpMoves

(* The call of a provider for a chat begins, or goes on its way.           *)
LEMMA ProviderSteps ==
  ASSUME IInv, [Next]_vars, NEW c \in Chats
  PROVE  \/ provider[c].state # "running" /\ provider'[c].state = "running"
         \/ /\ provider'[c].day = provider[c].day
            /\ provider'[c].state = "idle" <=> provider[c].state = "idle"
            /\ provider'[c].state \in {"running", "failed"} =>
                 provider[c].state \in {"running", "failed"}
<1> DEFINE Begins == provider[c].state # "running" /\ provider'[c].state = "running"
           GoesOnWay ==
             /\ provider'[c].day = provider[c].day
             /\ provider'[c].state = "idle" <=> provider[c].state = "idle"
             /\ provider'[c].state \in {"running", "failed"} =>
                  provider[c].state \in {"running", "failed"}
<1> SUFFICES Begins \/ GoesOnWay OBVIOUS
<1>0. /\ provider \in [Call -> ProviderType] /\ c \in Call /\ CheckOK
      /\ \A w \in Chats : op[w].state = "reserved" => provider[w].state = "idle"
  BY CallsTyped DEF IInv, TypeOK, ProviderType, SentOK
<1>1. ASSUME provider'[c] = provider[c] PROVE GoesOnWay BY <1>1
<1>2. ASSUME NEW w \in Call, NEW s \in {"answered", "failed", "closed"},
             provider' = [provider EXCEPT ![w].state = s],
             provider[w].state \in {"running", "answered", "failed"},
             s = "failed" => provider[w].state = "running"
      PROVE  GoesOnWay
  BY <1>0, <1>2 DEF ProviderType
<1>3. ASSUME NEW w \in Call, Generate(w) PROVE GoesOnWay
  BY <1>0, <1>1, <1>3 DEF Generate, CallProvider
<1>4. ASSUME NEW w \in Call, Generated(w) PROVE GoesOnWay
  <2>1. provider[w].state \in {"answered", "failed"}
        /\ provider' = [provider EXCEPT ![w].state = "closed"]
    BY <1>4 DEF Generated
  <2> QED BY <1>2, <2>1
<1>5. ASSUME NEW w \in Call, ProviderEnds(w) PROVE GoesOnWay
  BY <1>2, <1>5 DEF ProviderEnds
<1>6. ASSUME NEW w \in Call, Settle(w) PROVE GoesOnWay
  <2>1. provider[w].state = "answered" BY <1>6 DEF Settle, Settles
  <2>2. UNCHANGED provider \/ provider' = [provider EXCEPT ![w].state = "closed"]
    BY <1>6 DEF Settle
  <2> QED BY <1>1, <1>2, <2>1, <2>2
<1>7. CASE DispatchStore
  <2>1. CASE UNCHANGED provider BY <1>1, <2>1
  <2>2. CASE provider' = CallProvider(check.call) /\ op[check.call].state = "reserved"
    <3>1. check.call \in Chats BY <1>0, <1>7 DEF DispatchStore, InCheck, CheckOK
    <3>2. CASE check.call = c BY <1>0, <2>2, <3>1, <3>2 DEF CallProvider
    <3>3. CASE check.call # c BY <1>0, <1>1, <2>2, <3>1, <3>3 DEF CallProvider
    <3> QED BY <3>2, <3>3
  <2> QED BY <1>7, <2>1, <2>2 DEF DispatchStore
<1>8. CASE Restart
  <2>1. provider'[c] = CASE provider[c].state = "running"  -> [provider[c] EXCEPT !.state = "failed"]
                         [] provider[c].state = "answered" -> [provider[c] EXCEPT !.state = "closed"]
                         [] OTHER -> provider[c]
    BY <1>0, <1>8 DEF Restart
  <2>2. provider[c] \in ProviderType BY <1>0
  <2>3. CASE provider[c].state = "running" BY <2>1, <2>2, <2>3 DEF ProviderType
  <2>4. CASE provider[c].state = "answered" BY <2>1, <2>2, <2>4 DEF ProviderType
  <2>5. CASE provider[c].state \notin {"running", "answered"} BY <1>1, <2>1, <2>5
  <2> QED BY <2>3, <2>4, <2>5
<1>9. CASE UNCHANGED provider BY <1>1, <1>9
<1>10. UNCHANGED provider \/ Restart \/ DispatchStore
       \/ \E w \in Call : Generate(w) \/ Generated(w) \/ ProviderEnds(w) \/ Settle(w)
  BY DEF Next, vars, BeginGeneration, BeginChat, Abort, Gate, Route, QuotaStep,
   Acquire, Enqueue, RefuseSlot, WaitTimesOut, Connect, ConnectFails, Lock, LockTimesOut,
   CheckConsent, Leave, DispatchChat, CancelChat, AnswerChat,
   PingFails, CheckTimesOut, ReserveStore, ReserveMirror, CancelStore, ReleaseMirror,
   ReadConsent, BeginUpdate, ApplyUpdate, UpdateTimesOut, Disable,
   NextDay, Joined, Requested, Quiet
<1> HIDE DEF Begins, GoesOnWay
<1> QED BY <1>3, <1>4, <1>5, <1>6, <1>7, <1>8, <1>9, <1>10

LEMMA SentNext ==
  ASSUME IInv, [Next]_vars
  PROVE  SentOK'
<1>0. /\ op \in [Chats -> OpType] /\ provider \in [Call -> ProviderType]
      /\ Chats \subseteq Call /\ OpMoves
      /\ \A c \in Chats : provider[c].state # "idle" =>
           op[c].state \in {"dispatched", "settled"} /\ op[c].day = provider[c].day
      /\ \A c \in Chats : provider[c].state \in {"running", "failed"} => op[c].state = "dispatched"
      /\ \A c \in Chats : call[c].pc = "idle" => provider[c].state = "idle"
      /\ check # NoCheck /\ check.what = "reserve" /\ check.stage = "store" =>
           provider[check.call].state = "idle"
  BY CallsTyped, OpSteps DEF IInv, TypeOK, OpType, ProviderType, SentOK, Working
<1>1. ASSUME NEW c \in Chats, provider[c].state # "idle"
      PROVE  /\ op'[c].state \in {"dispatched", "settled"} /\ op'[c].day = op[c].day
             /\ provider[c].state # "answered" => op'[c].state = op[c].state
  <2>1. CASE op'[c] = op[c] BY <1>0, <1>1, <2>1
  <2>2. CASE Reserves(c) /\ c = check.call BY <1>0, <1>1, <2>2 DEF Reserves
  <2>3. CASE Cancels(c) \/ Sends(c) BY <1>0, <1>1, <2>3 DEF Cancels, Sends
  <2>4. CASE Closes(c) BY <1>0, <2>4 DEF Closes, OpType
  <2>5. ASSUME NEW w \in Chats, w # c,
               Reserves(w) \/ Cancels(w) \/ Sends(w) \/ Closes(w)
        PROVE  op'[c] = op[c]
    BY <1>0, <2>5 DEF Reserves, Cancels, Sends, Closes, Dispatched
  <2> QED BY <1>0, <2>1, <2>2, <2>3, <2>4, <2>5 DEF OpMoves
<1>2. ASSUME NEW c \in Chats, provider[c].state # "running", provider'[c].state = "running"
      PROVE  /\ call[c].pc \in Sending /\ provider'[c].day = today
             /\ op'[c].state = "dispatched" /\ op'[c].day = today
             /\ check # NoCheck /\ check.call = c /\ check.what = "dispatch"
  <2>1. /\ call[c].pc \in Sending /\ op' = Dispatched(c)
        /\ provider' = [provider EXCEPT ![c] = [state |-> "running", day |-> today]]
        /\ check # NoCheck /\ check.call = c /\ check.what = "dispatch"
    BY <1>0, <1>2, CallingSteps
  <2> QED BY <1>0, <2>1 DEF Dispatched
<1>3. ASSUME NEW c \in Chats, provider'[c].state # "idle"
      PROVE  op'[c].state \in {"dispatched", "settled"} /\ op'[c].day = provider'[c].day
  BY <1>0, <1>1, <1>2, <1>3, ProviderSteps
<1>4. ASSUME NEW c \in Chats, provider'[c].state \in {"running", "failed"}
      PROVE  op'[c].state = "dispatched"
  BY <1>0, <1>1, <1>2, <1>4, ProviderSteps
<1>5. ASSUME NEW c \in Chats, call'[c].pc = "idle" PROVE provider'[c].state = "idle"
  <2>1. call[c].pc = "idle" BY <1>0, <1>5, IdleNext
  <2>2. call[c].pc \notin Sending BY <2>1 DEF Sending
  <2> QED BY <1>0, <1>2, <2>1, <2>2, ProviderSteps
<1>6. ASSUME check' # NoCheck, check'.what = "reserve", check'.stage = "store"
      PROVE  provider'[check'.call].state = "idle"
  <2>1. ASSUME check # NoCheck, check'.call = check.call, check.what = "reserve",
               check.stage = "store"
        PROVE  provider'[check'.call].state = "idle"
    <3>1. check.call \in Chats BY <2>1 DEF IInv, CheckOK
    <3>2. provider[check.call].state = "idle" BY <1>0, <2>1
    <3> QED BY <1>2, <2>1, <3>1, <3>2, ProviderSteps
  <2>2. CASE check' = check BY <1>6, <2>1, <2>2
  <2>3. CASE QuotaStep
    <3>1. check # NoCheck /\ QuotaMove BY <2>3, QuotaMoves DEF IInv
    <3> QED BY <1>6, <2>1, <3>1 DEF QuotaMove
  <2>4. ASSUME NEW c \in Chats, Starts(c) PROVE provider'[check'.call].state = "idle"
    <3>1. check = NoCheck /\ check'.call = c /\ call[c].pc = "idle" BY <1>6, <2>4 DEF Starts
    <3> QED BY <1>0, <1>2, <3>1, ProviderSteps
  <2> QED BY <1>6, <2>2, <2>3, <2>4, CheckSteps DEF CheckMoves
<1> QED BY <1>3, <1>4, <1>5, <1>6 DEF SentOK, Working

LEMMA WorkIsCountedIs ==
  ASSUME IInv
  PROVE  WorkIsCounted
<1>1. /\ \A c \in Working : op[c].state = "dispatched" /\ c \in Chats
      /\ \A c, w \in ActiveOps : c # w => Owner[c] # Owner[w]
      /\ Cardinality(ActiveOps) <= GlobalLimit /\ GlobalLimit \in Nat
  BY LimitsTyped DEF IInv, SentOK, LedgerOK, Working
<1>2. Working \subseteq ActiveOps BY <1>1 DEF ActiveOps
<1>3. Cardinality(Working) <= GlobalLimit BY <1>1, <1>2, Counted, Fewer
<1> QED BY <1>1, <1>2, <1>3 DEF WorkIsCounted

-----------------------------------------------------------------------------
(* The charges of the generations: EachDayCounted.                         *)

Others(c) == \A w \in Call \ {c} : Keeps(w)

(* What a step does to the charge of a call and to the counters.           *)
Charged1(c)  == /\ c \notin Chats /\ call[c].pc = "idle" /\ used[Owner[c]][today] < Generations
                /\ call'[c].charge = "reserved" /\ call'[c].day = today /\ call'[c].pc # "idle"
                /\ used' = [used EXCEPT ![Owner[c]][today] = @ + 1]
Released(c)  == /\ call'[c].charge = Charge(c, "released") /\ call'[c].day = call[c].day
                /\ used' = Uncharged(c)
Committed(c) == /\ call'[c].charge = Charge(c, "committed") /\ call'[c].day = call[c].day
                /\ used' = used

ChargeMoves == \/ used' = used /\ \A c \in Call : Keeps(c)
               \/ \E c \in Call : Others(c) /\ (Charged1(c) \/ Released(c) \/ Committed(c))

LEMMA BecameKeeps ==
  ASSUME NEW c \in Call, NEW pc, Became(c, pc)
  PROVE  Others(c) /\ (Keeps(c) => \A w \in Call : Keeps(w))
BY DEF Became, Others, Keeps, Charges

LEMMA GivesKeeps ==
  ASSUME NEW c \in Call, Gives(c)
  PROVE  Others(c)
<1> SUFFICES ASSUME NEW w \in Call \ {c} PROVE Keeps(w) BY DEF Others
<1>1. CASE w \in Passed[3] BY <1>1 DEF Gives
<1>2. CASE w \notin Passed[3] BY <1>2 DEF Gives, Keeps, Charges
<1> QED BY <1>1, <1>2

LEMMA FailedReleases ==
  ASSUME TypeOK, NEW c \in Call, call' = FailTo(c), used' = Uncharged(c)
  PROVE  ChargeMoves
<1>1. Became(c, AfterFailure(c)) /\ call'[c].charge = Charge(c, "released")
      /\ call'[c].day = call[c].day
  BY FailToBecomes
<1> QED BY <1>1, BecameKeeps DEF ChargeMoves, Released

LEMMA ChargeSteps ==
  ASSUME IInv, [Next]_vars
  PROVE  ChargeMoves
<1>0. TypeOK /\ QueueOK /\ CheckOK /\ call \in [Call -> CallType] /\ today \in Nat
  BY AiBoundsTyped DEF IInv, TypeOK
<1>1. ASSUME NEW c \in Call, NEW pc, Became(c, pc), Keeps(c), used' = used PROVE ChargeMoves
  BY <1>1, BecameKeeps DEF ChargeMoves
<1>2. ASSUME NEW c \in Call,
             \/ Connect(c) \/ Lock(c) \/ LockTimesOut(c) \/ CheckConsent(c)
             \/ Generate(c) \/ Generated(c) \/ DispatchChat(c)
      PROVE  ChargeMoves
  <2>1. used' = used
    BY <1>2 DEF Connect, Lock, LockTimesOut, CheckConsent, Generate, Generated, DispatchChat,
       Joined, Quiet
  <2> QED BY <1>1, <1>2, <2>1, InnerSteps
<1>3. ASSUME NEW c \in Call, Acquire(c) \/ Enqueue(c) \/ AnswerChat(c) PROVE ChargeMoves
  <2>1. \E pc \in Pc : call' = To(c, pc)
    BY <1>3 DEF Acquire, Enqueue, AnswerChat, Pc
  <2>2. used' = used BY <1>3 DEF Acquire, Enqueue, AnswerChat, Joined, Quiet
  <2> QED BY <1>0, <1>1, <2>1, <2>2, ToBecomes
<1>4. ASSUME NEW c \in Call, RefuseSlot(c) \/ WaitTimesOut(c) PROVE ChargeMoves
  BY <1>0, <1>4, FailedReleases DEF RefuseSlot, WaitTimesOut
<1>5. ASSUME NEW c \in Call, Abort(c) PROVE ChargeMoves
  <2>1. CASE call[c].pc = "queued" BY <1>0, <1>5, <2>1, FailedReleases DEF Abort
  <2>2. CASE call[c].pc # "queued"
    <3>1. used' = used BY <1>5, <2>2 DEF Abort
    <3>2. Keeps(c) /\ \A w \in Call \ {c} : call'[w] = call[w]
      BY <1>0, <1>5, <2>2, AbortSteps DEF GivesUp
    <3> QED BY <3>1, <3>2 DEF ChargeMoves, Keeps, Charges
  <2> QED BY <2>1, <2>2
<1>6. ASSUME NEW c \in Call, ConnectFails(c) PROVE ChargeMoves
  <2>1. Gives(c) /\ call'[c] = FailTo(c)[c] /\ used' = Uncharged(c)
    BY <1>0, <1>6, ConnectFailsGives DEF ConnectFails
  <2> QED BY <1>0, <2>1, GivesKeeps, Failed DEF ChargeMoves, Released
<1>7. ASSUME NEW c \in Call, Leave(c) PROVE ChargeMoves
  <2>1. Gives(c) /\ call'[c] = Left(c) /\ Others(c) BY <1>0, <1>7, LeaveGives, GivesKeeps
  <2>2. used' = IF call[c].next = "failed" THEN Uncharged(c) ELSE used BY <1>7 DEF Leave
  <2>3. Left(c).day = call[c].day
        /\ Left(c).charge = CASE call[c].next = "failed" -> Charge(c, "released")
                              [] call[c].next = "done"   -> Charge(c, "committed")
                              [] OTHER -> call[c].charge
    BY <1>0, LeftIs
  <2>4. CASE call[c].next = "failed" BY <2>1, <2>2, <2>3, <2>4 DEF ChargeMoves, Released
  <2>5. CASE call[c].next = "done" BY <2>1, <2>2, <2>3, <2>5 DEF ChargeMoves, Committed
  <2>6. CASE call[c].next \notin {"failed", "done"}
    <3>1. Keeps(c) BY <2>1, <2>3, <2>6 DEF Keeps, Charges
    <3> QED BY <2>1, <2>2, <2>6, <3>1 DEF ChargeMoves, Others
  <2> QED BY <2>4, <2>5, <2>6
<1>8. ASSUME NEW c \in Call, BeginGeneration(c) PROVE ChargeMoves
  <2>1. CASE call' = To(c, "done") /\ used' = used BY <1>0, <1>1, <2>1, ToBecomes DEF Pc
  <2>2. CASE /\ used[Owner[c]][today] < Generations
             /\ used' = [used EXCEPT ![Owner[c]][today] = @ + 1]
             /\ call' = [call EXCEPT ![c].pc = "acquire", ![c].charge = "reserved",
                                     ![c].day = today]
    <3>1. call'[c].pc = "acquire" /\ call'[c].charge = "reserved" /\ call'[c].day = today
          /\ \A w \in Call \ {c} : call'[w] = call[w]
      BY <1>0, <2>2 DEF CallType
    <3>2. c \notin Chats /\ call[c].pc = "idle" BY <1>8 DEF BeginGeneration
    <3>3. Others(c) BY <3>1 DEF Others, Keeps, Charges
    <3> QED BY <2>2, <3>1, <3>2, <3>3 DEF ChargeMoves, Charged1
  <2> QED BY <1>8, <2>1, <2>2 DEF BeginGeneration
<1>9. ASSUME NEW c \in Call, BeginChat(c) \/ CancelChat(c) PROVE ChargeMoves
  <2>1. used' = used BY <1>9 DEF BeginChat, CancelChat, Quiet
  <2>2. Keeps(c) BY <1>0, <1>9, BeginChatGuards DEF BeginChat, CancelChat, Pc
  <2> QED BY <1>1, <1>9, <2>1, <2>2, OuterSteps
<1>10. CASE QuotaStep
  <2>1. used' = used
    BY <1>10 DEF QuotaStep, PingFails, CheckTimesOut, ReserveStore, ReserveMirror, CancelStore,
       ReleaseMirror, DispatchStore, Quiet
  <2>2. check.call \in Call /\ QuotaMove BY <1>0, <1>10, QuotaMoves, CallsTyped
  <2>3. CASE call' = call BY <2>1, <2>3 DEF ChargeMoves, Keeps, Charges
  <2> QED BY <1>1, <2>1, <2>2, <2>3 DEF QuotaMove
<1>11. CASE Restart BY <1>0, <1>11, RestartClears DEF ChargeMoves, Restart
<1>12. CASE UNCHANGED <<call, used>> BY <1>12 DEF ChargeMoves, Keeps, Charges
<1>13. UNCHANGED <<call, used>> \/ Restart \/ QuotaStep
       \/ \E c \in Call : BeginGeneration(c) \/ BeginChat(c) \/ Abort(c) \/ Gate(c) \/ Route(c)
  BY DEF Next, vars, ProviderEnds, Settle, ReadConsent, BeginUpdate, ApplyUpdate,
     UpdateTimesOut, Disable, NextDay, Requested, Quiet
<1> QED BY <1>2, <1>3, <1>4, <1>5, <1>6, <1>7, <1>8, <1>9, <1>10, <1>11, <1>12, <1>13
        DEF Gate, Route

ChargedStates == {"reserved", "committed"}

LEMMA ChargedFinite ==
  \A u, d : IsFiniteSet(Charged(u, d)) /\ Cardinality(Charged(u, d)) \in Nat
<1>1. \A u, d : Charged(u, d) \subseteq Call BY DEF Charged
<1> QED BY <1>1, CallsTyped, FS_Subset, FS_CardinalityType

(* Charged after the step.                                                 *)
NewCharged(u, d) == {c \in Call \ Chats : /\ Owner[c] = u /\ call'[c].day = d
                                          /\ call'[c].charge \in {"reserved", "committed"}}

(* A charge is of the user and the day of its call.                        *)
LEMMA ChargedNext ==
  ASSUME NEW c \in Call, Others(c), NEW u, NEW d
  PROVE  /\ c \in NewCharged(u, d) <=> /\ c \notin Chats /\ Owner[c] = u /\ call'[c].day = d
                                     /\ call'[c].charge \in ChargedStates
         /\ NewCharged(u, d) \ {c} = Charged(u, d) \ {c}
<1>1. \A w \in Call \ {c} : call'[w].charge = call[w].charge /\ call'[w].day = call[w].day
  BY DEF Others, Keeps, Charges
<1>2. NewCharged(u, d) \ {c} = Charged(u, d) \ {c} BY <1>1 DEF Charged, NewCharged
<1> QED BY <1>2 DEF NewCharged, ChargedStates

UsedTyped == used \in [User -> [0 .. MaxDay -> Nat]]

LEMMA ChargesNext ==
  ASSUME IInv, ChargeMoves, OpMoves, \A c \in Call : call'[c].pc = "idle" => call[c].pc = "idle"
  PROVE  ChargesOK' /\ UsedTyped'
<1>0. /\ UsedTyped /\ today \in 0 .. MaxDay /\ today' \in 0 .. MaxDay /\ today' >= today
      /\ call \in [Call -> CallType] /\ Owner \in [Call -> User]
      /\ Generations \in Nat /\ MaxDay \in Nat
  <2>1. today' \in 0 .. MaxDay BY OpTyped
  <2>2. today \in 0 .. MaxDay /\ MaxDay \in Nat BY AiBoundsTyped DEF IInv, TypeOK
  <2>3. today' >= today BY <2>2 DEF OpMoves
  <2> QED BY <2>1, <2>2, <2>3, CallsTyped, LimitsTyped DEF IInv, TypeOK, UsedTyped
<1>1. /\ \A c \in Call : call[c].pc = "idle" \/ c \in Chats => call[c].charge = "none"
      /\ \A c \in Call : call[c].day <= today /\ call[c].day \in Nat
      /\ \A u \in User, d \in 0 .. MaxDay :
           used[u][d] = Cardinality(Charged(u, d)) /\ used[u][d] <= Generations
  BY <1>0 DEF IInv, ChargesOK, CallType
<1>2. CASE used' = used /\ \A c \in Call : Keeps(c)
  <2>1. \A c \in Call : call'[c].charge = call[c].charge /\ call'[c].day = call[c].day
    BY <1>2 DEF Keeps, Charges
  <2>2. \A u, d : NewCharged(u, d) = Charged(u, d) BY <2>1 DEF Charged, NewCharged
  <2>3. UsedTyped' BY <1>0, <1>2 DEF UsedTyped
  <2>4. \A c \in Call : call'[c].day <= today' BY <1>0, <1>1, <2>1
  <2>5. \A c \in Call : call'[c].pc = "idle" \/ c \in Chats => call'[c].charge = "none"
    BY <1>1, <2>1
  <2>6. \A u \in User, d \in 0 .. MaxDay :
           used'[u][d] = Cardinality(NewCharged(u, d)) /\ used'[u][d] <= Generations
    BY <1>1, <1>2, <2>2
  <2> QED BY <2>3, <2>4, <2>5, <2>6 DEF ChargesOK, Charged, NewCharged
<1>3. ASSUME NEW c \in Call, Others(c), Charged1(c) \/ Released(c) \/ Committed(c)
      PROVE  ChargesOK' /\ UsedTyped'
  <2>1. /\ \A w \in Call \ {c} : call'[w].charge = call[w].charge /\ call'[w].day = call[w].day
        /\ c \in Chats => call'[c].charge = "none"
        /\ call'[c].pc = "idle" => call'[c].charge = "none"
        /\ call'[c].day = call[c].day \/ call'[c].day = today
    BY <1>1, <1>3 DEF Others, Keeps, Charges, Charged1, Released, Committed, Charge
  <2>2. \A w \in Call : call'[w].pc = "idle" \/ w \in Chats => call'[w].charge = "none"
    BY <1>1, <2>1
  <2>3. \A w \in Call : call'[w].day <= today' BY <1>0, <1>1, <2>1
  <2> DEFINE o == Owner[c]
  <2>4. o \in User BY <1>0
  <2>5. SUFFICES UsedTyped' /\ \A u \in User, d \in 0 .. MaxDay :
                   used'[u][d] = Cardinality(NewCharged(u, d)) /\ used'[u][d] <= Generations
    BY <2>2, <2>3 DEF ChargesOK, Charged, NewCharged
  <2>6. CASE Charged1(c)
    <3>1. /\ used' = [used EXCEPT ![o][today] = used[o][today] + 1] /\ c \notin Chats
          /\ used[o][today] < Generations /\ call[c].charge = "none"
          /\ call'[c].charge = "reserved" /\ call'[c].day = today
      BY <1>1, <2>6 DEF Charged1
    <3>2. \A u, d : c \notin Charged(u, d) BY <3>1 DEF Charged
    <3>3. NewCharged(o, today) = Charged(o, today) \cup {c}
      BY <1>3, <3>1, <3>2, ChargedNext DEF ChargedStates
    <3>4. ASSUME NEW u, NEW d, ~(u = o /\ d = today)
          PROVE  NewCharged(u, d) = Charged(u, d)
      <4>1. c \notin NewCharged(u, d) /\ NewCharged(u, d) \ {c} = Charged(u, d) \ {c}
        BY <1>3, <3>1, <3>4, ChargedNext
      <4> QED BY <3>2, <4>1
    <3>5. Cardinality(Charged(o, today) \cup {c}) = Cardinality(Charged(o, today)) + 1
      BY <3>2, ChargedFinite, FS_AddElement
    <3>6. used[o][today] \in Nat BY <1>0, <2>4 DEF UsedTyped
    <3>7. UsedTyped' BY <1>0, <2>4, <3>1, <3>6 DEF UsedTyped
    <3>8. \A u \in User, d \in 0 .. MaxDay :
             used'[u][d] = IF u = o /\ d = today THEN used[o][today] + 1 ELSE used[u][d]
      BY <1>0, <2>4, <3>1 DEF UsedTyped
    <3> HIDE DEF o
    <3> SUFFICES ASSUME NEW u \in User, NEW d \in 0 .. MaxDay
                 PROVE  used'[u][d] = Cardinality(NewCharged(u, d)) /\ used'[u][d] <= Generations
      BY <3>7
    <3>9. CASE u = o /\ d = today
      <4>1. used[o][today] = Cardinality(Charged(o, today)) BY <1>0, <1>1, <2>4
      <4>2. used'[o][today] = used[o][today] + 1 BY <1>0, <2>4, <3>8
      <4>3. used'[o][today] = Cardinality(NewCharged(o, today)) BY <3>3, <3>5, <4>1, <4>2
      <4>4. used'[o][today] <= Generations BY <1>0, <3>1, <3>6, <4>2
      <4> QED BY <3>9, <4>3, <4>4
    <3>10. CASE ~(u = o /\ d = today) BY <1>1, <3>4, <3>8, <3>10
    <3> QED BY <3>9, <3>10
  <2>7. ASSUME used' = used, \A u, d : NewCharged(u, d) = Charged(u, d)
        PROVE  UsedTyped' /\ \A u \in User, d \in 0 .. MaxDay :
                 used'[u][d] = Cardinality(NewCharged(u, d)) /\ used'[u][d] <= Generations
    BY <1>0, <1>1, <2>7 DEF UsedTyped
  <2>8. CASE Committed(c)
    <3>1. /\ call'[c].day = call[c].day /\ used' = used
          /\ call'[c].charge \in ChargedStates <=> call[c].charge \in ChargedStates
      BY <2>8 DEF Committed, Charge, ChargedStates
    <3>2. \A u, d : NewCharged(u, d) = Charged(u, d)
      BY <1>3, <3>1, ChargedNext DEF Charged, ChargedStates
    <3> QED BY <2>7, <3>1, <3>2
  <2>9. CASE Released(c) /\ call[c].charge # "reserved"
    <3>1. /\ call'[c].day = call[c].day /\ used' = used
          /\ call'[c].charge = call[c].charge
      BY <2>9 DEF Released, Charge, Uncharged
    <3>2. \A u, d : NewCharged(u, d) = Charged(u, d)
      BY <1>3, <3>1, ChargedNext DEF Charged, ChargedStates
    <3> QED BY <2>7, <3>1, <3>2
  <2>10. CASE Released(c) /\ call[c].charge = "reserved"
    <3> DEFINE e == call[c].day
               x == IF used[o][e] > 0 THEN used[o][e] - 1 ELSE 0
    <3>1. /\ call'[c].day = e /\ c \notin Chats /\ call'[c].charge = "released"
          /\ used' = [used EXCEPT ![o][e] = x]
      BY <1>1, <2>10 DEF Released, Charge, Uncharged
    <3>2. e \in 0 .. MaxDay BY <1>0, <1>1
    <3>3. c \in Charged(o, e) BY <2>10, <3>1 DEF Charged
    <3>4. NewCharged(o, e) = Charged(o, e) \ {c}
      BY <1>3, <3>1, ChargedNext DEF ChargedStates
    <3>5. ASSUME NEW u, NEW d, ~(u = o /\ d = e)
          PROVE  NewCharged(u, d) = Charged(u, d)
      <4>1. c \notin Charged(u, d) BY <3>5 DEF Charged
      <4>2. c \notin NewCharged(u, d) /\ NewCharged(u, d) \ {c} = Charged(u, d) \ {c}
        BY <1>3, <3>1, <3>5, ChargedNext
      <4>3. Charged(u, d) \ {c} = Charged(u, d) BY <4>1
      <4>4. NewCharged(u, d) \ {c} = NewCharged(u, d) BY <4>2
      <4> QED BY <4>2, <4>3, <4>4
    <3>6. Cardinality(Charged(o, e) \ {c}) = Cardinality(Charged(o, e)) - 1
          /\ Cardinality(Charged(o, e)) \in Nat
          /\ Cardinality(Charged(o, e) \ {c}) \in Nat
      BY <3>3, <3>4, ChargedFinite, FS_RemoveElement, FS_CardinalityType
    <3>7. used[o][e] = Cardinality(Charged(o, e)) /\ used[o][e] <= Generations
      BY <1>1, <2>4, <3>2
    <3>8. x = Cardinality(Charged(o, e) \ {c}) /\ x <= Generations /\ x \in Nat
      BY <1>0, <3>6, <3>7
    <3> HIDE DEF x, e, o
    <3>9. UsedTyped' BY <1>0, <2>4, <3>1, <3>2, <3>8 DEF UsedTyped
    <3>10. \A u \in User, d \in 0 .. MaxDay :
             used'[u][d] = IF u = o /\ d = e THEN x ELSE used[u][d]
      BY <1>0, <2>4, <3>1, <3>2 DEF UsedTyped
    <3> SUFFICES ASSUME NEW u \in User, NEW d \in 0 .. MaxDay
                 PROVE  used'[u][d] = Cardinality(NewCharged(u, d)) /\ used'[u][d] <= Generations
      BY <3>9
    <3>11. CASE u = o /\ d = e BY <3>4, <3>8, <3>10, <3>11
    <3>12. CASE ~(u = o /\ d = e) BY <1>1, <3>5, <3>10, <3>12
    <3> QED BY <3>11, <3>12
  <2> QED BY <1>3, <2>6, <2>8, <2>9, <2>10
<1> QED BY <1>2, <1>3 DEF ChargeMoves

LEMMA EachDayCountedIs ==
  ASSUME IInv
  PROVE  EachDayCounted
<1> SUFFICES ASSUME NEW u \in User, NEW d \in 0 .. MaxDay
             PROVE  /\ Cardinality({c \in Chats : /\ Owner[c] = u /\ provider[c].state # "idle"
                                                  /\ provider[c].day = d}) <= DailyLimit
                    /\ used[u][d] = Cardinality(Charged(u, d)) /\ used[u][d] <= Generations
  BY DEF EachDayCounted, Charged
<1>1. {c \in Chats : /\ Owner[c] = u /\ provider[c].state # "idle"
                     /\ provider[c].day = d} \subseteq DayOps(u, d)
  BY DEF IInv, SentOK, DayOps, Counts
<1>2. Cardinality(DayOps(u, d)) <= DailyLimit /\ DailyLimit \in Nat
  BY LimitsTyped DEF IInv, LedgerOK
<1> QED BY <1>1, <1>2, Counted, Fewer DEF IInv, ChargesOK

-----------------------------------------------------------------------------
(* All of it.                                                              *)

LEMMA ProviderTyped ==
  ASSUME IInv, [Next]_vars
  PROVE  provider' \in [Call -> ProviderType]
<1>0. provider \in [Call -> ProviderType] /\ CheckOK /\ today \in Nat
  BY AiBoundsTyped DEF IInv, TypeOK, ProviderType
<1>1. ASSUME NEW w \in Call, provider' = CallProvider(w)
      PROVE  provider' \in [Call -> ProviderType]
  BY <1>0, <1>1 DEF CallProvider, ProviderType
<1>2. ASSUME NEW w \in Call, NEW s \in {"answered", "failed", "closed"},
             provider' = [provider EXCEPT ![w].state = s]
      PROVE  provider' \in [Call -> ProviderType]
  BY <1>0, <1>2 DEF ProviderType
<1>3. CASE UNCHANGED provider BY <1>0, <1>3
<1>4. ASSUME NEW w \in Call, Generate(w) PROVE provider' \in [Call -> ProviderType]
  BY <1>1, <1>4 DEF Generate
<1>5. ASSUME NEW w \in Call, Generated(w) \/ ProviderEnds(w) \/ Settle(w)
      PROVE  provider' \in [Call -> ProviderType]
  BY <1>2, <1>3, <1>5 DEF Generated, ProviderEnds, Settle
<1>6. CASE DispatchStore
  <2>1. check.call \in Call BY <1>0, <1>6, CallsTyped DEF DispatchStore, InCheck, CheckOK
  <2> QED BY <1>1, <1>3, <1>6, <2>1 DEF DispatchStore
<1>7. CASE Restart
  <2>1. ASSUME NEW c \in Call
        PROVE  /\ [provider[c] EXCEPT !.state = "failed"] \in ProviderType
               /\ [provider[c] EXCEPT !.state = "closed"] \in ProviderType
               /\ provider[c] \in ProviderType
    BY <1>0 DEF ProviderType
  <2> QED BY <1>7, <2>1 DEF Restart
<1>8. UNCHANGED provider \/ Restart \/ DispatchStore
      \/ \E w \in Call : Generate(w) \/ Generated(w) \/ ProviderEnds(w) \/ Settle(w)
  BY DEF Next, vars, BeginGeneration, BeginChat, Abort, Gate, Route, QuotaStep,
   Acquire, Enqueue, RefuseSlot, WaitTimesOut, Connect, ConnectFails, Lock, LockTimesOut,
   CheckConsent, Leave, DispatchChat, CancelChat, AnswerChat,
   PingFails, CheckTimesOut, ReserveStore, ReserveMirror, CancelStore, ReleaseMirror,
   ReadConsent, BeginUpdate, ApplyUpdate, UpdateTimesOut, Disable,
   NextDay, Joined, Requested, Quiet
<1> QED BY <1>3, <1>4, <1>5, <1>6, <1>7, <1>8

LEMMA MirrorTyped ==
  ASSUME IInv, [Next]_vars
  PROVE  mirror' \subseteq Chats /\ enabled' \in BOOLEAN /\ faults' \in Nat
<1>0. mirror \subseteq Chats /\ enabled \in BOOLEAN /\ faults \in Nat /\ CheckOK
  BY DEF IInv, TypeOK
<1>1. faults' = faults \/ faults' = faults + 1
  BY DEF Next, vars, quota, world, BeginGeneration, BeginChat, Abort, Gate, Route, QuotaStep,
   Acquire, Enqueue, RefuseSlot, WaitTimesOut, Connect, ConnectFails, Lock, LockTimesOut,
   CheckConsent, Leave, Generate, Generated, DispatchChat, CancelChat, AnswerChat,
   PingFails, CheckTimesOut, ReserveStore, ReserveMirror, CancelStore, ReleaseMirror,
   DispatchStore, ReadConsent, BeginUpdate, ApplyUpdate, UpdateTimesOut, ProviderEnds,
   Settle, Disable, NextDay, Restart, Joined, Requested, Quiet, Fails
<1>2. UNCHANGED enabled \/ enabled' = FALSE
  <2>1. CASE ReserveStore BY <2>1 DEF ReserveStore
  <2>2. CASE DispatchStore BY <2>2 DEF DispatchStore
  <2>3. CASE Disable BY <2>3 DEF Disable
  <2>4. CASE ~(ReserveStore \/ DispatchStore \/ Disable)
    BY <2>4 DEF Next, vars, quota, BeginGeneration, BeginChat, Abort, Gate, Route, QuotaStep,
     Acquire, Enqueue, RefuseSlot, WaitTimesOut, Connect, ConnectFails, Lock, LockTimesOut,
     CheckConsent, Leave, Generate, Generated, DispatchChat, CancelChat, AnswerChat,
     PingFails, CheckTimesOut, ReserveMirror, CancelStore, ReleaseMirror,
     ReadConsent, BeginUpdate, ApplyUpdate, UpdateTimesOut, ProviderEnds,
     Settle, NextDay, Restart, Joined, Requested, Quiet
  <2> QED BY <2>1, <2>2, <2>3, <2>4
<1>3. mirror' \subseteq Chats
  <2>1. CASE ReserveMirror
    <3>1. check.call \in Chats BY <1>0, <2>1 DEF ReserveMirror, InCheck, CheckOK
    <3>2. mirror' \subseteq mirror \cup {check.call} BY <2>1 DEF ReserveMirror
    <3> QED BY <1>0, <3>1, <3>2
  <2>2. CASE ~ReserveMirror
    <3>1. mirror' = mirror \/ mirror' = {} \/ mirror' = mirror \ {check.call}
      BY <2>2 DEF Next, vars, quota, BeginGeneration, BeginChat, Abort, Gate, Route, QuotaStep,
       Acquire, Enqueue, RefuseSlot, WaitTimesOut, Connect, ConnectFails, Lock, LockTimesOut,
       CheckConsent, Leave, Generate, Generated, DispatchChat, CancelChat, AnswerChat,
       PingFails, CheckTimesOut, ReserveStore, CancelStore, ReleaseMirror, DispatchStore,
       ReadConsent, BeginUpdate, ApplyUpdate, UpdateTimesOut, ProviderEnds,
       Settle, Disable, NextDay, Restart, Joined, Requested, Quiet
    <3> QED BY <1>0, <3>1
  <2> QED BY <2>1, <2>2
<1>4. enabled' \in BOOLEAN BY <1>0, <1>2
<1>5. faults' \in Nat BY <1>0, <1>1
<1> QED BY ONLY <1>3, <1>4, <1>5

LEMMA InitIInv ==
  ASSUME Init
  PROVE  IInv
<1>1. /\ consent \in [User -> Consent] /\ seen \in [Device -> Consent]
      /\ editing \in [Device -> Update] /\ RevisionsOK
  <2> DEFINE first == [enabled |-> TRUE, features |-> {"home", "chat"}, revision |-> 1]
  <2>1. first \in Consent /\ first.revision = 1 BY DEF Consent, Feature
  <2>2. consent = [u \in User |-> first] /\ seen = [d \in Device |-> consent[DeviceUser[d]]]
        /\ editing = [d \in Device |-> NoUpdate] /\ DeviceUser \in [Device -> User]
    BY CallsTyped DEF Init
  <2> HIDE DEF first
  <2> QED BY <2>1, <2>2, NoUpdateIs DEF RevisionsOK
<1>2. /\ call \in [Call -> CallType]
      /\ \A c \in Call : call[c].pc = "idle" /\ call[c].charge = "none" /\ call[c].day = 0
  BY DEF Init, CallType, Pc
<1>3. /\ active = 0 /\ queue = <<>> /\ check = NoCheck /\ mirror = {} /\ enabled = TRUE
      /\ today = 0 /\ faults = 0
  BY DEF Init
<1>4. /\ op \in [Chats -> OpType] /\ \A c \in Chats : op[c].state = "none"
      /\ provider \in [Call -> ProviderType] /\ \A c \in Call : provider[c].state = "idle"
  BY DEF Init, OpType, OpState, ProviderType
<1>5. used \in [User -> [0 .. MaxDay -> Nat]]
      /\ \A u \in User, d \in 0 .. MaxDay : used[u][d] = 0
  BY DEF Init
<1>6. 0 \in 0 .. MaxDay /\ Generations \in Nat /\ GlobalLimit \in Nat /\ DailyLimit \in Nat
      /\ Capacity \in Nat \ {0}
  BY AiBoundsTyped, LimitsTyped, GateTyped
<1>7. TypeOK BY <1>1, <1>2, <1>3, <1>4, <1>5, <1>6 DEF TypeOK, OpType, ProviderType
<1>8. QueueOK BY <1>2, <1>3 DEF QueueOK
<1>9. SlotsOK
  <2>1. Holders = {} BY <1>2, HoldersAre DEF Inside
  <2> QED BY <1>3, <1>6, <2>1, FS_EmptySet DEF SlotsOK
<1>10. CheckOK BY <1>2, <1>3 DEF CheckOK
<1>11. ConsentHeld BY <1>2 DEF ConsentHeld
<1>12. LedgerOK
  <2>1. ActiveOps = {} /\ \A u, d : DayOps(u, d) = {} BY <1>4 DEF ActiveOps, DayOps, Counts
  <2>2. Cardinality(ActiveOps) <= GlobalLimit
        /\ \A u, d : Cardinality(DayOps(u, d)) <= DailyLimit
    BY <1>6, <2>1, FS_EmptySet
  <2>3. \A c \in Chats : ~Counts(op[c].state) /\ op[c].state # "reserved" BY <1>4 DEF Counts
  <2>4. \A c, w \in ActiveOps : c # w => Owner[c] # Owner[w] BY <2>1
  <2> QED BY <2>2, <2>3, <2>4 DEF LedgerOK
<1>13. SentOK BY <1>3, <1>4, CallsTyped DEF SentOK, Working
<1>14. ChargesOK
  <2>1. \A u, d : Charged(u, d) = {} BY <1>2 DEF Charged
  <2>2. \A u, d : Cardinality(Charged(u, d)) = 0 BY <2>1, FS_EmptySet
  <2> QED BY <1>2, <1>3, <1>5, <1>6, <2>2 DEF ChargesOK
<1> QED BY <1>1, <1>7, <1>8, <1>9, <1>10, <1>11, <1>12, <1>13, <1>14 DEF IInv

LEMMA NextIInv ==
  ASSUME IInv, [Next]_vars
  PROVE  IInv'
<1>1. GateMoves /\ call' \in [Call -> CallType] BY GateSteps
<1>2. QueueOK' /\ queue' \in Seq(Call) BY <1>1, QueueNext DEF IInv
<1>3. SlotsOK' /\ active' \in Nat BY <1>1, SlotsNext DEF IInv
<1>4. CheckOK' /\ check' \in Check \cup {NoCheck} BY CheckNext
<1>5. ConsentsTyped' /\ RevisionsOK' /\ ConsentHeld' BY ConsentsNext, ConsentHeldNext
<1>6. OpMoves BY OpSteps
<1>7. op' \in [Chats -> OpType] /\ today' \in 0 .. MaxDay /\ LedgerOK'
  BY <1>6, OpTyped, LedgerNext
<1>8. ChargesOK' /\ UsedTyped' BY <1>6, ChargeSteps, ChargesNext, IdleNext
<1>9. SentOK' /\ provider' \in [Call -> ProviderType] BY SentNext, ProviderTyped
<1>10. mirror' \subseteq Chats /\ enabled' \in BOOLEAN /\ faults' \in Nat BY MirrorTyped
<1>11. TypeOK'
  BY <1>1, <1>2, <1>3, <1>4, <1>5, <1>7, <1>8, <1>9, <1>10
     DEF TypeOK, ConsentsTyped, UsedTyped, OpType, ProviderType
<1> QED BY <1>2, <1>3, <1>4, <1>5, <1>7, <1>8, <1>9, <1>11 DEF IInv

LEMMA Invariance == Spec => []IInv
<1>1. Init => IInv BY InitIInv
<1>2. IInv /\ [Next]_vars => IInv' BY NextIInv
<1> QED BY <1>1, <1>2, PTL DEF Spec

(* The state keeps its type.                                               *)
THEOREM TypeCorrect == Spec => []TypeOK
<1>1. IInv => TypeOK BY DEF IInv
<1> QED BY <1>1, Invariance, PTL

(* The gate neither loses nor doubles a slot (dispatchCapacity.ts): those  *)
(* it counts are those of the calls that hold one, never more than its     *)
(* capacity, and nobody waits while one is free.                           *)
THEOREM NoSlotLostHolds == Spec => []NoSlotLost
<1>1. IInv => NoSlotLost
  <2> SUFFICES ASSUME IInv PROVE NoSlotLost OBVIOUS
  <2>1. \A i \in DOMAIN queue : queue[i] \in Call BY DEF IInv, TypeOK
  <2> QED BY <2>1 DEF IInv, SlotsOK, QueueOK, Holders, NoSlotLost
<1> QED BY <1>1, Invariance, PTL

(* The provider works only on chats the ledger counts (store.dispatch and  *)
(* store.settle of chefChat): at most one of a user, and no more of them   *)
(* than allowed at a time, also when the route has given up.               *)
THEOREM WorkIsCountedHolds == Spec => []WorkIsCounted
<1>1. IInv => WorkIsCounted BY WorkIsCountedIs
<1> QED BY <1>1, Invariance, PTL

(* No user has more chats sent in a day than the limit, and the counter of *)
(* the generations of a day is that of those charged and not given back.   *)
THEOREM EachDayCountedHolds == Spec => []EachDayCounted
<1>1. IInv => EachDayCounted BY EachDayCountedIs
<1> QED BY <1>1, Invariance, PTL

(* Nothing is sent to a provider but under the consent in force: an update *)
(* that was confirmed is never overtaken by a call that had read the       *)
(* consent before (withDatabaseAiConsentDispatchLock).                     *)
THEOREM SentUnderConsentHolds == Spec => SentUnderConsent
<1>1. IInv /\ [Next]_vars =>
        [\A c \in Call :
           provider[c].state # "running" /\ provider'[c].state = "running" =>
             /\ consent[Owner[c]].enabled
             /\ FeatureOf(c) \in consent[Owner[c]].features]_vars
  BY SentUnderConsentNext
<1> QED BY <1>1, Invariance, PTL DEF Spec, SentUnderConsent

(* A consent is given only by a device that has read the consent it adds   *)
(* to (assertCurrentConsentRevision).                                      *)
THEOREM GivenKnowinglyHolds == Spec => GivenKnowingly
<1>1. IInv /\ [Next]_vars =>
        [\A u \in User :
           ~(consent'[u].features \subseteq consent[u].features) =>
             \E d \in Device : DeviceUser[d] = u /\ editing[d] # editing'[d]
                               /\ seen[d] = consent[u]]_vars
  BY GivenKnowinglyNext
<1> QED BY <1>1, Invariance, PTL DEF Spec, GivenKnowingly
=============================================================================
