--------------------------- MODULE MealPlanProofs ---------------------------
(***************************************************************************)
(* Theorems about MealPlan, for any number of users, houses, commands and  *)
(* ticks of the clock, and any tolerance of the clocks of the devices.     *)
(***************************************************************************)
EXTENDS MealPlan, TLAPS

-----------------------------------------------------------------------------
(* compareManualPlanOrders is a strict total order.                        *)
LEMMA LaterIsStrict ==
  ASSUME NEW a \in Order, NEW b \in Order
  PROVE  ~Later(a, a) /\ (Later(a, b) => ~Later(b, a))
BY BoundsTyped DEF Order, Later

LEMMA LaterIsTransitive ==
  ASSUME NEW a \in Order, NEW b \in Order, NEW c \in Order,
         ~Later(a, b), Later(c, b) \/ ~Later(b, c)
  PROVE  ~Later(a, c)
BY BoundsTyped DEF Order, Later

LEMMA LaterThanBeaten ==
  ASSUME NEW a \in Order, NEW b \in Order, NEW c \in Order, ~Later(a, b), Later(c, b)
  PROVE  Later(c, a)
BY BoundsTyped DEF Order, Later

(* Every choice by hand is later than none.                                *)
LEMMA NoneIsFirst ==
  /\ NoOrder \in Order
  /\ \A a \in Order : ~Later(NoOrder, a)
  /\ \A a \in Order : a[1] > 0 => Later(a, NoOrder)
BY BoundsTyped DEF Order, NoOrder, Later

-----------------------------------------------------------------------------
(* Types.                                                                  *)
LEMMA SentTyped ==
  ASSUME TypeOK, NEW op \in DOMAIN sent
  PROVE  op \in Op /\ sent[op] \in Command
BY BoundsTyped DEF TypeOK, Op

LEMMA MakeAppends ==
  ASSUME TypeOK, NEW c \in Command, Make(c)
  PROVE  /\ sent' \in Seq(Command) /\ Len(sent') <= MaxOps
         /\ DOMAIN sent' = DOMAIN sent \cup {Len(sent) + 1}
         /\ Len(sent) + 1 \notin DOMAIN sent /\ Len(sent) + 1 \in Op
         /\ sent'[Len(sent) + 1] = c
         /\ \A op \in DOMAIN sent : sent'[op] = sent[op]
<1>1. /\ sent \in Seq(Command) /\ sent' = Append(sent, c)
      /\ Len(sent) \in Nat /\ Len(sent) < MaxOps /\ DOMAIN sent = 1 .. Len(sent)
  BY BoundsTyped DEF TypeOK, Make
<1>2. /\ sent' \in Seq(Command) /\ Len(sent') = Len(sent) + 1
      /\ \A op \in 1 .. Len(sent) : sent'[op] = sent[op]
      /\ sent'[Len(sent) + 1] = c
  BY <1>1
<1>3. DOMAIN sent' = 1 .. (Len(sent) + 1)
  BY <1>1, <1>2
<1> QED
  BY <1>1, <1>2, <1>3, BoundsTyped DEF Op

LEMMA ChoiceTyped ==
  ASSUME TypeOK, NEW u \in User, Choose(u) \/ Heal(u)
  PROVE  \E c \in Command : /\ Make(c) /\ c.owner = u
                            /\ c.heals # 0 => c.scope \in House
<1>1. CASE Choose(u)
  <2> DEFINE s == IF member[u] = NoHouse THEN u ELSE member[u]
  <2>1. s \in Scope /\ plan[s].rev \in Nat
    BY DEF TypeOK, Scope, Row
  <2>2. PICK action \in Action, at \in now .. MaxTime :
           Make([owner |-> u, scope |-> s, action |-> action, at |-> at, heals |-> 0,
                 base |-> IF action = "explicit_regenerate" THEN plan[s].rev ELSE 0])
    BY <1>1 DEF Choose
  <2>3. at \in 1 .. MaxTime
    BY BoundsTyped DEF TypeOK
  <2> QED
    BY <2>1, <2>2, <2>3 DEF Command
<1>2. CASE Heal(u)
  <2>1. PICK k \in conflicts, at \in 1 .. MaxTime :
           Make([owner |-> u, scope |-> k.house, action |-> "manual_set", at |-> at,
                 base |-> k.target, heals |-> k.source.rev])
    BY <1>2 DEF Heal
  <2>2. k.house \in House /\ k.target \in Nat /\ k.source.rev \in Nat
    BY DEF TypeOK, Conflict, Row
  <2> QED
    BY <2>1, <2>2 DEF Command, Scope, Action, Manual
<1> QED
  BY <1>1, <1>2

NormalizedAt(at, t) == IF at > t + Skew THEN t ELSE at

LEMMA OrderTyped ==
  ASSUME TypeOK, NEW op \in DOMAIN sent
  PROVE  /\ OrderOf(op) = <<NormalizedAt(sent[op].at, now), now, op>>
         /\ OrderOf(op) \in Order /\ OrderOf(op)[1] > 0
<1>1. op \in Op /\ sent[op].at \in 1 .. MaxTime /\ now \in 1 .. MaxTime
  BY SentTyped DEF Command, TypeOK
<1> QED
  BY <1>1, BoundsTyped DEF OrderOf, Normalized, NormalizedAt, Order, Op

(* The kind of row that an action makes.                                   *)
KindOf(action) == CASE action = "manual_set"    -> "manual"
                    [] action = "manual_delete" -> "deleted"
                    [] OTHER                    -> "automatic"

LEMMA WrittenTyped ==
  ASSUME TypeOK, NEW op \in DOMAIN sent, NEW row \in Row
  PROVE  /\ Written(op, row) \in Row
         /\ Written(op, row).rev # 0 /\ Written(op, row).by = op
         /\ Written(op, row).kind = KindOf(sent[op].action)
         /\ Written(op, row).order = IF sent[op].action \in Manual THEN OrderOf(op)
                                                                    ELSE row.order
<1>1. op \in Op /\ sent[op].action \in Action /\ revisions \in Nat
  BY SentTyped DEF Command, TypeOK
<1>2. KindOf(sent[op].action) \in Kind
  BY DEF KindOf, Kind
<1>3. (IF sent[op].action \in Manual THEN OrderOf(op) ELSE row.order) \in Order
  BY OrderTyped DEF Row
<1> QED
  BY <1>1, <1>2, <1>3 DEF Written, KindOf, Row

-----------------------------------------------------------------------------
(* What a command does to the tables of a scope s.                         *)
Answers(op, s, a) ==
  /\ receipts[s][op] = NoReceipt /\ receipts'[s][op] = a
  /\ \A z \in Scope, o \in Op : z # s \/ o # op => receipts'[z][o] = receipts[z][o]

Puts(s, row) == plan'[s] = row /\ \A z \in Scope \ {s} : plan'[z] = plan[z]

Repeats == UNCHANGED <<plan, revisions, receipts, chosen>>

Refuses(op, s) ==
  /\ ~Applies(op, plan[s])
  /\ Answers(op, s, [outcome |-> "conflict", current |-> plan[s]])
  /\ UNCHANGED <<plan, revisions, chosen>>

Accepts(op, s) ==
  /\ Applies(op, plan[s])
  /\ Answers(op, s, [outcome |-> "applied", current |-> Written(op, plan[s])])
  /\ Puts(s, Written(op, plan[s]))
  /\ revisions' = revisions + 1
  /\ chosen' = {c \in chosen : c.scope # s \/ sent[op].action # "explicit_regenerate"}
                 \cup IF sent[op].action \in Manual THEN {[scope |-> s, order |-> OrderOf(op)]}
                                                    ELSE {}

LEMMA ExecuteShape ==
  ASSUME TypeOK, NEW op \in Op, NEW s \in Scope, Execute(op, s)
  PROVE  \/ Repeats /\ receipts[s][op] # NoReceipt
         \/ Refuses(op, s) \/ Accepts(op, s)
<1> DEFINE a == Answer(op, plan[s])
<1>1. CASE receipts[s][op] # NoReceipt
  BY <1>1 DEF Execute, Repeats
<1>2. CASE receipts[s][op] = NoReceipt
  <2>1. receipts' = [receipts EXCEPT ![s][op] = a]
    BY <1>2 DEF Execute
  <2> HIDE DEF a
  <2>2. Answers(op, s, a)
    BY <1>2, <2>1 DEF Answers, TypeOK
  <2> USE DEF a
  <2>3. CASE Applies(op, plan[s])
    <3>1. a = [outcome |-> "applied", current |-> Written(op, plan[s])]
      BY <2>3 DEF Answer
    <3>2. plan' = [plan EXCEPT ![s] = Written(op, plan[s])]
      BY <1>2, <3>1 DEF Execute
    <3>3. Puts(s, Written(op, plan[s]))
      BY <3>2 DEF Puts, TypeOK
    <3>4. /\ revisions' = revisions + 1
          /\ chosen' = {c \in chosen : c.scope # s \/ sent[op].action # "explicit_regenerate"}
               \cup IF sent[op].action \in Manual THEN {[scope |-> s, order |-> OrderOf(op)]}
                                                  ELSE {}
      BY <1>2, <3>1 DEF Execute
    <3> QED
      BY <2>2, <2>3, <3>1, <3>3, <3>4 DEF Accepts
  <2>4. CASE ~Applies(op, plan[s])
    <3>1. a = [outcome |-> "conflict", current |-> plan[s]]
      BY <2>4 DEF Answer
    <3>2. UNCHANGED <<plan, revisions, chosen>>
      BY <1>2, <3>1 DEF Execute
    <3> QED
      BY <2>2, <2>4, <3>1, <3>2 DEF Refuses
  <2> QED
    BY <2>3, <2>4
<1> QED
  BY <1>1, <1>2

(* Only a house has conflicts to resolve.                                  *)
HealsInHouse == \A op \in DOMAIN sent : sent[op].heals # 0 => sent[op].scope \in House

(* The three ways in which a command is run in a scope s.                  *)
Ordinary(op) == conflicts' = conflicts /\ sent[op].heals = 0
Healing(op, s) == /\ s = sent[op].scope /\ s \in House
                  /\ \E k \in Pending(op) : conflicts' = Resolved(op, k)

Runs(op, s) ==
  /\ op \in DOMAIN sent /\ s \in Scope
  /\ s \in User => member[s] = NoHouse
  /\ Execute(op, s)
  /\ Ordinary(op) \/ Healing(op, s)
  /\ UNCHANGED <<now, member, gone, sent, quarantined>>

LEMMA CommandRuns ==
  ASSUME TypeOK, HealsInHouse, NEW op \in Op, Apply(op) \/ Import(op) \/ Resolve(op)
  PROVE  \E s \in Scope : Runs(op, s)
<1>1. op \in DOMAIN sent
  BY DEF Apply, Import, Resolve
<1>2. op \in Op /\ sent[op] \in Command
  BY <1>1, SentTyped
<1>3. CASE Apply(op)
  BY <1>1, <1>2, <1>3, ScopesDistinct DEF Apply, Runs, Ordinary, MayUse, Command, Scope
<1>4. CASE Import(op)
  <2>1. member[sent[op].owner] \in House
    BY <1>2, <1>4 DEF Import, TypeOK, Command
  <2>2. sent[op].heals = 0
    BY <1>1, <1>4, ScopesDistinct DEF Import, HealsInHouse
  <2> QED
    BY <1>1, <1>4, <2>1, <2>2, ScopesDistinct DEF Import, Runs, Ordinary, Scope
<1>5. CASE Resolve(op)
  <2>1. PICK k \in Pending(op) : Execute(op, k.house) /\ conflicts' = Resolved(op, k)
    BY <1>5 DEF Resolve
  <2>2. k.house = sent[op].scope /\ k.house \in House
    BY <2>1 DEF Pending, TypeOK, Conflict
  <2> QED
    BY <1>1, <1>5, <2>1, <2>2, ScopesDistinct DEF Resolve, Runs, Healing, Scope
<1> QED
  BY <1>3, <1>4, <1>5

LEMMA RunsTyped ==
  ASSUME TypeOK, NEW op \in Op, NEW s \in Scope, Runs(op, s)
  PROVE  TypeOK'
<1>1. op \in DOMAIN sent /\ plan[s] \in Row
  BY DEF Runs, TypeOK
<1>2. Written(op, plan[s]) \in Row /\ OrderOf(op) \in Order
  BY <1>1, WrittenTyped, OrderTyped
<1>3. conflicts' \subseteq Conflict
  <2>1. CASE Ordinary(op)
    BY <2>1 DEF Ordinary, TypeOK
  <2>2. CASE Healing(op, s)
    <3>1. PICK k \in Pending(op) : conflicts' = Resolved(op, k)
      BY <2>2 DEF Healing
    <3>2. k \in Conflict
      BY <3>1 DEF Pending, TypeOK
    <3>3. [k EXCEPT !.by = op] \in Conflict
      BY <3>2 DEF Conflict
    <3> QED
      BY <3>1, <3>3 DEF Resolved, TypeOK
  <2> QED
    BY <2>1, <2>2 DEF Runs
<1>4. /\ plan' \in [Scope -> Row] /\ receipts' \in [Scope -> [Op -> Receipt]]
      /\ revisions' \in Nat /\ chosen' \subseteq [scope : Scope, order : Order]
  <2> DEFINE a == Answer(op, plan[s])
             row == Written(op, plan[s])
             choice == [scope |-> s, order |-> OrderOf(op)]
  <2>1. a \in Receipt
    BY <1>1, <1>2 DEF Answer, Receipt, Outcome
  <2>2. choice \in [scope : Scope, order : Order] /\ row \in Row
    BY <1>2
  <2>3. CASE receipts[s][op] # NoReceipt
    BY <2>3 DEF Runs, Execute, TypeOK
  <2>4. CASE receipts[s][op] = NoReceipt
    <3>1. receipts' = [receipts EXCEPT ![s][op] = a]
      BY <2>4 DEF Runs, Execute
    <3>2. \/ UNCHANGED <<plan, revisions, chosen>>
          \/ /\ plan' = [plan EXCEPT ![s] = row] /\ revisions' = revisions + 1
             /\ chosen' \subseteq chosen \cup {choice}
      BY <2>4 DEF Runs, Execute
    <3> HIDE DEF a, row, choice
    <3>3. receipts' \in [Scope -> [Op -> Receipt]]
      BY <2>1, <3>1 DEF TypeOK
    <3> QED
      BY <2>2, <3>2, <3>3 DEF TypeOK
  <2> QED
    BY <2>3, <2>4
<1> QED
  BY <1>3, <1>4 DEF Runs, TypeOK

LEMMA MigrateTyped ==
  ASSUME TypeOK, NEW u \in User, Migrate(u)
  PROVE  TypeOK'
<1> DEFINE h == member[u]
<1>1. /\ u \in Scope /\ h \in House /\ h \in Scope /\ plan[u] \in Row /\ plan[h] \in Row
      /\ NoRow \in Row
  BY NoneIsFirst DEF Migrate, TypeOK, Scope, NoRow, Row, Kind
<1>2. CASE MoveRow(u, h)
  <2> DEFINE n     == revisions + 1
             moved == [plan[u] EXCEPT !.rev = n]
  <2>a. n \in Nat /\ revisions' = n
    BY <1>2 DEF TypeOK, MoveRow
  <2>b. plan' = [plan EXCEPT ![h] = moved, ![u] = NoRow]
    BY <1>2 DEF MoveRow
  <2> HIDE DEF n, h
  <2>1. moved \in Row
    BY <1>1, <2>a DEF Row
  <2> HIDE DEF moved
  <2>2. plan' \in [Scope -> Row] /\ revisions' \in Nat
    BY <1>1, <2>a, <2>b, <2>1 DEF TypeOK
  <2> USE DEF h
  <2>3. \A c \in [scope : Scope, order : Order] : [c EXCEPT !.scope = h] \in [scope : Scope, order : Order]
    BY <1>1
  <2>4. chosen' \subseteq [scope : Scope, order : Order]
    BY <1>2, <2>3 DEF MoveRow, Rescoped, TypeOK
  <2> QED
    BY <1>2, <2>2, <2>4 DEF MoveRow, Migrate, TypeOK
<1>3. CASE SetAside(u, h)
  <2>1. Staged(u, h) \subseteq Conflict
    BY <1>1 DEF Staged, Conflict, Row
  <2>2. plan' \in [Scope -> Row]
    BY <1>1, <1>3 DEF SetAside, TypeOK
  <2> QED
    BY <1>3, <2>1, <2>2 DEF SetAside, Migrate, TypeOK
<1> QED
  BY <1>2, <1>3 DEF Migrate

LEMMA LeaveTyped ==
  ASSUME TypeOK, NEW u \in User, Leave(u)
  PROVE  TypeOK'
<1> DEFINE h == member[u]
<1>1. h \in House /\ h \in Scope
  BY DEF Leave, TypeOK, Scope
<1>2. NoRow \in Row /\ [op \in Op |-> NoReceipt] \in [Op -> Receipt]
  BY NoneIsFirst DEF NoRow, Row, Kind, NoReceipt, Receipt, Outcome
<1>3. /\ UNCHANGED <<now, revisions, sent, quarantined>>
      /\ member' = [member EXCEPT ![u] = NoHouse]
      /\ gone' \subseteq gone \cup {h} /\ conflicts' \subseteq conflicts /\ chosen' \subseteq chosen
      /\ plan' = plan \/ plan' = [plan EXCEPT ![h] = NoRow]
      /\ receipts' = receipts \/ receipts' = [receipts EXCEPT ![h] = [op \in Op |-> NoReceipt]]
  BY DEF Leave
<1>4. plan' \in [Scope -> Row] /\ receipts' \in [Scope -> [Op -> Receipt]]
  BY <1>1, <1>2, <1>3 DEF TypeOK
<1>5. member' \in [User -> House \cup {NoHouse}]
  BY <1>3 DEF TypeOK
<1> QED
  BY <1>1, <1>3, <1>4, <1>5 DEF TypeOK

LEMMA ClockTyped ==
  ASSUME TypeOK, NEW u \in User, NEW h \in House, Tick \/ Join(u, h)
  PROVE  TypeOK'
BY BoundsTyped DEF TypeOK, Tick, Join

TInv == TypeOK /\ HealsInHouse

LEMMA TypeInit == Init => TInv
<1> SUFFICES ASSUME Init PROVE TInv
  OBVIOUS
<1>1. NoRow \in Row /\ NoReceipt \in Receipt
  BY NoneIsFirst DEF NoRow, Row, Kind, NoReceipt, Receipt, Outcome
<1>2. sent = <<>> /\ sent \in Seq(Command) /\ Len(sent) = 0 /\ DOMAIN sent = {}
  BY DEF Init
<1> QED
  BY <1>1, <1>2, BoundsTyped DEF Init, TInv, TypeOK, HealsInHouse

LEMMA TypeNext ==
  ASSUME TInv, [Next]_vars
  PROVE  TInv'
<1> USE DEF TInv
<1>1. CASE UNCHANGED vars
  BY <1>1 DEF vars, TypeOK, HealsInHouse
<1>2. ASSUME NEW u \in User, NEW h \in House, Tick \/ Join(u, h)
      PROVE  TInv'
  BY <1>2, ClockTyped DEF Tick, Join, HealsInHouse
<1>3. CASE Tick
  BY <1>3, BoundsTyped DEF Tick, HealsInHouse, TypeOK
<1>4. ASSUME NEW op \in Op, Apply(op) \/ Import(op) \/ Resolve(op)
      PROVE  TInv'
  BY <1>4, CommandRuns, RunsTyped DEF Runs, HealsInHouse
<1>5. ASSUME NEW u \in User, Choose(u) \/ Heal(u)
      PROVE  TInv'
  <2>1. PICK c \in Command : Make(c) /\ (c.heals # 0 => c.scope \in House)
    BY <1>5, ChoiceTyped
  <2>2. HealsInHouse'
    BY <2>1, MakeAppends DEF HealsInHouse
  <2> QED
    BY <2>1, <2>2, MakeAppends DEF Make, TypeOK
<1>6. ASSUME NEW u \in User, Migrate(u)
      PROVE  TInv'
  BY <1>6, MigrateTyped DEF Migrate, HealsInHouse
<1>7. ASSUME NEW u \in User, Leave(u)
      PROVE  TInv'
  BY <1>7, LeaveTyped DEF Leave, HealsInHouse
<1> QED
  BY <1>1, <1>2, <1>3, <1>4, <1>5, <1>6, <1>7 DEF Next

(* Every variable keeps its type.                                          *)
THEOREM TypeCorrect == Spec => []TypeOK
<1>1. TInv => TypeOK
  BY DEF TInv
<1> QED
  BY <1>1, TypeInit, TypeNext, PTL DEF Spec


-----------------------------------------------------------------------------
(* The row that a command has made: an order of its own, if by hand.       *)
Made(row) ==
  /\ row.by \in DOMAIN sent
  /\ row.kind = KindOf(sent[row.by].action)
  /\ row.order[2] <= now
  /\ row.kind # "automatic" =>
       row.order = <<NormalizedAt(sent[row.by].at, row.order[2]), row.order[2], row.by>>

RowsMade == \A s \in Scope : IF plan[s].rev = 0 THEN plan[s] = NoRow ELSE Made(plan[s])

(* Only what was sent is answered.                                         *)
SentIsAnswered == \A s \in Scope, op \in Op : op \notin DOMAIN sent => receipts[s][op] = NoReceipt

(* A row of an account is shown by its receipt.                            *)
Shown(u) == receipts[u][plan[u].by] = [outcome |-> "applied", current |-> plan[u]]

AccountsShown == \A u \in User : plan[u].rev # 0 => Shown(u)

(* A row that has moved, or is about to move, is of an earlier tick.       *)
Moved(h) == plan[h].rev # 0 /\ receipts[h][plan[h].by] = NoReceipt

MovedIsPast ==
  /\ \A u \in User : member[u] # NoHouse => plan[u].order[2] < now
  /\ \A h \in House : Moved(h) => plan[h].order[2] < now

(* The order of a house does not fall below what it has refused a choice   *)
(* for.                                                                    *)
Refused(s, op) == receipts[s][op].outcome = "conflict" /\ sent[op].action \in Manual

RefusedIsBelow ==
  \A h \in House, op \in DOMAIN sent : Refused(h, op) =>
    plan[h].rev # 0 /\ ~Later(receipts[h][op].current.order, plan[h].order)

(* A conflict that a command has resolved is one of its house.             *)
Healed(op) == \E k \in conflicts : /\ k.by = op /\ k.house = sent[op].scope
                                   /\ k.source.rev = sent[op].heals

HealsAreMarked ==
  \A op \in DOMAIN sent :
    /\ sent[op].heals # 0 /\ sent[op].scope \notin gone
    /\ receipts[sent[op].scope][op].outcome = "applied"
    => Healed(op)


RInv == /\ TInv /\ RowsMade /\ SentIsAnswered /\ AccountsShown /\ MovedIsPast
        /\ RefusedIsBelow /\ ConflictIsFinal

LEMMA RowTyped ==
  ASSUME TypeOK, NEW s \in Scope
  PROVE  /\ plan[s] \in Row /\ plan[s].order \in Order /\ plan[s].order[2] \in Nat
         /\ now \in Nat /\ now > 0
BY BoundsTyped DEF TypeOK, Row, Order

LEMMA ReceiptTyped ==
  ASSUME TypeOK, NEW s \in Scope, NEW op \in DOMAIN sent
  PROVE  receipts[s][op] \in Receipt /\ receipts[s][op].current.order \in Order
BY SentTyped DEF TypeOK, Receipt, Row

LEMMA OrderIsPast ==
  ASSUME TypeOK, RowsMade, NEW s \in Scope
  PROVE  plan[s].order[2] <= now
BY RowTyped DEF RowsMade, Made, NoRow, NoOrder

(* decidePlanCommand, action by action.                                    *)
LEMMA AppliesByAction ==
  ASSUME NEW op, NEW row
  PROVE  /\ sent[op].action \in Manual => (Applies(op, row) <=> Later(OrderOf(op), row.order))
         /\ sent[op].action = "auto_create" => (Applies(op, row) <=> row.rev = 0)
BY DEF Applies, Manual

(* Time passes, or a user joins a house.                                   *)
LEMMA ClockKeepsRefusals ==
  ASSUME RInv, TInv', NEW u \in User, NEW h \in House, Tick \/ Join(u, h)
  PROVE  RInv'
<1>1. /\ UNCHANGED <<sent, plan, receipts>> /\ now' = now + 1
      /\ \A v \in User \ {u} : member'[v] = member[v]
      /\ member' = member \/ member'[u] = h
  BY DEF Tick, Join, RInv, TInv, TypeOK
<1>2. \A s \in Scope : plan[s].order[2] < now'
  BY <1>1, OrderIsPast, RowTyped DEF RInv, TInv
<1>3. RowsMade'
  BY <1>1, RowTyped DEF RInv, TInv, RowsMade, Made
<1>4. MovedIsPast'
  BY <1>1, <1>2 DEF MovedIsPast, Moved, Scope
<1>5. SentIsAnswered' /\ AccountsShown' /\ RefusedIsBelow' /\ ConflictIsFinal'
  BY <1>1 DEF RInv, SentIsAnswered, AccountsShown, Shown, RefusedIsBelow, Refused, ConflictIsFinal
<1> QED
  BY <1>3, <1>4, <1>5 DEF RInv

(* A device makes a command.                                               *)
LEMMA MakeKeepsRefusals ==
  ASSUME RInv, TInv', NEW c \in Command, Make(c)
  PROVE  RInv'
<1> DEFINE new == Len(sent) + 1
<1>1. /\ DOMAIN sent' = DOMAIN sent \cup {new} /\ new \notin DOMAIN sent /\ new \in Op
      /\ \A op \in DOMAIN sent : sent'[op] = sent[op]
  BY MakeAppends DEF RInv, TInv
<1>2. UNCHANGED <<now, member, plan, receipts>>
  BY DEF Make
<1> HIDE DEF new
<1>3. \A s \in Scope : receipts[s][new] = NoReceipt
  BY <1>1 DEF RInv, SentIsAnswered
<1>4. RowsMade'
  BY <1>1, <1>2 DEF RInv, RowsMade, Made
<1>5. SentIsAnswered' /\ AccountsShown' /\ MovedIsPast'
  BY <1>1, <1>2 DEF RInv, SentIsAnswered, AccountsShown, Shown, MovedIsPast, Moved
<1>6. \A s \in Scope, op \in DOMAIN sent' : Refused(s, op)' => op \in DOMAIN sent /\ Refused(s, op)
  BY <1>1, <1>2, <1>3 DEF Refused, NoReceipt
<1>7. RefusedIsBelow'
  BY <1>2, <1>6 DEF RInv, RefusedIsBelow, Scope
<1>8. ConflictIsFinal'
  BY <1>2, <1>6 DEF RInv, ConflictIsFinal, Refused
<1> QED
  BY <1>4, <1>5, <1>7, <1>8 DEF RInv

(* A command that loses, and what it is answered.                          *)
LEMMA RefusesKeeps ==
  ASSUME RInv, TInv', NEW op \in Op, NEW s \in Scope, Runs(op, s), Refuses(op, s)
  PROVE  RInv'
<1>1. /\ op \in DOMAIN sent /\ receipts[s][op] = NoReceipt
      /\ UNCHANGED <<now, member, sent, plan>>
      /\ receipts'[s][op] = [outcome |-> "conflict", current |-> plan[s]]
      /\ \A z \in Scope, o \in Op : z # s \/ o # op => receipts'[z][o] = receipts[z][o]
  BY DEF Runs, Refuses, Answers
<1>2. \A o \in DOMAIN sent : o \in Op
  BY SentTyped DEF RInv, TInv
<1>3. RowsMade' /\ SentIsAnswered'
  BY <1>1 DEF RInv, RowsMade, Made, SentIsAnswered
<1>4. \A u \in User : plan[u].rev # 0 => plan[u].by \in Op /\ ~(u = s /\ plan[u].by = op)
  <2> SUFFICES ASSUME NEW u \in User, plan[u].rev # 0
               PROVE  plan[u].by \in Op /\ ~(u = s /\ plan[u].by = op)
    OBVIOUS
  <2>1. u \in Scope /\ Shown(u)
    BY DEF RInv, AccountsShown, Scope
  <2>2. plan[u].by \in Op
    BY <1>2, <2>1 DEF RInv, RowsMade, Made
  <2> QED
    BY <1>1, <2>1, <2>2 DEF Shown, NoReceipt
<1>5. AccountsShown'
  BY <1>1, <1>4 DEF RInv, AccountsShown, Shown, Scope
<1>6. \A h \in House : Moved(h)' => Moved(h)
  <2> SUFFICES ASSUME NEW h \in House, plan[h].rev # 0, receipts'[h][plan[h].by] = NoReceipt
               PROVE  receipts[h][plan[h].by] = NoReceipt
    BY <1>1 DEF Moved
  <2>1. h \in Scope /\ plan[h].by \in Op
    BY <1>2 DEF RInv, RowsMade, Made, Scope
  <2> QED
    BY <1>1, <2>1
<1>7. MovedIsPast'
  BY <1>1, <1>6 DEF RInv, MovedIsPast
<1>8. ASSUME sent[op].action \in Manual
      PROVE  /\ ~Later(OrderOf(op), plan[s].order) /\ plan[s].rev # 0
             /\ plan[s].by # op
  <2>1. ~Later(OrderOf(op), plan[s].order)
    BY <1>8, AppliesByAction DEF Refuses
  <2>2. OrderOf(op) = <<NormalizedAt(sent[op].at, now), now, op>>
        /\ OrderOf(op) \in Order /\ OrderOf(op)[1] > 0
    BY <1>1, OrderTyped DEF RInv, TInv
  <2>3. plan[s].rev # 0
    BY <2>1, <2>2, NoneIsFirst DEF RInv, RowsMade, NoRow
  <2>4. SUFFICES ASSUME plan[s].by = op PROVE FALSE
    BY <2>1, <2>3
  <2>5. Made(plan[s])
    BY <2>3 DEF RInv, RowsMade
  <2>6. s \notin User
    BY <1>4, <2>3, <2>4
  <2>7. s \in House /\ Moved(s)
    BY <1>1, <2>3, <2>4, <2>6 DEF Moved, Scope
  <2>8. plan[s].order[2] < now
    BY <2>7 DEF RInv, MovedIsPast
  <2>9. plan[s].kind # "automatic"
    BY <1>8, <2>4, <2>5 DEF Made, KindOf, Manual
  <2>10. plan[s].order = <<NormalizedAt(sent[op].at, plan[s].order[2]), plan[s].order[2], op>>
    BY <2>4, <2>5, <2>9 DEF Made
  <2>11. sent[op].at \in Nat /\ plan[s].order[2] \in Nat /\ now \in Nat
    BY <1>1, SentTyped, RowTyped, BoundsTyped DEF RInv, TInv, Command
  <2>12. NormalizedAt(sent[op].at, plan[s].order[2]) <= NormalizedAt(sent[op].at, now)
         /\ NormalizedAt(sent[op].at, now) \in Nat
         /\ NormalizedAt(sent[op].at, plan[s].order[2]) \in Nat
    BY <2>8, <2>11, BoundsTyped DEF NormalizedAt
  <2>13. /\ OrderOf(op)[1] = NormalizedAt(sent[op].at, now) /\ OrderOf(op)[2] = now
         /\ plan[s].order[1] = NormalizedAt(sent[op].at, plan[s].order[2])
    BY <2>2, <2>10
  <2> QED
    BY <2>1, <2>8, <2>11, <2>12, <2>13 DEF Later
<1>9. \A z \in Scope, o \in DOMAIN sent : Refused(z, o)' =>
        \/ Refused(z, o) /\ receipts'[z][o] = receipts[z][o]
        \/ z = s /\ o = op /\ sent[op].action \in Manual /\ receipts'[z][o].current = plan[s]
  BY <1>1, <1>2 DEF Refused
<1>10. RefusedIsBelow'
  BY <1>1, <1>8, <1>9, RowTyped, LaterIsStrict DEF RInv, TInv, RefusedIsBelow, Scope
<1>11. ConflictIsFinal'
  BY <1>1, <1>8, <1>9 DEF RInv, ConflictIsFinal, Refused
<1> QED
  BY <1>3, <1>5, <1>7, <1>10, <1>11 DEF RInv


(* A command that is applied.                                              *)
LEMMA AcceptsKeeps ==
  ASSUME RInv, TInv', NEW op \in Op, NEW s \in Scope, Runs(op, s), Accepts(op, s)
  PROVE  RInv'
<1> DEFINE w == Written(op, plan[s])
<1>1. /\ op \in DOMAIN sent /\ receipts[s][op] = NoReceipt
      /\ UNCHANGED <<now, member, sent>>
      /\ receipts'[s][op] = [outcome |-> "applied", current |-> w]
      /\ \A z \in Scope, o \in Op : z # s \/ o # op => receipts'[z][o] = receipts[z][o]
      /\ plan'[s] = w /\ \A z \in Scope \ {s} : plan'[z] = plan[z]
      /\ s \in User => member[s] = NoHouse
  BY DEF Runs, Accepts, Answers, Puts
<1>2. /\ w \in Row /\ w.rev # 0 /\ w.by = op /\ w.kind = KindOf(sent[op].action)
      /\ w.order = IF sent[op].action \in Manual THEN OrderOf(op) ELSE plan[s].order
  BY <1>1, WrittenTyped, RowTyped DEF RInv, TInv
<1>3. /\ OrderOf(op) = <<NormalizedAt(sent[op].at, now), now, op>>
      /\ OrderOf(op) \in Order
  BY <1>1, OrderTyped DEF RInv, TInv
<1>4. \A o \in DOMAIN sent : o \in Op
  BY SentTyped DEF RInv, TInv
<1>5. ~Later(plan[s].order, w.order)
  BY <1>2, <1>3, AppliesByAction, LaterIsStrict, RowTyped DEF RInv, TInv, Accepts
<1>6. Made(w)
  <2>1. w.order[2] <= now
    BY <1>2, <1>3, OrderIsPast, RowTyped DEF RInv, TInv
  <2>2. w.kind # "automatic" => sent[op].action \in Manual
    BY <1>2 DEF KindOf, Manual
  <2>3. sent[op].action \in Manual => w.order[2] = now
    BY <1>2, <1>3
  <2> QED
    BY <1>1, <1>2, <1>3, <2>1, <2>2, <2>3 DEF Made
<1> HIDE DEF w
<1>7. RowsMade'
  BY <1>1, <1>2, <1>6 DEF RInv, RowsMade, Made
<1>8. SentIsAnswered'
  BY <1>1 DEF RInv, SentIsAnswered
<1>9. AccountsShown'
  <2> SUFFICES ASSUME NEW u \in User, plan'[u].rev # 0
               PROVE  receipts'[u][plan'[u].by] = [outcome |-> "applied", current |-> plan'[u]]
    BY DEF AccountsShown, Shown
  <2>1. CASE u = s
    BY <1>1, <1>2, <2>1
  <2>2. CASE u # s
    <3>1. u \in Scope /\ plan'[u] = plan[u] /\ Shown(u)
      BY <1>1, <2>2 DEF RInv, AccountsShown, Scope
    <3>2. plan[u].by \in Op
      BY <1>4, <3>1 DEF RInv, RowsMade, Made
    <3> QED
      BY <1>1, <2>2, <3>1, <3>2 DEF Shown
  <2> QED
    BY <2>1, <2>2
<1>10. MovedIsPast'
  <2>1. ASSUME NEW u \in User, member'[u] # NoHouse
        PROVE  plan'[u].order[2] < now'
    BY <1>1, <2>1 DEF RInv, MovedIsPast, Scope
  <2>2. ASSUME NEW h \in House, Moved(h)'
        PROVE  plan'[h].order[2] < now'
    <3>1. h \in Scope /\ h # s
      BY <1>1, <1>2, <2>2 DEF Moved, Scope, NoReceipt
    <3>2. plan'[h] = plan[h] /\ plan[h].rev # 0
      BY <1>1, <2>2, <3>1 DEF Moved
    <3>3. plan[h].by \in Op
      BY <1>4, <3>1, <3>2 DEF RInv, RowsMade, Made
    <3>4. Moved(h)
      BY <1>1, <2>2, <3>1, <3>2, <3>3 DEF Moved
    <3> QED
      BY <1>1, <3>2, <3>4 DEF RInv, MovedIsPast
  <2> QED
    BY <2>1, <2>2 DEF MovedIsPast
<1>11. \A z \in Scope, o \in DOMAIN sent : Refused(z, o)' =>
         /\ Refused(z, o) /\ receipts'[z][o] = receipts[z][o]
         /\ z # s \/ o # op
  BY <1>1, <1>4 DEF Refused
<1>12. RefusedIsBelow'
  <2> SUFFICES ASSUME NEW h \in House, NEW o \in DOMAIN sent, Refused(h, o)'
               PROVE  plan'[h].rev # 0 /\ ~Later(receipts'[h][o].current.order, plan'[h].order)
    BY <1>1 DEF RefusedIsBelow
  <2>1. h \in Scope /\ Refused(h, o) /\ receipts'[h][o] = receipts[h][o]
    BY <1>11 DEF Scope
  <2>2. plan[h].rev # 0 /\ ~Later(receipts[h][o].current.order, plan[h].order)
    BY <2>1 DEF RInv, RefusedIsBelow
  <2>3. CASE h # s
    BY <1>1, <2>1, <2>2, <2>3
  <2>4. CASE h = s
    <3>1. /\ receipts[h][o].current.order \in Order /\ plan[s].order \in Order
          /\ w.order \in Order
      BY <1>2, <2>1, ReceiptTyped, RowTyped DEF RInv, TInv, Row
    <3> QED
      BY <1>1, <1>2, <1>5, <2>1, <2>2, <2>4, <3>1, LaterIsTransitive
  <2> QED
    BY <2>3, <2>4
<1>13. ConflictIsFinal'
  <2> SUFFICES ASSUME NEW z \in Scope, NEW o \in DOMAIN sent, Refused(z, o)', plan'[z].by = o
               PROVE  Later(plan'[z].order, receipts'[z][o].current.order)
    BY <1>1 DEF ConflictIsFinal, Refused
  <2>1. Refused(z, o) /\ receipts'[z][o] = receipts[z][o] /\ z # s
    BY <1>1, <1>2, <1>11
  <2> QED
    BY <1>1, <2>1 DEF RInv, ConflictIsFinal, Refused
<1> QED
  BY <1>7, <1>8, <1>9, <1>10, <1>12, <1>13 DEF RInv

(* The row of the account becomes that of the house.                       *)
LEMMA MoveKeepsRefusals ==
  ASSUME RInv, TInv', NEW u \in User, Migrate(u), MoveRow(u, member[u])
  PROVE  RInv'
<1> PICK h \in House : h = member[u]
  BY DEF Migrate, RInv, TInv, TypeOK
<1> DEFINE n == revisions + 1
<1>1. h \in House /\ h \in Scope /\ u \in Scope /\ h # u /\ u \notin House
  BY ScopesDistinct DEF Migrate, RInv, TInv, TypeOK, Scope
<1>2. plan[u].rev # 0 /\ Wins(plan[u], plan[h]) /\ UNCHANGED <<now, member, sent, receipts>>
  BY DEF Migrate, MoveRow
<1>3. n \in Nat /\ n # 0 /\ plan[u] \in Row /\ member[u] # NoHouse
  BY <1>1, RowTyped DEF RInv, TInv, TypeOK, Migrate
<1>4. plan' = [plan EXCEPT ![h] = [plan[u] EXCEPT !.rev = n], ![u] = NoRow]
  BY DEF MoveRow
<1> HIDE DEF n
<1>5. /\ plan'[u] = NoRow /\ \A s \in Scope \ {u, h} : plan'[s] = plan[s]
      /\ plan'[h] = [plan[u] EXCEPT !.rev = n]
  BY <1>1, <1>4 DEF RInv, TInv, TypeOK
<1>6. /\ plan'[h].rev = n /\ plan'[h].kind = plan[u].kind
      /\ plan'[h].order = plan[u].order /\ plan'[h].by = plan[u].by
  BY <1>3, <1>5 DEF Row
<1>7. RowsMade'
  <2>1. Made(plan[u])
    BY <1>1, <1>2 DEF RInv, RowsMade
  <2>2. Made(plan[h])'
    BY <1>2, <1>6, <2>1 DEF Made
  <2>3. \A s \in Scope : Made(plan[s]) /\ s \notin {u, h} => Made(plan[s])'
    BY <1>2, <1>5 DEF Made
  <2>4. ASSUME NEW s \in Scope
        PROVE  IF plan'[s].rev = 0 THEN plan'[s] = NoRow ELSE Made(plan[s])'
    <3>1. CASE s = u
      BY <1>5, <3>1 DEF NoRow
    <3>2. CASE s = h
      BY <1>3, <1>6, <2>2, <3>2
    <3>3. CASE s \notin {u, h}
      BY <1>5, <2>3, <3>3 DEF RInv, RowsMade
    <3> QED
      BY <3>1, <3>2, <3>3
  <2> QED
    BY <2>4 DEF RowsMade
<1>8. SentIsAnswered'
  BY <1>2 DEF RInv, SentIsAnswered
<1>9. AccountsShown'
  BY <1>1, <1>2, <1>5, ScopesDistinct DEF RInv, AccountsShown, Shown, Scope, NoRow
<1>10. plan[u].order[2] < now
  BY <1>3 DEF RInv, MovedIsPast
<1>11. MovedIsPast'
  <2>1. \A v \in User : v # u => v \in Scope \ {u, h}
    BY <1>1, ScopesDistinct DEF Scope
  <2>2. \A g \in House : g # h => g \in Scope \ {u, h}
    BY <1>1 DEF Scope
  <2>3. NoRow.order[2] < now
    BY <1>1, RowTyped DEF RInv, TInv, NoRow, NoOrder
  <2> QED
    BY <1>2, <1>5, <1>6, <1>10, <2>1, <2>2, <2>3 DEF RInv, MovedIsPast, Moved
<1>12. ASSUME NEW op \in DOMAIN sent, Refused(h, op)
       PROVE  /\ ~Later(receipts[h][op].current.order, plan[u].order)
              /\ Later(plan[u].order, receipts[h][op].current.order)
  <2>1. plan[h].rev # 0 /\ ~Later(receipts[h][op].current.order, plan[h].order)
    BY <1>1, <1>12 DEF RInv, RefusedIsBelow
  <2>2. Later(plan[u].order, plan[h].order)
    BY <1>2, <2>1 DEF Wins
  <2>3. /\ receipts[h][op].current.order \in Order
        /\ plan[u].order \in Order /\ plan[h].order \in Order
    BY <1>1, ReceiptTyped, RowTyped DEF RInv, TInv
  <2> QED
    BY <2>1, <2>2, <2>3, LaterIsTransitive, LaterThanBeaten
<1>13. RefusedIsBelow'
  <2> SUFFICES ASSUME NEW g \in House, NEW op \in DOMAIN sent, Refused(g, op)
               PROVE  plan'[g].rev # 0 /\ ~Later(receipts[g][op].current.order, plan'[g].order)
    BY <1>2 DEF RefusedIsBelow, Refused
  <2>1. CASE g = h
    BY <1>3, <1>6, <1>12, <2>1
  <2>2. CASE g # h
    BY <1>1, <1>5, <2>2 DEF RInv, RefusedIsBelow, Scope
  <2> QED
    BY <2>1, <2>2
<1>14. ConflictIsFinal'
  <2>1. \A op \in DOMAIN sent : op # 0
    BY SentTyped DEF RInv, TInv, Op
  <2> SUFFICES ASSUME NEW s \in Scope, NEW op \in DOMAIN sent, Refused(s, op), plan'[s].by = op
               PROVE  Later(plan'[s].order, receipts[s][op].current.order)
    BY <1>2 DEF ConflictIsFinal, Refused
  <2>2. s # u
    BY <1>5, <2>1 DEF NoRow
  <2>3. CASE s = h
    BY <1>6, <1>12, <2>3
  <2>4. CASE s # h
    BY <1>5, <2>2, <2>4 DEF RInv, ConflictIsFinal, Refused
  <2> QED
    BY <2>3, <2>4
<1> QED
  BY <1>7, <1>8, <1>9, <1>11, <1>13, <1>14 DEF RInv

(* A row that loses leaves the account.                                    *)
LEMMA SetAsideKeepsRefusals ==
  ASSUME RInv, TInv', NEW u \in User, Migrate(u), SetAside(u, member[u])
  PROVE  RInv'
<1>1. /\ UNCHANGED <<now, member, sent, receipts>> /\ u \in Scope /\ u \notin House
      /\ plan'[u] = NoRow /\ \A s \in Scope \ {u} : plan'[s] = plan[s]
  BY ScopesDistinct DEF Migrate, SetAside, RInv, TInv, TypeOK, Scope
<1>2. RowsMade' /\ SentIsAnswered' /\ AccountsShown'
  BY <1>1 DEF RInv, RowsMade, Made, SentIsAnswered, AccountsShown, Shown, Scope, NoRow
<1>3. NoRow.order[2] < now
  BY <1>1, RowTyped DEF RInv, TInv, NoRow, NoOrder
<1>4. MovedIsPast' /\ RefusedIsBelow'
  BY <1>1, <1>3 DEF RInv, MovedIsPast, Moved, RefusedIsBelow, Refused, Scope
<1>5. \A op \in DOMAIN sent : op # 0
  BY SentTyped DEF RInv, TInv, Op
<1>6. ConflictIsFinal'
  BY <1>1, <1>5 DEF RInv, ConflictIsFinal, NoRow
<1> QED
  BY <1>2, <1>4, <1>6 DEF RInv

(* A user leaves; the last one takes the house along.                      *)
LEMMA LeaveKeepsRefusals ==
  ASSUME RInv, TInv', NEW u \in User, Leave(u)
  PROVE  RInv'
<1> DEFINE h == member[u]
<1>1. /\ UNCHANGED <<now, sent>> /\ h \in House /\ h \in Scope /\ h \notin User
      /\ \A v \in User : member'[v] # NoHouse => member'[v] = member[v]
  BY ScopesDistinct DEF Leave, RInv, TInv, TypeOK, Scope
<1>2. CASE UNCHANGED <<plan, receipts>>
  BY <1>1, <1>2 DEF RInv, RowsMade, Made, SentIsAnswered, AccountsShown, Shown, MovedIsPast,
                    Moved, RefusedIsBelow, Refused, ConflictIsFinal
<1>3. CASE /\ plan' = [plan EXCEPT ![h] = NoRow]
           /\ receipts' = [receipts EXCEPT ![h] = [op \in Op |-> NoReceipt]]
  <2>1. /\ plan'[h] = NoRow /\ \A s \in Scope \ {h} : plan'[s] = plan[s] /\ receipts'[s] = receipts[s]
        /\ \A op \in Op : receipts'[h][op] = NoReceipt
    BY <1>1, <1>3 DEF RInv, TInv, TypeOK
  <2>2. \A op \in DOMAIN sent : op \in Op
    BY SentTyped DEF RInv, TInv
  <2> HIDE DEF h
  <2>3. RowsMade' /\ SentIsAnswered' /\ AccountsShown'
    BY <1>1, <2>1, <2>2 DEF RInv, RowsMade, Made, SentIsAnswered, AccountsShown, Shown, Scope, NoRow
  <2>4. MovedIsPast'
    BY <1>1, <2>1 DEF RInv, MovedIsPast, Moved, Scope, NoRow
  <2>5. \A s \in Scope, op \in DOMAIN sent : Refused(s, op)' => s # h /\ Refused(s, op)
    BY <1>1, <2>1, <2>2 DEF Refused, NoReceipt
  <2>6. RefusedIsBelow'
    BY <1>1, <2>1, <2>5 DEF RInv, RefusedIsBelow, Scope
  <2>7. ConflictIsFinal'
    BY <1>1, <2>1, <2>5 DEF RInv, ConflictIsFinal, Refused
  <2> QED
    BY <2>3, <2>4, <2>6, <2>7 DEF RInv
<1> QED
  BY <1>2, <1>3 DEF Leave

LEMMA RefusalsInit == Init => RInv
<1> SUFFICES ASSUME Init PROVE RInv
  OBVIOUS
<1>1. TInv /\ sent = <<>> /\ DOMAIN sent = {} /\ now = 1
  BY TypeInit DEF Init
<1>2. /\ \A s \in Scope : plan[s] = NoRow
      /\ \A s \in Scope, op \in Op : receipts[s][op] = NoReceipt
  BY DEF Init
<1>3. \A u \in User : u \in Scope
  BY DEF Scope
<1>4. \A h \in House : h \in Scope
  BY DEF Scope
<1> QED
  BY <1>1, <1>2, <1>3, <1>4 DEF RInv, RowsMade, SentIsAnswered, AccountsShown, MovedIsPast,
     Moved, RefusedIsBelow, ConflictIsFinal, NoRow, NoOrder

LEMMA RefusalsNext ==
  ASSUME RInv, [Next]_vars
  PROVE  RInv'
<1>1. TInv'
  BY TypeNext DEF RInv
<1>2. CASE UNCHANGED vars
  BY <1>1, <1>2 DEF vars, RInv, RowsMade, Made, SentIsAnswered, AccountsShown, Shown, MovedIsPast,
                    Moved, RefusedIsBelow, Refused, ConflictIsFinal
<1>3. CASE Tick
  <2>1. UNCHANGED <<sent, plan, receipts, member>> /\ now' = now + 1
    BY <1>3 DEF Tick
  <2>2. \A s \in Scope : plan[s].order[2] < now'
    BY <2>1, OrderIsPast, RowTyped DEF RInv, TInv
  <2>3. RowsMade' /\ MovedIsPast'
    BY <2>1, <2>2, OrderIsPast, RowTyped DEF RInv, TInv, RowsMade, Made, MovedIsPast, Moved, Scope
  <2> QED
    BY <1>1, <2>1, <2>3 DEF RInv, SentIsAnswered, AccountsShown, Shown, RefusedIsBelow, Refused,
                            ConflictIsFinal
<1>4. ASSUME NEW u \in User, NEW h \in House, Join(u, h) PROVE RInv'
  BY <1>1, <1>4, ClockKeepsRefusals
<1>5. ASSUME NEW u \in User, Choose(u) \/ Heal(u) PROVE RInv'
  BY <1>1, <1>5, ChoiceTyped, MakeKeepsRefusals DEF RInv, TInv
<1>6. ASSUME NEW op \in Op, Apply(op) \/ Import(op) \/ Resolve(op) PROVE RInv'
  <2>1. PICK s \in Scope : Runs(op, s)
    BY <1>6, CommandRuns DEF RInv, TInv
  <2>2. CASE Repeats
    BY <1>1, <2>1, <2>2 DEF Runs, Repeats, RInv, RowsMade, Made, SentIsAnswered, AccountsShown,
       Shown, MovedIsPast, Moved, RefusedIsBelow, Refused, ConflictIsFinal
  <2> QED
    BY <1>1, <2>1, <2>2, ExecuteShape, RefusesKeeps, AcceptsKeeps DEF RInv, TInv, Runs
<1>7. ASSUME NEW u \in User, Migrate(u) PROVE RInv'
  BY <1>1, <1>7, MoveKeepsRefusals, SetAsideKeepsRefusals DEF Migrate
<1>8. ASSUME NEW u \in User, Leave(u) PROVE RInv'
  BY <1>1, <1>8, LeaveKeepsRefusals
<1> QED
  BY <1>2, <1>3, <1>4, <1>5, <1>6, <1>7, <1>8 DEF Next

(* A choice by hand that was refused does not come back over the row it    *)
(* lost to (decidePlanCommand, migrateUserMealPlanToHouse).                *)
THEOREM ConflictIsFinalHolds == Spec => []ConflictIsFinal
<1>1. RInv => ConflictIsFinal
  BY DEF RInv
<1> QED
  BY <1>1, RefusalsInit, RefusalsNext, PTL DEF Spec


-----------------------------------------------------------------------------
(* The receipt of an automatic row of an account is there, and shows it.   *)
LEMMA AutomaticIsVerified ==
  ASSUME RInv, NEW u \in User, plan[u].rev # 0, plan[u].kind = "automatic"
  PROVE  Verified(u)
<1>1. u \in Scope /\ Shown(u) /\ Made(plan[u])
  BY DEF RInv, AccountsShown, RowsMade, Scope
<1>2. sent[plan[u].by].action \in Action /\ KindOf(sent[plan[u].by].action) = "automatic"
  BY <1>1, SentTyped DEF RInv, TInv, Made, Command
<1> QED
  BY <1>1, <1>2 DEF Verified, Shown, Action, Manual, KindOf

LEMMA SetAsideStages ==
  ASSUME RInv, NEW u \in User, Migrate(u), SetAside(u, member[u])
  PROVE  UNCHANGED quarantined /\ conflicts' = conflicts \cup Staged(u, member[u])
BY AutomaticIsVerified DEF Migrate, SetAside

(* No row that commands made is quarantined (migrateUserMealPlanToHouse).  *)
THEOREM NothingQuarantinedHolds == Spec => []NothingQuarantined
<1>1. Init => NothingQuarantined
  BY DEF Init, NothingQuarantined
<1>2. RInv /\ NothingQuarantined /\ [Next]_vars => NothingQuarantined'
  <2> SUFFICES ASSUME RInv, [Next]_vars PROVE UNCHANGED quarantined
    BY DEF NothingQuarantined
  <2>1. ASSUME NEW u \in User, Migrate(u) PROVE UNCHANGED quarantined
    BY <2>1, SetAsideStages DEF Migrate, MoveRow
  <2>2. ASSUME NEW u \in User, Choose(u) \/ Heal(u) PROVE UNCHANGED quarantined
    BY <2>2, ChoiceTyped DEF RInv, TInv, Make
  <2> QED
    BY <2>1, <2>2 DEF Next, vars, Tick, Join, Leave, Apply, Import, Resolve
<1> QED
  BY <1>1, <1>2, RefusalsInit, RefusalsNext, PTL DEF Spec

-----------------------------------------------------------------------------
(* A choice is in the plan of its scope, or behind a later one, or kept.   *)
InPlan(c) == ~Later(c.order, plan[c.scope].order)
Safe(c)   == InPlan(c) \/ \E g \in House : Kept(c, g)

LEMMA NoChoiceLostIsSafe == NoChoiceLost <=> \A c \in chosen : Safe(c)
BY DEF NoChoiceLost, Safe, InPlan

LEMMA ChosenTyped ==
  ASSUME TypeOK, NEW c \in chosen
  PROVE  c.scope \in Scope /\ c.order \in Order /\ c \in [scope : Scope, order : Order]
BY DEF TypeOK

(* To resolve a conflict does not drop it.                                 *)
LEMMA RunsKept ==
  ASSUME TypeOK, NEW op \in Op, NEW s \in Scope, Runs(op, s), NEW c, NEW g, Kept(c, g)
  PROVE  Kept(c, g)'
<1>1. CASE Ordinary(op)
  BY <1>1 DEF Ordinary, Kept
<1>2. CASE Healing(op, s)
  <2>1. PICK k \in Pending(op) : conflicts' = Resolved(op, k)
    BY <1>2 DEF Healing
  <2> DEFINE marked == [k EXCEPT !.by = op]
  <2>2. k \in Conflict
    BY <2>1 DEF Pending, TypeOK
  <2>3. marked.house = k.house /\ marked.user = k.user /\ marked.source = k.source
    BY <2>2 DEF Conflict
  <2>4. \A l \in conflicts : l \in conflicts' \/ (l = k /\ marked \in conflicts')
    BY <2>1 DEF Resolved
  <2> HIDE DEF marked
  <2> QED
    BY <2>3, <2>4 DEF Kept
<1> QED
  BY <1>1, <1>2 DEF Runs

LEMMA RunsSafe ==
  ASSUME RInv, NoChoiceLost, NEW op \in Op, NEW s \in Scope, Runs(op, s)
  PROVE  NoChoiceLost'
<1> SUFFICES ASSUME NEW c \in chosen' PROVE Safe(c)'
  BY NoChoiceLostIsSafe DEF NoChoiceLost, Safe, InPlan
<1>1. TypeOK /\ op \in DOMAIN sent
  BY DEF RInv, TInv, Runs
<1>2. c \in chosen /\ UNCHANGED plan => Safe(c)'
  BY <1>1, RunsKept, NoChoiceLostIsSafe DEF Safe, InPlan
<1>3. CASE Repeats \/ Refuses(op, s)
  BY <1>2, <1>3 DEF Repeats, Refuses
<1>4. CASE Accepts(op, s)
  <2> DEFINE w == Written(op, plan[s])
  <2>1. /\ w.order = IF sent[op].action \in Manual THEN OrderOf(op) ELSE plan[s].order
        /\ w.order \in Order /\ plan[s].order \in Order /\ OrderOf(op) \in Order
    BY <1>1, WrittenTyped, OrderTyped, RowTyped DEF Row
  <2>2. plan'[s] = w /\ \A z \in Scope \ {s} : plan'[z] = plan[z]
    BY <1>4 DEF Accepts, Puts
  <2>3. sent[op].action \in Manual => Later(OrderOf(op), plan[s].order)
    BY <1>4, AppliesByAction DEF Accepts
  <2> HIDE DEF w
  <2>4. CASE c \in chosen
    <3>1. c.scope \in Scope /\ c.order \in Order
      BY <1>1, <2>4, ChosenTyped
    <3>2. CASE \E g \in House : Kept(c, g)
      BY <1>1, <3>2, RunsKept DEF Safe
    <3>3. CASE InPlan(c) /\ c.scope = s
      <4>1. ~Later(c.order, w.order)
        BY <2>1, <2>3, <3>1, <3>3, LaterIsTransitive DEF InPlan
      <4> QED
        BY <2>2, <3>3, <4>1 DEF Safe, InPlan
    <3>4. CASE InPlan(c) /\ c.scope # s
      BY <2>2, <3>1, <3>4 DEF Safe, InPlan
    <3> QED
      BY <2>4, <3>2, <3>3, <3>4, NoChoiceLostIsSafe DEF Safe
  <2>5. CASE c \notin chosen
    <3>1. sent[op].action \in Manual /\ c = [scope |-> s, order |-> OrderOf(op)]
      BY <1>4, <2>5 DEF Accepts
    <3> QED
      BY <2>1, <2>2, <3>1, LaterIsStrict DEF Safe, InPlan
  <2> QED
    BY <2>4, <2>5
<1> QED
  BY <1>1, <1>3, <1>4, ExecuteShape DEF Runs

LEMMA MoveSafe ==
  ASSUME RInv, NoChoiceLost, NEW u \in User, Migrate(u), MoveRow(u, member[u])
  PROVE  NoChoiceLost'
<1> PICK h \in House : h = member[u]
  BY DEF Migrate, RInv, TInv, TypeOK
<1> DEFINE n == revisions + 1
<1>1. TypeOK /\ u \in Scope /\ h \in Scope /\ h # u
  BY ScopesDistinct DEF RInv, TInv, Scope
<1>2. /\ plan[u] \in Row /\ plan[u].order \in Order /\ plan[h].order \in Order
  BY <1>1, RowTyped
<1>3. plan' = [plan EXCEPT ![h] = [plan[u] EXCEPT !.rev = n], ![u] = NoRow]
      /\ Wins(plan[u], plan[h]) /\ chosen' = Rescoped(u, h) /\ UNCHANGED conflicts
  BY DEF MoveRow
<1> HIDE DEF n
<1>4. plan'[h].order = plan[u].order /\ \A s \in Scope \ {u, h} : plan'[s] = plan[s]
  BY <1>1, <1>2, <1>3 DEF TypeOK, Row
<1>5. ASSUME NEW a \in Order, ~Later(a, plan[h].order)
      PROVE  ~Later(a, plan[u].order)
  <2>1. CASE plan[h].rev = 0
    <3>1. plan[h].order = NoOrder
      BY <1>1, <2>1 DEF RInv, RowsMade, NoRow
    <3> QED
      BY <1>2, <1>5, <3>1, NoneIsFirst, LaterIsTransitive
  <2>2. CASE plan[h].rev # 0
    BY <1>2, <1>3, <1>5, <2>2, LaterIsTransitive DEF Wins
  <2> QED
    BY <2>1, <2>2
<1> SUFFICES ASSUME NEW c \in chosen' PROVE Safe(c)'
  BY NoChoiceLostIsSafe DEF NoChoiceLost, Safe, InPlan
<1>6. PICK d \in chosen : c = IF d.scope = u /\ ~(\E g \in House : Kept(d, g))
                              THEN [d EXCEPT !.scope = h] ELSE d
  BY <1>3 DEF Rescoped
<1>7. /\ d.scope \in Scope /\ d.order \in Order /\ Safe(d)
      /\ [d EXCEPT !.scope = h].scope = h /\ [d EXCEPT !.scope = h].order = d.order
  BY <1>1, ChosenTyped, NoChoiceLostIsSafe
<1>8. CASE \E g \in House : Kept(d, g)
  BY <1>3, <1>6, <1>8 DEF Safe, Kept
<1>9. CASE ~(\E g \in House : Kept(d, g)) /\ d.scope = u
  BY <1>4, <1>6, <1>7, <1>9 DEF Safe, InPlan
<1>10. CASE ~(\E g \in House : Kept(d, g)) /\ d.scope = h
  BY <1>1, <1>4, <1>5, <1>6, <1>7, <1>10 DEF Safe, InPlan
<1>11. CASE ~(\E g \in House : Kept(d, g)) /\ d.scope \notin {u, h}
  BY <1>4, <1>6, <1>7, <1>11 DEF Safe, InPlan
<1> QED
  BY <1>8, <1>9, <1>10, <1>11

LEMMA SetAsideSafe ==
  ASSUME RInv, NoChoiceLost, NEW u \in User, Migrate(u), SetAside(u, member[u])
  PROVE  NoChoiceLost'
<1> PICK h \in House : h = member[u]
  BY DEF Migrate, RInv, TInv, TypeOK
<1>1. /\ \A s \in Scope \ {u} : plan'[s] = plan[s]
      /\ UNCHANGED chosen /\ conflicts' = conflicts \cup Staged(u, h)
  BY SetAsideStages DEF SetAside, RInv, TInv, TypeOK
<1>2. \A c, g : Kept(c, g) => Kept(c, g)'
  BY <1>1 DEF Kept
<1>3. ASSUME NEW c \in chosen, c.scope = u, InPlan(c)
      PROVE  Kept(c, h)'
  <2> DEFINE k == [house |-> h, user |-> u, source |-> plan[u], target |-> plan[h].rev, by |-> 0]
  <2>1. k \in conflicts'
    BY <1>1 DEF Staged
  <2>2. k.house = h /\ k.user = u /\ k.source = plan[u]
    OBVIOUS
  <2> HIDE DEF k
  <2> QED
    BY <1>3, <2>1, <2>2 DEF Kept, InPlan
<1>4. \A c \in chosen : c.scope \in Scope /\ Safe(c)
  BY ChosenTyped, NoChoiceLostIsSafe DEF RInv, TInv
<1> SUFFICES ASSUME NEW c \in chosen PROVE Safe(c)'
  BY <1>1, NoChoiceLostIsSafe DEF NoChoiceLost, Safe, InPlan
<1> QED
  BY <1>1, <1>2, <1>3, <1>4 DEF Safe, InPlan

LEMMA LeaveSafe ==
  ASSUME RInv, NoChoiceLost, NEW u \in User, Leave(u)
  PROVE  NoChoiceLost'
<1> PICK h \in House : h = member[u]
  BY DEF Leave, RInv, TInv, TypeOK
<1>1. CASE UNCHANGED <<plan, conflicts, chosen>>
  BY <1>1 DEF NoChoiceLost, Kept
<1>2. CASE /\ plan' = [plan EXCEPT ![h] = NoRow]
           /\ conflicts' = {k \in conflicts : k.house # h}
           /\ chosen' = {c \in chosen : c.scope # h /\ ~Kept(c, h)}
  <2>1. \A s \in Scope \ {h} : plan'[s] = plan[s]
    BY <1>2 DEF RInv, TInv, TypeOK
  <2> SUFFICES ASSUME NEW c \in chosen' PROVE Safe(c)'
    BY NoChoiceLostIsSafe DEF NoChoiceLost, Safe, InPlan
  <2>2. c \in chosen /\ c.scope # h /\ ~Kept(c, h)
    BY <1>2
  <2>3. c.scope \in Scope /\ Safe(c)
    BY <2>2, ChosenTyped, NoChoiceLostIsSafe DEF RInv, TInv
  <2>4. \A g \in House : Kept(c, g) => Kept(c, g)'
    BY <1>2, <2>2 DEF Kept
  <2> QED
    BY <2>1, <2>2, <2>3, <2>4 DEF Safe, InPlan
<1> QED
  BY <1>1, <1>2 DEF Leave

LEMMA ChoicesNext ==
  ASSUME RInv, NoChoiceLost, [Next]_vars
  PROVE  NoChoiceLost'
<1>1. UNCHANGED <<plan, conflicts, chosen>> => NoChoiceLost'
  BY DEF NoChoiceLost, Kept
<1>2. ASSUME NEW op \in Op, Apply(op) \/ Import(op) \/ Resolve(op) PROVE NoChoiceLost'
  BY <1>2, CommandRuns, RunsSafe DEF RInv, TInv
<1>3. ASSUME NEW u \in User, Choose(u) \/ Heal(u) PROVE NoChoiceLost'
  BY <1>1, <1>3, ChoiceTyped DEF RInv, TInv, Make
<1>4. ASSUME NEW u \in User, Migrate(u) PROVE NoChoiceLost'
  BY <1>4, MoveSafe, SetAsideSafe DEF Migrate
<1> QED
  BY <1>1, <1>2, <1>3, <1>4, LeaveSafe DEF Next, vars, Tick, Join

(* A choice by hand that was applied is never dropped (decidePlanCommand,  *)
(* migrateUserMealPlanToHouse).                                            *)
THEOREM NoChoiceLostHolds == Spec => []NoChoiceLost
<1>1. Init => NoChoiceLost
  BY DEF Init, NoChoiceLost
<1> QED
  BY <1>1, ChoicesNext, RefusalsInit, RefusalsNext, PTL DEF Spec

-----------------------------------------------------------------------------
(* A conflict is marked with a command that was applied.                   *)
Marked == \A k \in conflicts : k.by # 0 => receipts[k.house][k.by].outcome = "applied"

HInv == Marked /\ HealsAreMarked

LEMMA ConflictTyped ==
  ASSUME TypeOK, NEW k \in conflicts
  PROVE  k.house \in House /\ k.house \in Scope /\ (k.by # 0 => k.by \in Op) /\ k \in Conflict
BY DEF TypeOK, Conflict, Scope

(* An answer is given once: what was applied was not just answered.        *)
LEMMA AnswersOnce ==
  ASSUME TypeOK, NEW op \in Op, NEW s \in Scope, NEW a, Answers(op, s, a)
  PROVE  /\ \A z \in Scope, o \in Op :
              receipts[z][o].outcome = "applied" => receipts'[z][o] = receipts[z][o]
         /\ \A z \in Scope, o \in Op : o # op => receipts'[z][o] = receipts[z][o]
BY DEF Answers, NoReceipt

LEMMA RunsMarks ==
  ASSUME RInv, HInv, NEW op \in Op, NEW s \in Scope, Runs(op, s)
  PROVE  HInv'
<1>1. TypeOK /\ HealsInHouse /\ op \in DOMAIN sent /\ UNCHANGED <<sent, gone>>
  BY DEF RInv, TInv, Runs
<1>2. \A o \in DOMAIN sent : o \in Op /\ o # 0 /\ sent[o].scope \in Scope
  BY <1>1, SentTyped DEF Command, Op
<1>3. /\ \A z \in Scope, o \in Op :
           receipts[z][o].outcome = "applied" => receipts'[z][o] = receipts[z][o]
      /\ \A z \in Scope, o \in Op : o # op => receipts'[z][o] = receipts[z][o]
  BY <1>1, ExecuteShape, AnswersOnce DEF Runs, Repeats, Refuses, Accepts
<1>4. \A k \in conflicts : k.by # 0 => receipts'[k.house][k.by].outcome = "applied"
  BY <1>1, <1>3, ConflictTyped DEF HInv, Marked
<1>5. CASE Ordinary(op)
  <2>1. Marked'
    BY <1>4, <1>5 DEF Ordinary, Marked
  <2>2. HealsAreMarked'
    BY <1>1, <1>2, <1>3, <1>5 DEF Ordinary, HInv, HealsAreMarked, Healed
  <2> QED
    BY <2>1, <2>2 DEF HInv
<1>6. CASE Healing(op, s)
  <2>1. PICK k \in Pending(op) : conflicts' = Resolved(op, k)
    BY <1>6 DEF Healing
  <2>2. /\ k \in conflicts /\ k \in Conflict /\ k.house = s /\ s = sent[op].scope
        /\ k.source.rev = sent[op].heals /\ k.by = 0
    BY <1>1, <1>6, <2>1, ConflictTyped DEF Healing, Pending
  <2>3. CASE Accepts(op, s)
    <3> DEFINE marked == [k EXCEPT !.by = op]
    <3>1. /\ conflicts' = (conflicts \ {k}) \cup {marked}
          /\ receipts'[s][op].outcome = "applied"
      BY <2>1, <2>2, <2>3 DEF Accepts, Answers, Resolved
    <3>2. marked.house = s /\ marked.by = op /\ marked.source = k.source
      BY <2>2 DEF Conflict
    <3> HIDE DEF marked
    <3>3. Marked'
      BY <1>4, <3>1, <3>2 DEF Marked
    <3>4. ASSUME NEW o \in DOMAIN sent, o # op, Healed(o)
          PROVE  Healed(o)'
      BY <1>1, <1>2, <2>2, <3>1, <3>4 DEF Healed
    <3>5. Healed(op)'
      BY <1>1, <2>2, <3>1, <3>2 DEF Healed
    <3>6. HealsAreMarked'
      BY <1>1, <1>2, <1>3, <3>4, <3>5 DEF HInv, HealsAreMarked
    <3> QED
      BY <3>3, <3>6 DEF HInv
  <2>4. CASE ~Accepts(op, s)
    <3>1. (Repeats /\ receipts[s][op] # NoReceipt) \/ Refuses(op, s)
      BY <1>1, <2>4, ExecuteShape DEF Runs
    <3>2. conflicts' = conflicts
      BY <2>1, <2>2, <3>1 DEF Resolved, Refuses
    <3>3. receipts'[s][op].outcome = "applied" => receipts'[s][op] = receipts[s][op]
      BY <3>1 DEF Repeats, Refuses, Answers
    <3>4. Marked'
      BY <1>4, <3>2 DEF Marked
    <3>5. HealsAreMarked'
      BY <1>1, <1>2, <1>3, <2>2, <3>2, <3>3 DEF HInv, HealsAreMarked, Healed
    <3> QED
      BY <3>4, <3>5 DEF HInv
  <2> QED
    BY <2>3, <2>4
<1> QED
  BY <1>5, <1>6 DEF Runs

LEMMA MarksNext ==
  ASSUME RInv, HInv, [Next]_vars
  PROVE  HInv'
<1>1. TypeOK /\ HealsInHouse
  BY DEF RInv, TInv
<1>2. UNCHANGED <<sent, gone, receipts, conflicts>> => HInv'
  BY DEF HInv, Marked, HealsAreMarked, Healed
<1>3. ASSUME NEW op \in Op, Apply(op) \/ Import(op) \/ Resolve(op) PROVE HInv'
  BY <1>1, <1>3, CommandRuns, RunsMarks
<1>4. ASSUME NEW u \in User, Choose(u) \/ Heal(u) PROVE HInv'
  <2>1. PICK c \in Command : Make(c)
    BY <1>1, <1>4, ChoiceTyped
  <2> DEFINE new == Len(sent) + 1
  <2>2. /\ DOMAIN sent' = DOMAIN sent \cup {new} /\ new \notin DOMAIN sent /\ new \in Op
        /\ \A op \in DOMAIN sent : sent'[op] = sent[op]
        /\ sent'[new] = c /\ c.scope \in Scope
    BY <1>1, <2>1, MakeAppends DEF Command
  <2>3. UNCHANGED <<gone, receipts, conflicts>>
    BY <2>1 DEF Make
  <2> HIDE DEF new
  <2>4. receipts[c.scope][new] = NoReceipt
    BY <2>2 DEF RInv, SentIsAnswered
  <2>5. \A op \in DOMAIN sent : Healed(op) => Healed(op)'
    BY <2>2, <2>3 DEF Healed
  <2>6. HealsAreMarked'
    BY <2>2, <2>3, <2>4, <2>5 DEF HInv, HealsAreMarked, NoReceipt
  <2> QED
    BY <2>3, <2>6 DEF HInv, Marked
<1>5. ASSUME NEW u \in User, Migrate(u) PROVE HInv'
  <2>1. /\ UNCHANGED <<sent, gone, receipts>> /\ conflicts \subseteq conflicts'
        /\ \A k \in conflicts' : k \in conflicts \/ k.by = 0
    BY <1>5, SetAsideStages DEF Migrate, MoveRow, Staged
  <2> QED
    BY <2>1 DEF HInv, Marked, HealsAreMarked, Healed
<1>6. ASSUME NEW u \in User, Leave(u) PROVE HInv'
  <2> PICK h \in House : h = member[u]
    BY <1>1, <1>6 DEF Leave, TypeOK
  <2>1. CASE UNCHANGED <<gone, receipts, conflicts>>
    BY <1>2, <1>6, <2>1 DEF Leave
  <2>2. CASE /\ gone' = gone \cup {h} /\ conflicts' = {k \in conflicts : k.house # h}
             /\ receipts' = [receipts EXCEPT ![h] = [op \in Op |-> NoReceipt]]
    <3>1. \A s \in Scope \ {h} : receipts'[s] = receipts[s]
      BY <1>1, <2>2 DEF TypeOK
    <3>2. Marked'
      BY <1>1, <2>2, <3>1, ConflictTyped DEF HInv, Marked
    <3>3. \A op \in DOMAIN sent : sent[op].scope \in Scope
      BY <1>1, SentTyped DEF Command
    <3>4. UNCHANGED sent
      BY <1>6 DEF Leave
    <3>5. HealsAreMarked'
      BY <2>2, <3>1, <3>3, <3>4 DEF HInv, HealsAreMarked, Healed
    <3> QED
      BY <3>2, <3>5 DEF HInv
  <2> QED
    BY <1>6, <2>1, <2>2 DEF Leave
<1> QED
  BY <1>2, <1>3, <1>4, <1>5, <1>6 DEF Next, vars, Tick, Join

(* A conflict is resolved by the one command it is marked with             *)
(* (resolveMealPlanRecovery).                                              *)
THEOREM ResolvedByItsChoiceHolds == Spec => []ResolvedByItsChoice
<1>1. Init => HInv
  <2> SUFFICES ASSUME Init PROVE HInv
    OBVIOUS
  <2>1. DOMAIN sent = {} /\ conflicts = {}
    BY DEF Init
  <2> QED
    BY <2>1 DEF HInv, Marked, HealsAreMarked
<1>2. HInv => ResolvedByItsChoice
  BY DEF HInv, Marked, HealsAreMarked, Healed, ResolvedByItsChoice
<1> QED
  BY <1>1, <1>2, MarksNext, RefusalsInit, RefusalsNext, PTL DEF Spec
=============================================================================
