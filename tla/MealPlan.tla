------------------------------ MODULE MealPlan ------------------------------
(***************************************************************************)
(* The shared meal plan on the server, for one civil date: every table is  *)
(* keyed by the date, no statement looks at two of them, and the migration *)
(* takes the dates of an account one after the other.                      *)
(*                                                                         *)
(* A command is one transaction under the advisory lock of its scope, and  *)
(* so is a migration or the resolution of a conflict: each is one action.  *)
(* What is interleaved are the requests.  A command may arrive late, twice *)
(* or never, under the scope it was made for or, after its user has joined *)
(* a house, as an import into the house; and rows, receipts and conflicts  *)
(* of two scopes have to tell one story whatever the order.                *)
(***************************************************************************)
EXTENDS Naturals, Sequences

CONSTANTS
  User, House,      \* also the scopes: the account of a user, a house
  NoHouse,
  MaxOps,           \* bound on the commands the devices make
  MaxTime,          \* bound on the clocks of server and devices
  Skew              \* how far the clock of a device may be ahead

ASSUME ScopesDistinct == User \cap House = {} /\ NoHouse \notin User \cup House
ASSUME BoundsTyped    == MaxOps \in Nat /\ MaxTime \in Nat \ {0} /\ Skew \in Nat

VARIABLES
  now,         \* the clock of the server
  member,      \* house_memberships
  gone,        \* the houses that have been deleted
  revisions,   \* the number of revisions given out
  sent,        \* the commands made so far; the index is the operation id
  plan,        \* meal_plan_states and its projection in sync_items, by scope
  receipts,    \* meal_plan_receipts, by scope and operation id
  conflicts,   \* meal_plan_migration_conflicts
  quarantined, \* meal_plan_migration_quarantines: the source accounts
  chosen       \* history: the manual choices that were answered "applied"

vars == <<now, member, gone, revisions, sent, plan, receipts, conflicts,
          quarantined, chosen>>

Scope  == User \cup House
Op     == 1 .. MaxOps
Manual == {"manual_set", "manual_delete"}
Action == Manual \cup {"auto_create", "explicit_regenerate"}

(* ManualPlanOrder: client time, server time, and for the pair of device   *)
(* and operation id that breaks a tie, the operation.  It is zero while    *)
(* nobody has chosen by hand.                                              *)
Order   == (0 .. MaxTime) \X (0 .. MaxTime) \X (0 .. MaxOps)
NoOrder == <<0, 0, 0>>

(* A revision and a server sequence are drawn together, and are one number *)
(* here; 0 is the row that does not exist.  `by` is the mutation id of the *)
(* projection: the operation that made the row.                            *)
Kind  == {"none", "automatic", "manual", "deleted"}
Row   == [rev : Nat, kind : Kind, order : Order, by : Op \cup {0}]
NoRow == [rev |-> 0, kind |-> "none", order |-> NoOrder, by |-> 0]

(* `base` is the revision a command expects, 0 for none; `heals` is the    *)
(* source revision of the conflict that the command resolves, or 0.        *)
Command == [owner : User, scope : Scope, action : Action, at : 1 .. MaxTime,
            base : Nat, heals : Nat]
Outcome == {"none", "applied", "conflict"}
Receipt == [outcome : Outcome, current : Row]
NoReceipt == [outcome |-> "none", current |-> NoRow]

(* `source` is the row that lost, `target` the revision it lost to, `by`   *)
(* the operation that resolved the conflict, or 0 while it is pending.     *)
Conflict == [house : House, user : User, source : Row, target : Nat, by : Op \cup {0}]

TypeOK ==
  /\ now \in 1 .. MaxTime /\ revisions \in Nat
  /\ member \in [User -> House \cup {NoHouse}] /\ gone \subseteq House
  /\ sent \in Seq(Command) /\ Len(sent) <= MaxOps
  /\ plan \in [Scope -> Row] /\ receipts \in [Scope -> [Op -> Receipt]]
  /\ conflicts \subseteq Conflict /\ quarantined \subseteq User
  /\ chosen \subseteq [scope : Scope, order : Order]

(* Every house has just been founded, by one user.                         *)
Init ==
  /\ now = 1 /\ revisions = 0
  /\ member \in [User -> House \cup {NoHouse}] /\ gone = {}
  /\ \A h \in House : \E u \in User : {v \in User : member[v] = h} = {u}
  /\ sent = <<>>
  /\ plan = [s \in Scope |-> NoRow]
  /\ receipts = [s \in Scope |-> [op \in Op |-> NoReceipt]]
  /\ conflicts = {} /\ quarantined = {} /\ chosen = {}

-----------------------------------------------------------------------------
(* compareManualPlanOrders(a, b) > 0.                                      *)
Later(a, b) ==
  \/ a[1] > b[1]
  \/ a[1] = b[1] /\ a[2] > b[2]
  \/ a[1] = b[1] /\ a[2] = b[2] /\ a[3] > b[3]

(* A time that is too far ahead of the server becomes that of the server.  *)
Normalized(at) == IF at > now + Skew THEN now ELSE at

OrderOf(op) == <<Normalized(sent[op].at), now, op>>

(* decidePlanCommand.                                                      *)
Applies(op, row) ==
  CASE sent[op].action \in Manual               -> Later(OrderOf(op), row.order)
    [] sent[op].action = "auto_create"          -> row.rev = 0
    [] sent[op].action = "explicit_regenerate"  -> row.kind = "deleted" /\ row.rev = sent[op].base

(* The row an applied command writes: an automatic one keeps the order of  *)
(* the last choice by hand.                                                *)
Written(op, row) ==
  [rev   |-> revisions + 1,
   kind  |-> CASE sent[op].action = "manual_set"    -> "manual"
               [] sent[op].action = "manual_delete" -> "deleted"
               [] OTHER                             -> "automatic",
   order |-> IF sent[op].action \in Manual THEN OrderOf(op) ELSE row.order,
   by    |-> op]

(* Mutant: the receipt shows the row the command found.                     *)
AnswerOfBefore(op, row) ==
  [outcome |-> IF Applies(op, row) THEN "applied" ELSE "conflict", current |-> row]

(* The receipt: the row after the command, or the one it lost to.          *)
Answer(op, row) ==
  IF Applies(op, row) THEN [outcome |-> "applied", current |-> Written(op, row)]
                      ELSE [outcome |-> "conflict", current |-> row]

(* runDrizzleMealPlanCommand, after the scope is resolved: a command with  *)
(* a receipt in this scope changes nothing more; a first one writes row,   *)
(* projection and receipt.                                                 *)
Execute(op, s) ==
  LET a == Answer(op, plan[s])
      choices == {c \in chosen : c.scope # s \/ sent[op].action # "explicit_regenerate"}
      choice  == IF sent[op].action \in Manual THEN {[scope |-> s, order |-> OrderOf(op)]}
                                               ELSE {}
  IN IF receipts[s][op] # NoReceipt
     THEN UNCHANGED <<plan, revisions, receipts, chosen>>
     ELSE /\ receipts' = [receipts EXCEPT ![s][op] = a]
          /\ IF a.outcome = "applied"
             THEN /\ plan' = [plan EXCEPT ![s] = Written(op, plan[s])]
                  /\ revisions' = revisions + 1
                  /\ chosen' = choices \cup choice
             ELSE UNCHANGED <<plan, revisions, chosen>>

(* resolveMealPlanScopeInTransaction.                                      *)
MayUse(u, s) == \/ s = u /\ member[u] = NoHouse
                \/ s \in House /\ member[u] = s

-----------------------------------------------------------------------------
Make(c) ==
  /\ Len(sent) < MaxOps /\ sent' = Append(sent, c)
  /\ UNCHANGED <<now, member, gone, revisions, plan, receipts, conflicts, quarantined, chosen>>

(* A device makes a command for the scope it is in.  Its clock may be      *)
(* ahead; an older command is one that arrives late.  The time of a        *)
(* proposal is never looked at.  A regeneration is offered on a row that   *)
(* has been deleted.                                                       *)
Choose(u) ==
  LET s == IF member[u] = NoHouse THEN u ELSE member[u] IN
  \E action \in Action, at \in now .. MaxTime :
    /\ action \notin Manual => at = now
    /\ action = "explicit_regenerate" => plan[s].kind = "deleted"
    /\ Make([owner |-> u, scope |-> s, action |-> action, at |-> at, heals |-> 0,
             base |-> IF action = "explicit_regenerate" THEN plan[s].rev ELSE 0])

(* resolveRecoveryConflict of the page: the user chooses the row that lost *)
(* once more, against the revision it had lost to.                         *)
Heal(u) ==
  \E k \in conflicts, at \in 1 .. MaxTime :
    /\ k.house = member[u] /\ k.by = 0 /\ k.source.kind = "manual"
    /\ Make([owner |-> u, scope |-> k.house, action |-> "manual_set", at |-> at,
             base |-> k.target, heals |-> k.source.rev])

(* applyMealPlanCommand, for the first time or again.                      *)
Apply(op) ==
  /\ op \in DOMAIN sent /\ sent[op].heals = 0
  /\ MayUse(sent[op].owner, sent[op].scope)
  /\ Execute(op, sent[op].scope)
  /\ UNCHANGED <<now, member, gone, sent, conflicts, quarantined>>

(* importPendingAccountMealPlan and importMealPlanCommand: a command of    *)
(* the account that has no answer yet is sent again with the scope of the  *)
(* house.                                                                  *)
Import(op) ==
  /\ op \in DOMAIN sent /\ sent[op].scope \in User
  /\ member[sent[op].owner] # NoHouse
  /\ Execute(op, member[sent[op].owner])
  /\ UNCHANGED <<now, member, gone, sent, conflicts, quarantined>>

-----------------------------------------------------------------------------
(* The receipt that shows that a command made an automatic row.            *)
Verified(u) ==
  LET row == plan[u] IN
  /\ receipts[u][row.by] = [outcome |-> "applied", current |-> row]
  /\ sent[row.by].action \in {"auto_create", "explicit_regenerate"}

(* Mutant: the row of the account always moves.                             *)
WinsAlways(row, target) == TRUE

Wins(row, target) ==
  \/ target.rev = 0
  \/ row.kind \in {"manual", "deleted"} /\ Later(row.order, target.order)

(* Mutant: only automatic rows that lose are kept as conflicts.             *)
StagedIfAutomatic(u, h) ==
  IF plan[u].kind # "automatic" THEN {}
  ELSE {[house |-> h, user |-> u, source |-> plan[u], target |-> plan[h].rev, by |-> 0]}

Staged(u, h) ==
  {[house |-> h, user |-> u, source |-> plan[u], target |-> plan[h].rev, by |-> 0]}

(* The house keeps the choice, or a later one of the account, as a conflict. *)
Kept(c, h) == \E k \in conflicts : /\ k.house = h /\ k.user = c.scope
                                    /\ ~Later(c.order, k.source.order)

(* The choices that were applied in the account move with its row; those   *)
(* that a house keeps as a conflict stay where they were made.             *)
Rescoped(u, h) ==
  {IF c.scope = u /\ ~(\E g \in House : Kept(c, g)) THEN [c EXCEPT !.scope = h] ELSE c
     : c \in chosen}

(* The row of the account becomes that of the house, at a revision of its  *)
(* own and with the order it had.                                          *)
MoveRow(u, h) ==
  /\ Wins(plan[u], plan[h])
  /\ plan' = [plan EXCEPT ![h] = [plan[u] EXCEPT !.rev = revisions + 1], ![u] = NoRow]
  /\ revisions' = revisions + 1
  /\ chosen' = Rescoped(u, h)
  /\ UNCHANGED <<conflicts, quarantined>>

(* A row that loses leaves the account as a conflict, or, if no receipt    *)
(* shows where an automatic one came from, into quarantine.                *)
SetAside(u, h) ==
  /\ ~Wins(plan[u], plan[h])
  /\ plan' = [plan EXCEPT ![u] = NoRow]
  /\ IF plan[u].kind = "automatic" /\ ~Verified(u)
     THEN quarantined' = quarantined \cup {u} /\ UNCHANGED conflicts
     ELSE conflicts' = conflicts \cup Staged(u, h) /\ UNCHANGED quarantined
  /\ UNCHANGED <<revisions, chosen>>

(* migrateUserMealPlanToHouse.                                             *)
Migrate(u) ==
  /\ member[u] # NoHouse /\ plan[u].rev # 0
  /\ MoveRow(u, member[u]) \/ SetAside(u, member[u])
  /\ UNCHANGED <<now, member, gone, sent, receipts>>

Pending(op) == {k \in conflicts : /\ k.house = sent[op].scope
                                  /\ k.source.rev = sent[op].heals /\ k.by = 0}

(* Mutant: a conflict is resolved by a command that loses.                  *)
ResolvedAnyway(op, k) == (conflicts \ {k}) \cup {[k EXCEPT !.by = op]}

Resolved(op, k) ==
  IF receipts[k.house][op] # NoReceipt \/ ~Applies(op, plan[k.house])
  THEN conflicts
  ELSE (conflicts \ {k}) \cup {[k EXCEPT !.by = op]}

(* resolveMealPlanRecovery, for the first time: the command is run in the  *)
(* transaction that marks the conflict, if the row is still the expected   *)
(* one.  A repeated request finds the digest and changes nothing.          *)
Resolve(op) ==
  /\ op \in DOMAIN sent /\ sent[op].heals # 0
  /\ MayUse(sent[op].owner, sent[op].scope)
  /\ \E k \in Pending(op) :
       /\ plan[k.house].rev = sent[op].base
       /\ Execute(op, k.house)
       /\ conflicts' = Resolved(op, k)
  /\ UNCHANGED <<now, member, gone, sent, quarantined>>

-----------------------------------------------------------------------------
Tick == /\ now < MaxTime /\ now' = now + 1
        /\ UNCHANGED <<member, gone, revisions, sent, plan, receipts, conflicts,
                       quarantined, chosen>>

(* Joining takes longer than a tick of the clock.                          *)
Join(u, h) ==
  /\ member[u] = NoHouse /\ h \notin gone
  /\ now < MaxTime /\ now' = now + 1
  /\ member' = [member EXCEPT ![u] = h]
  /\ UNCHANGED <<gone, revisions, sent, plan, receipts, conflicts, quarantined, chosen>>

(* Leaving.  With its last member a house loses all its rows, by foreign   *)
(* keys.                                                                   *)
Leave(u) ==
  LET h == member[u] IN
  /\ h # NoHouse
  /\ member' = [member EXCEPT ![u] = NoHouse]
  /\ IF \E v \in User \ {u} : member[v] = h
     THEN UNCHANGED <<gone, plan, receipts, conflicts, quarantined, chosen>>
     ELSE /\ gone' = gone \cup {h}
          /\ plan' = [plan EXCEPT ![h] = NoRow]
          /\ receipts' = [receipts EXCEPT ![h] = [op \in Op |-> NoReceipt]]
          /\ conflicts' = {k \in conflicts : k.house # h}
          /\ chosen' = {c \in chosen : c.scope # h /\ ~Kept(c, h)}
          /\ UNCHANGED quarantined
  /\ UNCHANGED <<now, revisions, sent>>

Next ==
  \/ Tick
  \/ \E op \in Op : Apply(op) \/ Import(op) \/ Resolve(op)
  \/ \E u \in User : Choose(u) \/ Heal(u) \/ Migrate(u) \/ Leave(u) \/ \E h \in House : Join(u, h)

Spec == Init /\ [][Next]_vars

-----------------------------------------------------------------------------
(* Properties.                                                             *)

(* A choice by hand that was answered "applied" is never dropped: until    *)
(* its user asks for a new proposal, its scope shows it or a choice made   *)
(* there that is later in the order of compareManualPlanOrders; and if it  *)
(* was to move to a house and lost to a choice of somebody else, the house *)
(* keeps it as a conflict, as long as there is a house.                    *)
NoChoiceLost ==
  \A c \in chosen : \/ ~Later(c.order, plan[c.scope].order)
                    \/ \E h \in House : Kept(c, h)

(* No row that the commands of this version made ends in the quarantine,   *)
(* which nothing but the end of the house empties: the receipt of every    *)
(* automatic row of an account is there when the row loses, and shows it.  *)
NothingQuarantined == quarantined = {}

(* A manual choice that was answered "conflict" does not come back over    *)
(* the row it lost to: neither a repeated request nor a migration of the   *)
(* same choice makes it the plan of that scope again, unless it went to    *)
(* the account once more, after its user had left the house, and was       *)
(* applied there with an order that is later than that of the row.         *)
ConflictIsFinal ==
  \A s \in Scope, op \in DOMAIN sent :
    /\ receipts[s][op].outcome = "conflict" /\ sent[op].action \in Manual
    /\ plan[s].by = op
    => Later(plan[s].order, receipts[s][op].current.order)

(* A conflict is resolved by one choice, and that choice is in the plan:   *)
(* of the commands sent to resolve it, by several members or again, the    *)
(* one it is marked with was applied, and no other.                        *)
ResolvedByItsChoice ==
  /\ \A k \in conflicts : k.by # 0 => receipts[k.house][k.by].outcome = "applied"
  /\ \A op \in DOMAIN sent :
       sent[op].heals # 0 /\ sent[op].scope \notin gone
         /\ receipts[sent[op].scope][op].outcome = "applied"
         => \E k \in conflicts : k.by = op /\ k.source.rev = sent[op].heals

(* frontend/src/pages/PlanPage.tsx:967: a conflict that is shown with the  *)
(* button "Risolvi" can be resolved by it: the revision the button sends   *)
(* is the one the server expects.                                          *)
OfferCanBeTaken ==
  \A k \in conflicts : k.by = 0 /\ k.source.kind = "manual" => plan[k.house].rev = k.target
=============================================================================
