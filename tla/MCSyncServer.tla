---------------------------- MODULE MCSyncServer ----------------------------
(* Instances of SyncServer for TLC: the requests of each run.              *)
EXTENDS SyncServer, TLC

CONSTANTS alice,                          \* a user
          home, none,                     \* a house, and no house
          item, lot, dinner,              \* entities
          soup, cake,                     \* recipes
          t1, t2                          \* connections

Mutation(m, u, s, e, c, d, del, ls) ==
  [mutation |-> m, user |-> u, scope |-> s, entity |-> e, client |-> c,
   device |-> d, deleted |-> del, links |-> ls]

(* Two devices link a recipe each to one dinner of the house, and three    *)
(* devices of the account write and delete a pantry lot, one with a clock  *)
(* far ahead.                                                              *)
WriteRequests ==
  {Mutation(1, alice, home,  dinner, 1, 1, FALSE, {soup}),
   Mutation(2, alice, home,  dinner, 0, 2, FALSE, {cake}),
   Mutation(3, alice, alice, lot,    4, 1, FALSE, {}),
   Mutation(4, alice, alice, lot,    1, 2, TRUE,  {}),
   Mutation(5, alice, alice, lot,    2, 3, FALSE, {})}

(* One device of an account adds a shopping item, two link a recipe each   *)
(* to a dinner that has room for one.                                      *)
FeedRequests ==
  {Mutation(1, alice, alice, item,   0, 1, FALSE, {}),
   Mutation(2, alice, alice, dinner, 0, 1, FALSE, {soup}),
   Mutation(3, alice, alice, dinner, 1, 2, FALSE, {cake})}

(* Three writes of one dinner of the house, of which the third is stale.   *)
DinnerRequests ==
  {Mutation(1, alice, home, dinner, 1, 1, FALSE, {}),
   Mutation(2, alice, home, dinner, 1, 2, FALSE, {soup}),
   Mutation(3, alice, home, dinner, 0, 3, FALSE, {cake})}

(* Two devices of one account write the same shopping item.                *)
ConflictRequests ==
  {Mutation(1, alice, alice, item, 0, 1, FALSE, {}),
   Mutation(2, alice, alice, item, 1, 2, FALSE, {}),
   Mutation(3, alice, alice, item, 2, 1, FALSE, {})}

AliceAccount == {[user |-> alice, scope |-> alice]}
NoReaders    == {}

Symmetric == Permutations(Tx)
=============================================================================
