----------------------------- MODULE MCMealPlan -----------------------------
(* Instances of MealPlan for TLC.                                          *)
EXTENDS MealPlan, TLC

Symmetric == Permutations(User) \cup Permutations(House)
=============================================================================
