------------------------- MODULE MCDinnerConsumption -------------------------
(* One or two users, each with a device: member and housemate.             *)
EXTENDS DinnerConsumption, TLC

CONSTANTS d1, d2, u1, u2

Own == d1 :> u1 @@ d2 :> u2
Same == d1 :> u1 @@ d2 :> u1
=============================================================================
