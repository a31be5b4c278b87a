--------------------------- MODULE MCPantryStorage ---------------------------
(* Two tabs of one browser.                                                *)
EXTENDS PantryStorage, TLC

CONSTANTS t1, t2

Symmetric == Permutations({t1, t2})
=============================================================================
