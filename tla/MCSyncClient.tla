---------------------------- MODULE MCSyncClient ----------------------------
(* Instances of SyncClient for TLC.                                        *)
EXTENDS SyncClient, TLC

CONSTANTS milk, rice      \* items

(* The device that edits has its clock ahead of the other one.             *)
OneAhead     == (1 :> 1) @@ (2 :> 0)
InTime       == (1 :> 0) @@ (2 :> 0)

NoFaults     == (1 :> 0) @@ (2 :> 0)
WriterFaults == (1 :> 1) @@ (2 :> 0)
=============================================================================
