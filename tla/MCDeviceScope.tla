---------------------------- MODULE MCDeviceScope ----------------------------
(* One browser that one or two users share.                                *)
EXTENDS DeviceScope, TLC

CONSTANTS u1, u2

Symmetric == Permutations({u1, u2})
=============================================================================
