---------------------------- MODULE MCAiDispatch ----------------------------
(* An instance of AiDispatch for TLC.                                      *)
EXTENDS AiDispatch, TLC

CONSTANTS alice,             \* a user, who makes every call
          a1, a2, g1,        \* calls: two chats and a generation
          phone              \* a device of alice

Owners  == [c \in Call |-> alice]
Devices == [d \in Device |-> alice]

(* The device switches everything off, or the chat on.                     *)
Edits == [d \in Device |-> {[enabled |-> "off", grants |-> {}, revokes |-> {}],
                            [enabled |-> "on", grants |-> {"chat"}, revokes |-> {}]}]

Symmetric == Permutations({a1, a2})
=============================================================================
