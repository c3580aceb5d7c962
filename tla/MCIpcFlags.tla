------------------------------ MODULE MCIpcFlags ------------------------------
(* IPC flags with two writers: the first sets, unsets and clears both of two   *)
(* flags, the other unsets the second one and dumps.                          *)
EXTENDS IpcFlags

CONSTANTS w1, w2

BothAndOne ==
  [w \in Writer |-> IF w = w1
                    THEN {"set", "unset", "clear"} \X {{0, 1}}
                    ELSE {"unset", "dump"} \X {{1}}]
================================================================================
