----------------------------- MODULE MCChatTurns -----------------------------
(* Small instances of ChatTurns for TLC. *)
EXTENDS ChatTurns

CONSTANTS m1, m2, m3

OneContext == [m \in Msgs |-> 0]

\* Two senders share the session; m1 and m2 are of the same one.
TwoContexts == [m \in Msgs |-> IF m = m3 THEN 1 ELSE 0]
=============================================================================
