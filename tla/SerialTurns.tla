----------------------------- MODULE SerialTurns -----------------------------
(***************************************************************************)
(* What a chat session promises its users, without queues, drainers, locks *)
(* and tasks: the session works for one message at a time, every message   *)
(* is worked for at most once, and so is the cleanup of every aborted run. *)
(* ChatTurns is shown to implement this specification.                     *)
(***************************************************************************)

CONSTANT Msgs

VARIABLES
    status,    \* new, waiting, active (the session works for it), or closed
    cleanup    \* of the aborted run of a message: none, now, or over

vars == <<status, cleanup>>

Init ==
    /\ status = [m \in Msgs |-> "new"]
    /\ cleanup = [m \in Msgs |-> "none"]

Idle == \A m \in Msgs : status[m] # "active" /\ cleanup[m] # "now"

\* The message is put behind the one in work.
Submit(m) ==
    /\ status[m] = "new"
    /\ status' = [status EXCEPT ![m] = "waiting"]
    /\ UNCHANGED cleanup

\* The session turns to a message nobody worked for yet.
Take(m) ==
    /\ Idle
    /\ status[m] \in {"new", "waiting"}
    /\ status' = [status EXCEPT ![m] = "active"]
    /\ UNCHANGED cleanup

\* Messages are turned away, cancelled, or carried by another message.
Drop(S) ==
    /\ \A m \in S : status[m] \in {"new", "waiting"}
    /\ status' = [m \in Msgs |-> IF m \in S THEN "closed" ELSE status[m]]
    /\ UNCHANGED cleanup

\* The work for m ends; an abort call that waited for it may come next.
Close(m) ==
    /\ status[m] = "active"
    /\ status' = [status EXCEPT ![m] = "closed"]
    /\ \/ UNCHANGED cleanup
       \/ \E k \in Msgs : /\ cleanup[k] = "none"
                          /\ cleanup' = [cleanup EXCEPT ![k] = "now"]

\* An abort call finds the session idle.
Claim(k) ==
    /\ Idle
    /\ cleanup[k] = "none"
    /\ cleanup' = [cleanup EXCEPT ![k] = "now"]
    /\ UNCHANGED status

\* A cleanup ends; another abort call may have waited for it.
Settle(k) ==
    /\ cleanup[k] = "now"
    /\ \/ cleanup' = [cleanup EXCEPT ![k] = "over"]
       \/ \E j \in Msgs : /\ cleanup[j] = "none"
                          /\ cleanup' = [cleanup EXCEPT ![k] = "over", ![j] = "now"]
    /\ UNCHANGED status

Next ==
    \/ \E m \in Msgs : Submit(m) \/ Take(m) \/ Close(m) \/ Claim(m) \/ Settle(m)
    \/ \E S \in SUBSET Msgs : Drop(S)

Spec == Init /\ [][Next]_vars

=============================================================================
