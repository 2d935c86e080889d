-------------------------------- MODULE Delivery --------------------------------
(* What a mailbox promises, whatever tasks, interrupts and time-outs do:     *)
(* a message accepted by a post is due until one call returns it, and no     *)
(* call returns a message that is not due.                                   *)
CONSTANTS Message, Nothing

VARIABLES
    due,        \* messages accepted and not yet returned
    got         \* what the last step returned to a task, or Nothing

dvars == <<due, got>>

DInit == due = {} /\ got = Nothing

DPost(m) == m \notin due /\ due' = due \cup {m} /\ got' = Nothing
DTake(m) == m \in due /\ due' = due \ {m} /\ got' = m
DOther == due' = due /\ got' = Nothing

DNext == DOther \/ \E m \in Message : DPost(m) \/ DTake(m)

DSpec == DInit /\ [][DNext]_dvars
================================================================================
