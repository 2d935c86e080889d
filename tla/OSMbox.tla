--------------------------------- MODULE OSMbox ---------------------------------
(* The mailbox calls of uC/OS-II (os_mbox.c): an event control block whose   *)
(* Ptr is the one message it holds, or None.                                 *)
EXTENDS OSCore

OSMboxCreate(pmsg) == [Cnt |-> 0, Ptr |-> pmsg, Tbl |-> {}]

\* The message there is, taken at once, or None; the state after is TakeMbox.
OSMboxAccept(k, e) == k.ev[e].Ptr
TakeMbox(k, e) == [k EXCEPT !.ev[e].Ptr = None]

\* The task keeps running with the message Ptr, or sleeps.
OSMboxPend(k, e, timeout) ==
    IF k.ev[e].Ptr # None THEN TakeMbox(k, e) ELSE Sleep(k, e, "MBOX", timeout)

\* What the pend returns to the running task once it runs again.
MboxReturns(k) ==
    IF k.tcb[k.Cur].StatPend = "OK" THEN k.tcb[k.Cur].Msg ELSE None

\* A message goes to the first waiter, else into the box, else it is refused.
MboxFull(k, e) == k.ev[e].Tbl = {} /\ k.ev[e].Ptr # None

\* Mutant: a message goes to the box while there is room, waiters or not.
OSMboxPostBoxFirst(k, e, pmsg) ==
    IF k.ev[e].Ptr = None THEN [k EXCEPT !.ev[e].Ptr = pmsg]
    ELSE IF MboxFull(k, e) THEN k
    ELSE OS_Sched(OS_EventTaskRdy(k, e, pmsg, "MBOX", "OK"))

OSMboxPost(k, e, pmsg) ==
    IF k.ev[e].Tbl # {} THEN OS_Sched(OS_EventTaskRdy(k, e, pmsg, "MBOX", "OK"))
    ELSE IF MboxFull(k, e) THEN k
    ELSE [k EXCEPT !.ev[e].Ptr = pmsg]

\* OSMboxPendAbort(pevent, OS_PEND_OPT_NONE): the first waiter only.
OSMboxPendAbort(k, e) ==
    IF k.ev[e].Tbl # {} THEN OS_Sched(OS_EventTaskRdy(k, e, None, "MBOX", "ABORT")) ELSE k
================================================================================
