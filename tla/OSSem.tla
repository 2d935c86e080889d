---------------------------------- MODULE OSSem ----------------------------------
(* The semaphore calls of uC/OS-II (os_sem.c): Cnt is the count.             *)
EXTENDS OSCore

CONSTANT SemMax     \* the largest count: 65535 in the code

ASSUME SemAssumption == SemMax \in Nat

OSSemCreate(cnt) == [Cnt |-> cnt, Ptr |-> None, Tbl |-> {}]

\* The running task takes a count at once, or sleeps.
OSSemPend(k, e, timeout) ==
    IF k.ev[e].Cnt > 0 THEN [k EXCEPT !.ev[e].Cnt = @ - 1] ELSE Sleep(k, e, "SEM", timeout)

\* A count goes to the first waiter, else to the semaphore, unless it is full.
SemFull(k, e) == k.ev[e].Tbl = {} /\ k.ev[e].Cnt >= SemMax

OSSemPost(k, e) ==
    IF k.ev[e].Tbl # {} THEN OS_Sched(OS_EventTaskRdy(k, e, None, "SEM", "OK"))
    ELSE IF SemFull(k, e) THEN k
    ELSE [k EXCEPT !.ev[e].Cnt = @ + 1]

\* OSSemPendAbort(pevent, OS_PEND_OPT_NONE).
OSSemPendAbort(k, e) ==
    IF k.ev[e].Tbl # {} THEN OS_Sched(OS_EventTaskRdy(k, e, None, "SEM", "ABORT")) ELSE k

\* No change while a task waits for a count.
OSSemSet(k, e, cnt) ==
    IF k.ev[e].Cnt > 0 \/ k.ev[e].Tbl = {} THEN [k EXCEPT !.ev[e].Cnt = cnt] ELSE k
================================================================================
