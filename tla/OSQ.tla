----------------------------------- MODULE OSQ -----------------------------------
(* The queue calls of uC/OS-II (os_q.c): an event control block whose Ptr is *)
(* the OS_Q, here the messages in it, oldest first, and how many fit.        *)
EXTENDS OSCore, Sequences

OSQCreate(size) == [Cnt |-> 0, Ptr |-> [q |-> <<>>, size |-> size], Tbl |-> {}]

OSQEntries(k, e) == Len(k.ev[e].Ptr.q)
OSQFull(k, e) == OSQEntries(k, e) >= k.ev[e].Ptr.size

\* The oldest message and the queue without it.
Oldest(k, e) == Head(k.ev[e].Ptr.q)
TakeQ(k, e) == [k EXCEPT !.ev[e].Ptr.q = Tail(@)]

\* The task keeps running with the oldest message, or sleeps.
OSQPend(k, e, timeout) ==
    IF OSQEntries(k, e) > 0 THEN TakeQ(k, e) ELSE Sleep(k, e, "Q", timeout)

\* A message goes to the first waiter, else to the end of the queue, else it is
\* refused.
OSQPost(k, e, pmsg) ==
    IF k.ev[e].Tbl # {} THEN OS_Sched(OS_EventTaskRdy(k, e, pmsg, "Q", "OK"))
    ELSE IF OSQFull(k, e) THEN k
    ELSE [k EXCEPT !.ev[e].Ptr.q = Append(@, pmsg)]

\* An event control block back in the free list.
Unused == [Cnt |-> 0, Ptr |-> None, Tbl |-> {}]

\* OSQDel and OSSemDel with OS_DEL_ALWAYS, of an event no task waits for.
OSDel(k, e) == [k EXCEPT !.ev[e] = Unused]
================================================================================
