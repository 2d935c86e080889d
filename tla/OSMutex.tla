-------------------------------- MODULE OSMutex --------------------------------
(* The mutex calls of uC/OS-II (os_mutex.c): OSEventCnt holds the priority    *)
(* inheritance priority pip in its upper byte, a parameter here, and in its   *)
(* lower byte, Cnt, the priority the owner had when it took the mutex, or     *)
(* OS_MUTEX_AVAILABLE; Ptr is the owner.                                      *)
EXTENDS OSCore

CONSTANT OS_MUTEX_AVAILABLE     \* 255 in the code

ASSUME MutexAssumption == OS_MUTEX_AVAILABLE \in Nat \ Prios

\* pip must be free in OSTCBPrioTbl, where it is then reserved.
OSMutexCreated == [Cnt |-> OS_MUTEX_AVAILABLE, Ptr |-> None, Tbl |-> {}]
OSMutexCreate(k, e, pip) ==
    IF k.PrioTbl[pip] # None THEN k
    ELSE [k EXCEPT !.PrioTbl[pip] = Reserved, !.ev[e] = OSMutexCreated]

Available(k, e) == k.ev[e].Cnt = OS_MUTEX_AVAILABLE

TakeMutex(k, e) == [k EXCEPT !.ev[e].Cnt = k.tcb[k.Cur].Prio, !.ev[e].Ptr = k.Cur]

\* Mutant: only an owner that is ready is raised.
PromoteReady(k, o, pip) ==
    LET old == k.tcb[o].Prio
    IN  IF old \in k.Rdy
        THEN [k EXCEPT !.tcb[o].Prio = pip, !.PrioTbl[pip] = o, !.Rdy = (@ \ {old}) \cup {pip}]
        ELSE k

\* The owner o is raised to pip: its bit moves in the ready table if it is
\* there, else in the wait list of the event it is in a pend on.
Promote(k, o, pip) ==
    LET old == k.tcb[o].Prio
        e2  == k.tcb[o].EventPtr
        k1  == [k EXCEPT !.tcb[o].Prio = pip, !.PrioTbl[pip] = o]
    IN  IF old \in k.Rdy THEN [k1 EXCEPT !.Rdy = (@ \ {old}) \cup {pip}]
        ELSE IF e2 # None THEN [k1 EXCEPT !.ev[e2].Tbl = (@ \ {old}) \cup {pip}]
        ELSE k1

\* The running task takes the mutex, or raises its owner if that is less
\* urgent, and sleeps.
OSMutexPend(k, e, pip, timeout) ==
    LET o == k.ev[e].Ptr
    IN  IF Available(k, e) THEN TakeMutex(k, e)
        ELSE IF k.tcb[o].Prio > pip /\ k.ev[e].Cnt > k.tcb[k.Cur].Prio
             THEN Sleep(Promote(k, o, pip), e, "MUTEX", timeout)
             ELSE Sleep(k, e, "MUTEX", timeout)

OSMutexAccept(k, e) == IF Available(k, e) THEN TakeMutex(k, e) ELSE k

\* OSMutex_RdyAtPrio: the running task is put back to priority prio.
OSMutex_RdyAtPrio(k, prio) ==
    Ready([NotReady(k, k.Cur) EXCEPT !.tcb[k.Cur].Prio = prio, !.PrioCur = prio,
                                     !.PrioTbl[prio] = k.Cur], k.Cur)

\* Refused to all but the owner. The most urgent waiter becomes the owner;
\* with no waiter there is no call of OS_Sched().
OSMutexPost(k, e, pip) ==
    LET c  == k.Cur
        k1 == IF k.tcb[c].Prio = pip THEN OSMutex_RdyAtPrio(k, k.ev[e].Cnt) ELSE k
        k2 == [k1 EXCEPT !.PrioTbl[pip] = Reserved]
        p  == Highest(k2.ev[e].Tbl)
    IN  IF k.ev[e].Ptr # c THEN k
        ELSE IF k2.ev[e].Tbl = {}
             THEN [k2 EXCEPT !.ev[e].Cnt = OS_MUTEX_AVAILABLE, !.ev[e].Ptr = None]
             ELSE OS_Sched([OS_EventTaskRdy(k2, e, None, "MUTEX", "OK")
                               EXCEPT !.ev[e].Cnt = p, !.ev[e].Ptr = k2.PrioTbl[p]])
================================================================================
