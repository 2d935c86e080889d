--------------------------------- MODULE OSCore ---------------------------------
(* The state of uC/OS-II (os_core.c, os_time.c, os_task.c) and the steps of *)
(* its scheduler, as operators from kernel state to kernel state: a module   *)
(* that uses the kernel keeps it in one variable and composes the calls one  *)
(* of its steps makes.                                                       *)
(*                                                                           *)
(* A kernel state k is a record:                                             *)
(*   tcb[t]      task control block of t: Prio, Stat (the bits set in        *)
(*               OSTCBStat), StatPend, Dly, EventPtr, Msg                    *)
(*   PrioTbl[p]  OSTCBPrioTbl: the task at priority p, None or Reserved      *)
(*   Rdy         the priorities whose bit is set in OSRdyTbl                 *)
(*   ev[e]       event control block: Cnt, Ptr, and Tbl, the priorities      *)
(*               whose bit is set in OSEventTbl                              *)
(*   Cur,PrioCur OSTCBCur and OSPrioCur                                      *)
(*   IntNesting, LockNesting                                                 *)
(* OSRdyGrp and OSEventGrp summarise the tables and are read as such. A      *)
(* critical section and the OS_Sched() that follows it are one step: an      *)
(* interrupt between the two ends in OSIntExit(), which schedules as well.   *)
EXTENDS Naturals, FiniteSets

CONSTANTS
    Task,       \* the tasks, Idle among them
    Idle,       \* OS_TaskIdle
    Event,      \* the event control blocks in use
    OS_TASK_IDLE_PRIO,
    None,       \* the null pointer
    Reserved    \* OS_TCB_RESERVED, the mark of a priority kept for a mutex

ASSUME CoreAssumption ==
    /\ Idle \in Task
    /\ OS_TASK_IDLE_PRIO \in Nat
    /\ None \notin Task \cup Event /\ Reserved \notin Task /\ None # Reserved

Prios == 0 .. OS_TASK_IDLE_PRIO
PendAny == {"SEM", "MBOX", "Q", "FLAG", "MUTEX"}    \* OS_STAT_PEND_ANY
Stats == PendAny \cup {"SUSPEND"}

\* A task control block as OS_TCBInit leaves it.
NewTCB(p) == [Prio |-> p, Stat |-> {}, StatPend |-> "OK", Dly |-> 0,
              EventPtr |-> None, Msg |-> None]

\* The kernel states; Ptrs are the messages, and what else an event may point to.
TCB(Ptrs) == [Prio : Prios, Stat : SUBSET Stats, StatPend : {"OK", "TO", "ABORT"}, Dly : Nat,
              EventPtr : Event \cup {None}, Msg : Ptrs]
ECB(Ptrs) == [Cnt : Nat, Ptr : Ptrs, Tbl : SUBSET Prios]
KernelState(Ptrs) ==
    [tcb : [Task -> TCB(Ptrs)], PrioTbl : [Prios -> Task \cup {None, Reserved}],
     Rdy : SUBSET Prios, ev : [Event -> ECB(Ptrs)], Cur : Task, PrioCur : Prios,
     IntNesting : Nat, LockNesting : Nat]

\* The highest priority (the lowest number) of a non-empty set of priorities.
Highest(P) == CHOOSE p \in P : \A q \in P : p <= q

-----------------------------------------------------------------------------
(* The ready list and the scheduler.                                          *)

Ready(k, t) == [k EXCEPT !.Rdy = @ \cup {k.tcb[t].Prio}]
NotReady(k, t) == [k EXCEPT !.Rdy = @ \ {k.tcb[t].Prio}]

\* The ready bit is set only for a task that is not suspended.
ReadyUnlessSuspended(k, t) ==
    IF "SUSPEND" \in k.tcb[t].Stat THEN k ELSE Ready(k, t)

\* OS_SchedNew and the context switch it may lead to.
Switch(k) ==
    LET p == Highest(k.Rdy)
    IN  IF p = k.PrioCur THEN k ELSE [k EXCEPT !.Cur = k.PrioTbl[p], !.PrioCur = p]

OS_Sched(k) ==
    IF k.IntNesting = 0 /\ k.LockNesting = 0 THEN Switch(k) ELSE k

OSIntEnter(k) == [k EXCEPT !.IntNesting = @ + 1]

OSIntExit(k) == OS_Sched([k EXCEPT !.IntNesting = @ - 1])

OSSchedLock(k) ==
    IF k.IntNesting = 0 THEN [k EXCEPT !.LockNesting = @ + 1] ELSE k

OSSchedUnlock(k) ==
    IF k.LockNesting > 0 THEN OS_Sched([k EXCEPT !.LockNesting = @ - 1]) ELSE k

-----------------------------------------------------------------------------
(* Wait lists.                                                                *)

\* The bit cleared is that of the priority the task has now.
OS_EventTaskRemove(k, t, e) == [k EXCEPT !.ev[e].Tbl = @ \ {k.tcb[t].Prio}]

OS_EventTaskWait(k, e) ==
    NotReady([k EXCEPT !.tcb[k.Cur].EventPtr = e,
                       !.ev[e].Tbl = @ \cup {k.tcb[k.Cur].Prio}], k.Cur)

\* The task that a post or an abort finds at the head of the list of e.
HighestWaiter(k, e) == k.PrioTbl[Highest(k.ev[e].Tbl)]

\* Mutant: the task stays in the wait list.
OS_EventTaskRdyListed(k, e, msg, msk, pend_stat) ==
    LET t  == HighestWaiter(k, e)
        k1 == [k EXCEPT !.tcb[t] = [k.tcb[t] EXCEPT !.Dly = 0, !.Msg = msg,
                                                      !.Stat = @ \ {msk},
                                                      !.StatPend = pend_stat]]
    IN  ReadyUnlessSuspended(k1, t)

OS_EventTaskRdy(k, e, msg, msk, pend_stat) ==
    LET t  == HighestWaiter(k, e)
        k1 == [k EXCEPT !.tcb[t] = [k.tcb[t] EXCEPT !.Dly = 0, !.Msg = msg,
                                                      !.Stat = @ \ {msk},
                                                      !.StatPend = pend_stat]]
    IN  OS_EventTaskRemove(ReadyUnlessSuspended(k1, t), t, e)

\* How every pend that finds nothing puts the running task to sleep; a timeout
\* of 0 waits for ever.
Sleep(k, e, msk, timeout) ==
    OS_Sched(OS_EventTaskWait(
        [k EXCEPT !.tcb[k.Cur] = [k.tcb[k.Cur] EXCEPT !.Stat = @ \cup {msk},
                                                      !.StatPend = "OK", !.Dly = timeout]], e))

\* A task runs inside a pend from the moment it sleeps to the end of the call:
\* it still has to execute the lines after OS_Sched().
InPend(k, t) == k.tcb[t].EventPtr # None

\* Those lines, for the running task: whatever StatPend says now is the result.
PendTail(k) ==
    LET t  == k.Cur
        k1 == IF k.tcb[t].StatPend = "TO" THEN OS_EventTaskRemove(k, t, k.tcb[t].EventPtr)
                                          ELSE k
    IN  [k1 EXCEPT !.tcb[t] = [k.tcb[t] EXCEPT !.Stat = {}, !.StatPend = "OK",
                                               !.EventPtr = None, !.Msg = None]]

\* A call that may sleep is refused in an interrupt or with the scheduler locked.
MayPend(k) == k.IntNesting = 0 /\ k.LockNesting = 0

-----------------------------------------------------------------------------
(* Time.                                                                      *)

\* A delay has run out, by the tick or by OSTimeDlyResume: a task in a pend
\* is marked timed out, but its bit stays in the wait list.
DelayOver(k, t) ==
    LET timed == k.tcb[t].Stat \cap PendAny # {}
        k1 == [k EXCEPT !.tcb[t] = [k.tcb[t] EXCEPT !.Dly = 0, !.Stat = @ \ PendAny,
                                                      !.StatPend = IF timed THEN "TO" ELSE "OK"]]
    IN  ReadyUnlessSuspended(k1, t)

\* Every delay counts down; those that were 1 run out.
OSTimeTick(k) ==
    LET over == {t \in Task : k.tcb[t].Dly = 1}
        Tick(t) == IF t \in over THEN DelayOver(k, t).tcb[t]
                   ELSE IF k.tcb[t].Dly > 1 THEN [k.tcb[t] EXCEPT !.Dly = @ - 1]
                   ELSE k.tcb[t]
    IN  [k EXCEPT !.tcb = [t \in Task |-> Tick(t)],
                  !.Rdy = @ \cup {k.tcb[t].Prio :
                                    t \in {u \in over : "SUSPEND" \notin k.tcb[u].Stat}}]

\* The running task only; no effect under a lock.
OSTimeDly(k, ticks) ==
    IF MayPend(k) /\ ticks > 0
    THEN OS_Sched(NotReady([k EXCEPT !.tcb[k.Cur].Dly = ticks], k.Cur))
    ELSE k

OSTimeDlyResume(k, p) ==
    LET t == k.PrioTbl[p]
    IN  IF t \in {None, Reserved} \/ p = OS_TASK_IDLE_PRIO THEN k
        ELSE IF k.tcb[t].Dly = 0 THEN k
        ELSE IF "SUSPEND" \in k.tcb[t].Stat THEN DelayOver(k, t)
        ELSE OS_Sched(DelayOver(k, t))

-----------------------------------------------------------------------------
(* Tasks.                                                                     *)

OSTaskCreate(k, t, p) ==
    IF k.IntNesting > 0 \/ k.PrioTbl[p] # None THEN k
    ELSE OS_Sched([k EXCEPT !.tcb[t] = NewTCB(p), !.PrioTbl[p] = t, !.Rdy = @ \cup {p}])

\* OSTaskDel(OS_PRIO_SELF).
OSTaskDelSelf(k) ==
    LET p == k.tcb[k.Cur].Prio
    IN  OS_Sched([NotReady(k, k.Cur) EXCEPT !.tcb[k.Cur] = NewTCB(p), !.PrioTbl[p] = None])

\* Only a task that suspends itself is switched away from.
OSTaskSuspend(k, p) ==
    LET t  == k.PrioTbl[p]
        k1 == NotReady([k EXCEPT !.tcb[t].Stat = @ \cup {"SUSPEND"}], t)
    IN  IF t \in {None, Reserved} THEN k
        ELSE IF p = k.tcb[k.Cur].Prio THEN OS_Sched(k1) ELSE k1

\* Mutant: a task is made ready although its delay still runs.
OSTaskResumeEarly(k, p) ==
    LET t  == k.PrioTbl[p]
        k1 == [k EXCEPT !.tcb[t].Stat = @ \ {"SUSPEND"}]
    IN  IF t \in {None, Reserved} THEN k
        ELSE IF "SUSPEND" \notin k.tcb[t].Stat THEN k
        ELSE IF k1.tcb[t].Stat = {} THEN OS_Sched(Ready(k1, t))
        ELSE k1

OSTaskResume(k, p) ==
    LET t  == k.PrioTbl[p]
        k1 == [k EXCEPT !.tcb[t].Stat = @ \ {"SUSPEND"}]
    IN  IF t \in {None, Reserved} THEN k
        ELSE IF "SUSPEND" \notin k.tcb[t].Stat THEN k
        ELSE IF k1.tcb[t].Stat = {} /\ k1.tcb[t].Dly = 0 THEN OS_Sched(Ready(k1, t))
        ELSE k1

\* A kernel with the tasks of prio (a function from tasks to priorities, Idle
\* included) created before OSStart, and the events of events.
OSStart(prio, events) ==
    LET p0 == Highest({prio[t] : t \in DOMAIN prio})
    IN  [tcb |-> [t \in Task |-> NewTCB(IF t \in DOMAIN prio THEN prio[t] ELSE OS_TASK_IDLE_PRIO)],
         PrioTbl |-> [p \in Prios |-> IF \E t \in DOMAIN prio : prio[t] = p
                                      THEN CHOOSE t \in DOMAIN prio : prio[t] = p ELSE None],
         Rdy |-> {prio[t] : t \in DOMAIN prio},
         ev |-> events,
         Cur |-> CHOOSE t \in DOMAIN prio : prio[t] = p0, PrioCur |-> p0,
         IntNesting |-> 0, LockNesting |-> 0]
================================================================================
