--------------------------------- MODULE Kernel ---------------------------------
(* uC/OS-II under arbitrary tasks: the running task makes any call at any    *)
(* time, interrupts post and tick between any two steps. One mutex, one      *)
(* mailbox, one semaphore. A pend is two steps: the part up to the context   *)
(* switch and the part after it.                                             *)
EXTENDS OSMbox, OSSem, OSMutex

CONSTANTS
    BasePrio,       \* the priority each task is created with
    M, B, S,        \* the mutex, the mailbox and the semaphore
    Pip,            \* the mutex's priority inheritance priority
    Message,        \* the messages posted
    Timeouts,       \* ticks given to a pend (0 waits for ever) or to a delay
    Careful         \* the tasks keep three rules: the owner of M sleeps elsewhere
                    \* without a time-out only; no task is suspended that waits
                    \* for M or, owning M, for anything else; and no task suspends
                    \* itself with the scheduler locked

ASSUME KernelAssumption ==
    /\ Event = {M, B, S} /\ M # B /\ B # S /\ S # M
    /\ BasePrio \in [Task -> Prios] /\ BasePrio[Idle] = OS_TASK_IDLE_PRIO
    /\ Pip \in Prios /\ \A t \in Task : Pip < BasePrio[t]
    /\ \A t, u \in Task : t # u => BasePrio[t] # BasePrio[u]
    /\ Timeouts \subseteq Nat /\ Careful \in BOOLEAN
    /\ None \notin Message

VARIABLES
    os,             \* the kernel
    got,            \* the message the last step returned to a task, or None
    late            \* the running task has released the mutex and given up its
                    \* raised priority, and nothing has been scheduled since

vars == <<os, got, late>>

Owner == os.ev[M].Ptr
User == Task \ {Idle}

Created(e) == CASE e = M -> OSMutexCreated [] e = B -> OSMboxCreate(None) [] OTHER -> OSSemCreate(0)

Init ==
    /\ os = OSMutexCreate(OSStart(BasePrio, [e \in Event |-> Created(e)]), M, Pip)
    /\ got = None /\ late = FALSE

-----------------------------------------------------------------------------
(* The calls of the running task, outside any interrupt.                     *)

Calls == os.Cur # Idle /\ ~InPend(os, os.Cur)

\* A step that returns no message and leaves the scheduler's decision to k.
Step(k) == os' = k /\ got' = None /\ late' = (late /\ k.Cur = os.Cur)

MutexPend == Calls /\ MayPend(os) /\ Owner # os.Cur
             /\ \E n \in Timeouts : Step(OSMutexPend(os, M, Pip, n))
MutexAccept == Calls /\ Owner # os.Cur /\ Step(OSMutexAccept(os, M))
MutexPost ==
    /\ Calls
    /\ os' = OSMutexPost(os, M, Pip) /\ got' = None
    /\ late' = (os'.Cur = os.Cur /\ os'.LockNesting = 0
                /\ Highest(os'.Rdy) < os'.PrioCur)

\* A careful owner waits for ever or not at all.
MayWait(n) == MayPend(os) /\ (Careful /\ Owner = os.Cur => n = 0)

MboxPend ==
    /\ Calls
    /\ \E n \in Timeouts :
        /\ MayWait(n)
        /\ os' = OSMboxPend(os, B, n)
        /\ got' = OSMboxAccept(os, B)
        /\ late' = (late /\ os'.Cur = os.Cur)
MboxAccept == Calls /\ os' = TakeMbox(os, B) /\ got' = OSMboxAccept(os, B) /\ UNCHANGED late

\* The messages accepted and not yet returned: in the box, or handed to a
\* task that has not executed the end of its pend.
Handed(t) == os.tcb[t].EventPtr = B /\ os.tcb[t].Msg # None
Due == {m \in Message : m = os.ev[B].Ptr \/ \E t \in Task : Handed(t) /\ os.tcb[t].Msg = m}

MboxPost == Calls /\ \E m \in Message \ Due : Step(OSMboxPost(os, B, m))
MboxPendAbort == Calls /\ Step(OSMboxPendAbort(os, B))

SemPend == Calls /\ \E n \in Timeouts : MayWait(n) /\ Step(OSSemPend(os, S, n))
SemPost == Calls /\ Step(OSSemPost(os, S))
SemPendAbort == Calls /\ Step(OSSemPendAbort(os, S))
SemSet == Calls /\ \E n \in 0 .. SemMax : Step(OSSemSet(os, S, n))

TimeDly == Calls /\ \E n \in Timeouts : Step(OSTimeDly(os, n))
TimeDlyResume == Calls /\ \E t \in User : Step(OSTimeDlyResume(os, os.tcb[t].Prio))
SchedLock == Calls /\ os.LockNesting = 0 /\ Step(OSSchedLock(os))
SchedUnlock == Calls /\ os.LockNesting > 0 /\ Step(OSSchedUnlock(os))

\* A task that waits for M or, owning M, for anything else.
MutexSleeper(t) == InPend(os, t) /\ (os.tcb[t].EventPtr = M \/ t = Owner)

Suspend ==
    /\ Calls
    /\ \E t \in User : /\ Careful => ~MutexSleeper(t) /\ (t = os.Cur => os.LockNesting = 0)
                       /\ Step(OSTaskSuspend(os, os.tcb[t].Prio))
Resume == Calls /\ \E t \in User : Step(OSTaskResume(os, os.tcb[t].Prio))

\* The end of the pend the running task is in.
Tail ==
    /\ InPend(os, os.Cur)
    /\ os' = PendTail(os)
    /\ got' = IF os.tcb[os.Cur].EventPtr = B THEN MboxReturns(os) ELSE None
    /\ UNCHANGED late

-----------------------------------------------------------------------------
(* Interrupts, between any two steps of the tasks.                           *)

Interrupt(k) == Step(OSIntExit(k))
Tick == Interrupt(OSTimeTick(OSIntEnter(os)))
IsrMboxPost == \E m \in Message \ Due : Interrupt(OSMboxPost(OSIntEnter(os), B, m))
IsrSemPost == Interrupt(OSSemPost(OSIntEnter(os), S))

Next ==
    \/ MutexPend \/ MutexAccept \/ MutexPost
    \/ MboxPend \/ MboxAccept \/ MboxPost \/ MboxPendAbort
    \/ SemPend \/ SemPost \/ SemPendAbort \/ SemSet
    \/ TimeDly \/ TimeDlyResume \/ SchedLock \/ SchedUnlock \/ Suspend \/ Resume
    \/ Tail \/ Tick \/ IsrMboxPost \/ IsrSemPost

Spec == Init /\ [][Next]_vars

-----------------------------------------------------------------------------
(* Properties.                                                                *)

\* What every later operator relies on: fields in range, and the priority
\* table, the ready list and the wait lists name tasks that exist.
TypeOK ==
    /\ DOMAIN os.tcb = Task
    /\ \A t \in Task :
        /\ os.tcb[t].Prio \in {BasePrio[t], Pip} /\ os.PrioTbl[os.tcb[t].Prio] = t
        /\ os.tcb[t].Stat \subseteq Stats /\ os.tcb[t].StatPend \in {"OK", "TO", "ABORT"}
        /\ os.tcb[t].Dly \in Nat /\ os.tcb[t].EventPtr \in Event \cup {None}
        /\ os.tcb[t].Msg \in Message \cup {None}
    /\ os.Cur \in Task /\ os.PrioTbl[os.PrioCur] = os.Cur
    /\ OS_TASK_IDLE_PRIO \in os.Rdy
    /\ \A p \in os.Rdy \cup UNION {os.ev[e].Tbl : e \in Event} : os.PrioTbl[p] \in Task
    /\ os.ev[B].Ptr \in Message \cup {None} /\ os.ev[S].Cnt \in 0 .. SemMax
    /\ os.ev[M].Ptr \in User \cup {None}
    /\ os.IntNesting = 0 /\ os.LockNesting \in {0, 1}
    /\ got \in Message \cup {None} /\ late \in BOOLEAN

\* A wait list names tasks at the priority they have now and inside a pend on
\* that very event; a task that still waits is in the list of its event. What
\* a post finds at the head of a list is therefore a task that will look at
\* what it is given.
Waits(t, e) == os.tcb[t].EventPtr = e /\ os.tcb[t].Stat \cap PendAny # {}
ListsAreWaiters ==
    \A e \in Event :
        /\ \A p \in os.ev[e].Tbl : LET t == os.PrioTbl[p] IN os.tcb[t].Prio = p
                                                          /\ os.tcb[t].EventPtr = e
        /\ \A t \in Task : Waits(t, e) => os.tcb[t].Prio \in os.ev[e].Tbl

\* No task sleeps for what is there: a message in the box, a count in the
\* semaphore, a mutex without an owner.
NoLostWakeup ==
    \A t \in Task :
        /\ Waits(t, B) => os.ev[B].Ptr = None
        /\ Waits(t, S) => os.ev[S].Cnt = 0
        /\ Waits(t, M) => ~Available(os, M)

\* A task is in the ready list exactly when nothing holds it back, and unless
\* the scheduler is locked, or the running task has just given back a raised
\* priority with nobody waiting for the mutex, the most urgent one runs.
HighestRuns ==
    /\ \A t \in Task : os.tcb[t].Prio \in os.Rdy <=> os.tcb[t].Stat = {} /\ os.tcb[t].Dly = 0
    /\ os.LockNesting = 0 /\ ~late => os.PrioCur = Highest(os.Rdy)

\* Priority inheritance: only the owner runs at Pip; it does so while a task
\* more urgent than itself waits for the mutex; and once a task owns the mutex
\* the pend it may still be in reports success.
Inherits ==
    /\ \A t \in Task : os.tcb[t].Prio = Pip => t = Owner
    /\ Owner # None =>
        /\ os.ev[M].Cnt = BasePrio[Owner]
        /\ (\E t \in Task : Waits(t, M) /\ BasePrio[t] < BasePrio[Owner]) => os.tcb[Owner].Prio = Pip
        /\ os.tcb[Owner].EventPtr = M => os.tcb[Owner].StatPend = "OK" /\ os.tcb[Owner].Stat \subseteq {"SUSPEND"}

\* A message a post accepted is returned by exactly one call, whatever
\* time-outs, aborts, suspensions and promotions come between.
Mailbox == INSTANCE Delivery WITH due <- Due, got <- got, Nothing <- None
KeepsMessages == Mailbox!DSpec

\* A tick or a resumed delay, and not a post, is what makes a pend report a
\* time-out: a task that was handed something keeps it.
HandedStays ==
    [][\A t \in Task :
          /\ os.tcb[t].EventPtr # None /\ os.tcb[t].EventPtr = os'.tcb[t].EventPtr
          /\ os.tcb[t].Stat \cap PendAny = {} /\ os.tcb[t].StatPend = "OK"
          => os'.tcb[t].StatPend = "OK"]_vars

\* What every operator of the kernel keeps, whether it is in the middle of a
\* call or not. A task holds one priority and is found by it.
Ptrs == Message \cup Task \cup {None}
Waiting(k, t) == k.tcb[t].Stat \cap PendAny # {}
Prioritized(k) ==
    \A t \in Task :
        /\ k.tcb[t].Prio \in {BasePrio[t], Pip} /\ (k.tcb[t].Prio = Pip => k.ev[M].Ptr = t)
        /\ k.PrioTbl[k.tcb[t].Prio] = t /\ k.PrioTbl[BasePrio[t]] = t

\* The ready list is that of the tasks nothing holds back, and Idle is there.
Listed(k) ==
    /\ \A p \in k.Rdy : \E t \in Task : k.tcb[t].Prio = p
    /\ \A t \in Task : k.tcb[t].Prio \in k.Rdy <=> k.tcb[t].Stat = {} /\ k.tcb[t].Dly = 0
    /\ k.tcb[Idle].Stat = {} /\ k.tcb[Idle].Dly = 0 /\ k.tcb[Idle].EventPtr = None

\* A wait list is that of the tasks that wait, and of some that timed out.
Queued(k) ==
    /\ \A e \in Event : \A p \in k.ev[e].Tbl : \E t \in Task :
        /\ k.tcb[t].Prio = p /\ k.tcb[t].EventPtr = e /\ k.tcb[t].Msg = None
        /\ Waiting(k, t) \/ k.tcb[t].StatPend = "TO"
    /\ \A t \in Task : Waiting(k, t) => /\ k.tcb[t].EventPtr # None
                                       /\ k.tcb[t].Prio \in k.ev[k.tcb[t].EventPtr].Tbl

\* A task waits for one kind of thing, its delay ends with its wait, and it can
\* not be suspended or timed out while the mutex depends on it.
Msk(e) == CASE e = M -> "MUTEX" [] e = B -> "MBOX" [] OTHER -> "SEM"
OnePend(k, t) ==
    /\ Waiting(k, t) => k.tcb[t].Stat \cap PendAny = {Msk(k.tcb[t].EventPtr)}
    /\ k.tcb[t].EventPtr # None /\ k.tcb[t].Dly > 0 => Waiting(k, t)
    /\ k.tcb[t].EventPtr = M \/ (k.ev[M].Ptr = t /\ k.tcb[t].EventPtr # None)
          => "SUSPEND" \notin k.tcb[t].Stat
    /\ k.ev[M].Ptr = t /\ k.tcb[t].EventPtr # None =>
          k.tcb[t].Dly = 0 /\ k.tcb[t].StatPend # "TO"
InOnePend(k) == \A t \in Task : OnePend(k, t)

\* A message handed to a task is its alone.
OneHolder(k) ==
    /\ k.ev[B].Ptr \in Message \cup {None}
    /\ \A t \in Task : k.tcb[t].Msg # None =>
        /\ k.tcb[t].Msg \in Message /\ k.tcb[t].Msg # k.ev[B].Ptr
        /\ k.tcb[t].EventPtr = B /\ k.tcb[t].StatPend = "OK" /\ ~Waiting(k, t)
    /\ \A t, u \in Task : t # u /\ k.tcb[t].Msg # None => k.tcb[t].Msg # k.tcb[u].Msg

\* A task waits only for what is not there, and owns or waits for the mutex.
Missing(k, t) ==
    /\ Waiting(k, t) => /\ k.tcb[t].EventPtr = B => k.ev[B].Ptr = None
                        /\ k.tcb[t].EventPtr = S => k.ev[S].Cnt = 0
                        /\ k.tcb[t].EventPtr = M => k.ev[M].Ptr # None
    /\ k.ev[M].Ptr = t /\ k.tcb[t].EventPtr = M => k.tcb[t].StatPend = "OK" /\ ~Waiting(k, t)
Counted(k) ==
    /\ k.ev[S].Cnt \in 0 .. SemMax
    /\ k.ev[M].Ptr \in User \cup {None}
    /\ k.ev[M].Ptr = None => k.ev[M].Cnt = OS_MUTEX_AVAILABLE
    /\ k.ev[M].Ptr # None => k.ev[M].Cnt = BasePrio[k.ev[M].Ptr]
    /\ \A t \in Task : Missing(k, t)

\* The owner has the priority of the most urgent task that waits for the mutex.
Owed(k) ==
    \A t, u \in Task :
        k.ev[M].Ptr = u /\ Waiting(k, t) /\ k.tcb[t].EventPtr = M /\ BasePrio[t] < BasePrio[u]
        => k.tcb[u].Prio = Pip

Sound(k) == /\ k \in KernelState(Ptrs) /\ Prioritized(k) /\ Listed(k) /\ Queued(k)
            /\ InOnePend(k) /\ OneHolder(k) /\ Counted(k) /\ Owed(k)

\* Between two steps of the program the running task is ready, and is found by
\* its priority.
Running(k) == k.tcb[k.Cur].Prio = k.PrioCur /\ k.PrioCur \in k.Rdy

\* The kernel's lists say what the task control blocks say, and the scheduler goes
\* by them (os_core.c).
Consistent == TypeOK /\ ListsAreWaiters /\ HighestRuns /\ Sound(os) /\ Running(os)

\* What was posted is not lost between the post and the end of the pend.
NothingLost == KeepsMessages /\ HandedStays
================================================================================
