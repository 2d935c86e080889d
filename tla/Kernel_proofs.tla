------------------------------ MODULE Kernel_proofs ------------------------------
(* That careful tasks keep the kernel consistent, whatever their number, their *)
(* priorities, the messages and the timeouts: no wake-up is lost, the owner of *)
(* the mutex inherits, and the mailbox delivers every message once.            *)
(*                                                                             *)
(* Sound (Kernel.tla) is what every operator keeps. Most operators change the  *)
(* control block of one task t: the lemmas of the first part say, conjunct by  *)
(* conjunct of Sound, what must hold of t alone for the conjunct to be kept.   *)
EXTENDS Kernel, OSCore_proofs

-----------------------------------------------------------------------------
(* One task's control block is replaced.                                      *)

Change(k, r, t) ==
    /\ k \in KernelState(Ptrs) /\ r \in KernelState(Ptrs) /\ t \in Task
    /\ \A u \in Task \ {t} : r.tcb[u] = k.tcb[u]
    /\ r.tcb[t].Prio = k.tcb[t].Prio
    /\ r.PrioTbl = k.PrioTbl

\* Two tasks never share a priority.
LEMMA PriosDiffer ==
    ASSUME NEW k, Prioritized(k), NEW t \in Task, NEW u \in Task, k.tcb[t].Prio = k.tcb[u].Prio
    PROVE  t = u
  BY DEF Prioritized

\* Every task keeps its priority, and its entry in the table.
LEMMA KeepsPrioritized ==
    ASSUME NEW k, NEW r, NEW t, Change(k, r, t), Prioritized(k),
           r.ev[M].Ptr = k.ev[M].Ptr \/ \A u \in Task : k.tcb[u].Prio # Pip
    PROVE  Prioritized(r)
<1>1. \A u \in Task : r.tcb[u].Prio = k.tcb[u].Prio
  BY DEF Change
<1> QED
  BY <1>1 DEF Change, Prioritized

\* The ready list follows what happens to t.
LEMMA KeepsListed ==
    ASSUME NEW k, NEW r, NEW t, Change(k, r, t), Prioritized(k), Listed(k), t # Idle,
           r.tcb[t].Stat = {} /\ r.tcb[t].Dly = 0 => r.Rdy = k.Rdy \cup {k.tcb[t].Prio},
           ~(r.tcb[t].Stat = {} /\ r.tcb[t].Dly = 0) => r.Rdy = k.Rdy \ {k.tcb[t].Prio}
    PROVE  Listed(r)
<1>1. t \in Task /\ \A u \in Task : r.tcb[u].Prio = k.tcb[u].Prio
  BY DEF Change
<1>2. \A p \in r.Rdy : \E u \in Task : r.tcb[u].Prio = p
  <2> SUFFICES ASSUME NEW p \in r.Rdy PROVE \E u \in Task : r.tcb[u].Prio = p
    OBVIOUS
  <2>1. p \in k.Rdy \/ p = k.tcb[t].Prio
    OBVIOUS
  <2> QED
    BY <1>1, <2>1 DEF Listed
<1>3. ASSUME NEW u \in Task
      PROVE  r.tcb[u].Prio \in r.Rdy <=> r.tcb[u].Stat = {} /\ r.tcb[u].Dly = 0
  <2>1. CASE u = t
    BY <1>1, <2>1
  <2>2. CASE u # t
    <3>1. r.tcb[u] = k.tcb[u] /\ k.tcb[u].Prio # k.tcb[t].Prio
      BY <1>1, <2>2, PriosDiffer DEF Change
    <3> QED
      BY <3>1 DEF Listed
  <2> QED
    BY <2>1, <2>2
<1>4. r.tcb[Idle] = k.tcb[Idle]
  BY CoreAssumption DEF Change
<1> QED
  BY <1>2, <1>3, <1>4 DEF Listed

\* The wait lists follow what happens to t.
LEMMA KeepsQueued ==
    ASSUME NEW k, NEW r, NEW t, Change(k, r, t), Prioritized(k), Queued(k),
           \A e \in Event : r.ev[e].Tbl \ {k.tcb[t].Prio} = k.ev[e].Tbl \ {k.tcb[t].Prio},
           \A e \in Event : k.tcb[t].Prio \in r.ev[e].Tbl =>
                /\ r.tcb[t].EventPtr = e /\ r.tcb[t].Msg = None
                /\ Waiting(r, t) \/ r.tcb[t].StatPend = "TO",
           Waiting(r, t) => r.tcb[t].EventPtr # None /\ k.tcb[t].Prio \in r.ev[r.tcb[t].EventPtr].Tbl
    PROVE  Queued(r)
<1>1. t \in Task /\ \A u \in Task : r.tcb[u].Prio = k.tcb[u].Prio
  BY DEF Change
<1>2. ASSUME NEW e \in Event, NEW p \in r.ev[e].Tbl
      PROVE  \E u \in Task : /\ r.tcb[u].Prio = p /\ r.tcb[u].EventPtr = e /\ r.tcb[u].Msg = None
                             /\ Waiting(r, u) \/ r.tcb[u].StatPend = "TO"
  <2>1. CASE p = k.tcb[t].Prio
    BY <1>1, <2>1
  <2>2. CASE p # k.tcb[t].Prio
    <3>1. p \in k.ev[e].Tbl
      BY <2>2
    <3>2. PICK u \in Task : /\ k.tcb[u].Prio = p /\ k.tcb[u].EventPtr = e /\ k.tcb[u].Msg = None
                            /\ Waiting(k, u) \/ k.tcb[u].StatPend = "TO"
      BY <3>1 DEF Queued
    <3>3. r.tcb[u] = k.tcb[u]
      BY <2>2, <3>2 DEF Change
    <3> QED
      BY <3>2, <3>3 DEF Waiting
  <2> QED
    BY <2>1, <2>2
<1>3. ASSUME NEW u \in Task, Waiting(r, u)
      PROVE  r.tcb[u].EventPtr # None /\ r.tcb[u].Prio \in r.ev[r.tcb[u].EventPtr].Tbl
  <2>1. CASE u = t
    BY <1>1, <1>3, <2>1
  <2>2. CASE u # t
    <3>1. r.tcb[u] = k.tcb[u] /\ k.tcb[u].Prio # k.tcb[t].Prio
      BY <1>1, <2>2, PriosDiffer DEF Change
    <3>2. Waiting(k, u)
      BY <1>3, <3>1 DEF Waiting
    <3>3. k.tcb[u].EventPtr # None /\ k.tcb[u].Prio \in k.ev[k.tcb[u].EventPtr].Tbl
      BY <3>2 DEF Queued
    <3>4. k.tcb[u].EventPtr \in Event
      BY <3>3 DEF Change, KernelState, TCB
    <3> QED
      BY <3>1, <3>3, <3>4
  <2> QED
    BY <2>1, <2>2
<1> QED
  BY <1>2, <1>3 DEF Queued

\* The other tasks stay in the pend they were in.
LEMMA KeepsInOnePend ==
    ASSUME NEW k, NEW r, NEW t, Change(k, r, t), InOnePend(k),
           r.ev[M].Ptr \in {k.ev[M].Ptr, t, None}, OnePend(r, t)
    PROVE  InOnePend(r)
<1>1. ASSUME NEW u \in Task, u # t PROVE OnePend(r, u)
  <2>1. r.tcb[u] = k.tcb[u] /\ OnePend(k, u)
    BY <1>1 DEF Change, InOnePend
  <2>2. r.ev[M].Ptr = u => k.ev[M].Ptr = u
    BY <1>1, CoreAssumption
  <2> QED
    BY <2>1, <2>2 DEF OnePend, Waiting
<1> QED
  BY <1>1 DEF InOnePend

\* The message of t is nobody else's.
LEMMA KeepsOneHolder ==
    ASSUME NEW k, NEW r, NEW t, Change(k, r, t), OneHolder(k),
           r.ev[B].Ptr \in Message \cup {None},
           \A u \in Task \ {t} : k.tcb[u].Msg # None => k.tcb[u].Msg # r.ev[B].Ptr,
           r.tcb[t].Msg # None =>
                /\ r.tcb[t].Msg \in Message /\ r.tcb[t].Msg # r.ev[B].Ptr
                /\ r.tcb[t].EventPtr = B /\ r.tcb[t].StatPend = "OK" /\ ~Waiting(r, t)
                /\ \A u \in Task \ {t} : k.tcb[u].Msg # r.tcb[t].Msg
    PROVE  OneHolder(r)
<1>1. \A u \in Task \ {t} : r.tcb[u] = k.tcb[u]
  BY DEF Change
<1> QED
  BY <1>1 DEF OneHolder, Waiting

\* Nobody waits for what t left behind.
LEMMA KeepsCounted ==
    ASSUME NEW k, NEW r, NEW t, Change(k, r, t), Counted(k),
           r.ev[S].Cnt \in 0 .. SemMax, r.ev[M].Ptr \in User \cup {None},
           r.ev[M].Ptr = None => r.ev[M].Cnt = OS_MUTEX_AVAILABLE,
           r.ev[M].Ptr # None => r.ev[M].Cnt = BasePrio[r.ev[M].Ptr],
           r.ev[M].Ptr \in {k.ev[M].Ptr, t, None}, Missing(r, t),
           \A u \in Task \ {t} : Waiting(k, u) =>
                /\ k.tcb[u].EventPtr = B => r.ev[B].Ptr = None
                /\ k.tcb[u].EventPtr = S => r.ev[S].Cnt = 0
                /\ k.tcb[u].EventPtr = M => r.ev[M].Ptr # None
    PROVE  Counted(r)
<1>1. ASSUME NEW u \in Task, u # t PROVE Missing(r, u)
  <2>1. r.tcb[u] = k.tcb[u] /\ Missing(k, u)
    BY <1>1 DEF Change, Counted
  <2>2. r.ev[M].Ptr = u => k.ev[M].Ptr = u
    BY <1>1, CoreAssumption
  <2> QED
    BY <1>1, <2>1, <2>2 DEF Missing, Waiting
<1> QED
  BY <1>1 DEF Counted

\* A change that makes nobody wait for the mutex leaves the owner in order.
LEMMA KeepsOwed ==
    ASSUME NEW k, NEW r, NEW t, Change(k, r, t), Owed(k),
           r.ev[M].Ptr = k.ev[M].Ptr \/ r.ev[M].Ptr = None,
           Waiting(r, t) /\ r.tcb[t].EventPtr = M => Waiting(k, t) /\ k.tcb[t].EventPtr = M
    PROVE  Owed(r)
<1>1. \A u \in Task : r.tcb[u].Prio = k.tcb[u].Prio
  BY DEF Change
<1>2. \A u \in Task : Waiting(r, u) /\ r.tcb[u].EventPtr = M => Waiting(k, u) /\ k.tcb[u].EventPtr = M
  BY DEF Change, Waiting
<1> QED
  BY <1>1, <1>2, CoreAssumption DEF Owed

-----------------------------------------------------------------------------
(* The scheduler.                                                             *)

\* The most urgent ready task.
LEMMA HighestReady ==
    ASSUME NEW k, Sound(k)
    PROVE  /\ Highest(k.Rdy) \in k.Rdy /\ Highest(k.Rdy) \in Prios
           /\ \A q \in k.Rdy : Highest(k.Rdy) <= q
           /\ k.PrioTbl[Highest(k.Rdy)] \in Task
           /\ k.tcb[k.PrioTbl[Highest(k.Rdy)]].Prio = Highest(k.Rdy)
<1>1. k.Rdy \in SUBSET Nat /\ k.Rdy \in SUBSET Prios
  BY DEF Sound, KernelState, Prios
<1>2. k.Rdy # {}
  BY CoreAssumption DEF Sound, Listed
<1>3. Highest(k.Rdy) \in k.Rdy /\ \A q \in k.Rdy : Highest(k.Rdy) <= q
  BY <1>1, <1>2, HighestIs
<1>4. PICK t \in Task : k.tcb[t].Prio = Highest(k.Rdy)
  BY <1>3 DEF Sound, Listed
<1>5. k.PrioTbl[Highest(k.Rdy)] = t
  BY <1>4 DEF Sound, Prioritized
<1> QED
  BY <1>1, <1>3, <1>4, <1>5

\* Soundness is a matter of the tables.
LEMMA SoundSame ==
    ASSUME NEW k, NEW r \in KernelState(Ptrs), Sound(k), SameTables(r, k)
    PROVE  Sound(r)
<1>1. r.tcb = k.tcb /\ r.PrioTbl = k.PrioTbl /\ r.Rdy = k.Rdy /\ r.ev = k.ev
  BY DEF SameTables
<1>2. Prioritized(r) /\ Listed(r) /\ OneHolder(r) /\ Owed(r)
  BY <1>1 DEF Sound, Prioritized, Listed, OneHolder, Owed, Waiting
<1>3. Queued(r)
  BY <1>1 DEF Sound, Queued, Waiting
<1>4. InOnePend(r) /\ Counted(r)
  BY <1>1 DEF Sound, InOnePend, OnePend, Counted, Missing, Waiting
<1> QED
  BY <1>2, <1>3, <1>4 DEF Sound

\* What a call leaves to OS_Sched(), and what OS_Sched() leaves.
Settled(k) ==
    /\ Sound(k) /\ k.tcb[k.Cur].Prio = k.PrioCur /\ k.LockNesting \in {0, 1}
    /\ k.PrioCur \in k.Rdy \/ k.LockNesting = 0

Steady(k) == Settled(k) /\ k.IntNesting = 0 /\ k.PrioCur \in k.Rdy

\* OS_Sched() runs the most urgent task, unless it may not switch.
LEMMA SchedSettled ==
    ASSUME NEW k, Settled(k)
    PROVE  LET r == OS_Sched(k)
           IN  /\ Settled(r) /\ SameTables(r, k) /\ SameNesting(r, k)
               /\ MayPend(k) => r.PrioCur = Highest(r.Rdy) /\ r.PrioCur \in r.Rdy
               /\ ~MayPend(k) => r.Cur = k.Cur /\ r.PrioCur = k.PrioCur
<1> DEFINE r == OS_Sched(k)
<1>1. k \in KernelState(Ptrs) /\ Sound(k)
  BY DEF Settled, Sound
<1>2. /\ Highest(k.Rdy) \in k.Rdy /\ Highest(k.Rdy) \in Prios
      /\ k.PrioTbl[Highest(k.Rdy)] \in Task
      /\ k.tcb[k.PrioTbl[Highest(k.Rdy)]].Prio = Highest(k.Rdy)
  BY <1>1, HighestReady
<1>3. /\ r \in KernelState(Ptrs) /\ SameTables(r, k) /\ SameNesting(r, k)
      /\ ~MayPend(k) => r.Cur = k.Cur /\ r.PrioCur = k.PrioCur
      /\ MayPend(k) => /\ r.PrioCur = Highest(k.Rdy)
                       /\ r.Cur = IF r.PrioCur = k.PrioCur THEN k.Cur ELSE k.PrioTbl[r.PrioCur]
  BY <1>1, <1>2, SchedFields
<1> HIDE DEF r
<1>4. Sound(r)
  BY <1>1, <1>3, SoundSame
<1>5. r.tcb = k.tcb /\ r.Rdy = k.Rdy /\ r.LockNesting = k.LockNesting
  BY <1>3 DEF SameTables, SameNesting
<1>6. ASSUME MayPend(k) PROVE Settled(r) /\ r.PrioCur = Highest(r.Rdy) /\ r.PrioCur \in r.Rdy
  BY <1>2, <1>3, <1>4, <1>5, <1>6 DEF Settled
<1>7. ASSUME ~MayPend(k) PROVE Settled(r)
  BY <1>3, <1>4, <1>5, <1>7 DEF Settled
<1> QED
  BY <1>3, <1>6, <1>7 DEF r

\* An interrupt is entered and left with the tables as they are.
LEMMA IntEnterSettled ==
    ASSUME NEW k, Settled(k)
    PROVE  LET r == OSIntEnter(k)
           IN  /\ Settled(r) /\ SameTables(r, k) /\ r.IntNesting = k.IntNesting + 1
               /\ r.LockNesting = k.LockNesting /\ r.Cur = k.Cur /\ r.PrioCur = k.PrioCur
<1> DEFINE r == OSIntEnter(k)
<1>1. k \in KernelState(Ptrs) /\ Sound(k)
  BY DEF Settled, Sound
<1>2. /\ r \in KernelState(Ptrs) /\ SameTables(r, k) /\ r.IntNesting = k.IntNesting + 1
      /\ r.LockNesting = k.LockNesting /\ r.Cur = k.Cur /\ r.PrioCur = k.PrioCur
  BY <1>1, IntEnterFields
<1> HIDE DEF r
<1>3. Sound(r)
  BY <1>1, <1>2, SoundSame
<1> QED
  BY <1>2, <1>3 DEF r, Settled, SameTables

\* The last interrupt to end leaves a running task, the most urgent unless locked.
LEMMA IntExitSteady ==
    ASSUME NEW k, Settled(k), k.IntNesting = 1
    PROVE  LET r == OSIntExit(k)
           IN  /\ Steady(r) /\ SameTables(r, k) /\ r.LockNesting = k.LockNesting
               /\ r.LockNesting = 0 => r.PrioCur = Highest(r.Rdy)
               /\ r.LockNesting # 0 => r.Cur = k.Cur /\ r.PrioCur = k.PrioCur
<1> DEFINE r == OSIntExit(k)
           k1 == [k EXCEPT !.IntNesting = @ - 1]
<1>1. k \in KernelState(Ptrs) /\ Sound(k)
  BY DEF Settled, Sound
<1>2. /\ k1 \in KernelState(Ptrs) /\ SameTables(k1, k) /\ k1.IntNesting = 0
      /\ k1.LockNesting = k.LockNesting /\ k1.Cur = k.Cur /\ k1.PrioCur = k.PrioCur
  BY <1>1 DEF KernelState, SameTables
<1>3. r = OS_Sched(k1)
  BY DEF OSIntExit
<1> HIDE DEF k1, r
<1>4. Sound(k1)
  BY <1>1, <1>2, SoundSame
<1>5. Settled(k1)
  BY <1>2, <1>4 DEF Settled, SameTables
<1>6. /\ Settled(r) /\ SameTables(r, k1) /\ SameNesting(r, k1)
      /\ MayPend(k1) => r.PrioCur = Highest(r.Rdy) /\ r.PrioCur \in r.Rdy
      /\ ~MayPend(k1) => r.Cur = k1.Cur /\ r.PrioCur = k1.PrioCur
  BY <1>3, <1>5, SchedSettled
<1> QED
  BY <1>2, <1>5, <1>6 DEF r, Steady, Settled, SameTables, SameNesting, MayPend

\* OSSchedLock() and OSSchedUnlock() change the nesting, and what runs.
LEMMA SchedLockFields ==
    ASSUME NEW V, NEW k \in KernelState(V), k.IntNesting = 0
    PROVE  LET r == OSSchedLock(k)
           IN  /\ r \in KernelState(V) /\ SameTables(r, k) /\ r.IntNesting = 0
               /\ r.LockNesting = k.LockNesting + 1 /\ r.Cur = k.Cur /\ r.PrioCur = k.PrioCur
  BY DEF KernelState, OSSchedLock, SameTables

\* What was made ready under the lock runs when it is released.
LEMMA SchedUnlockSteady ==
    ASSUME NEW k, Steady(k), k.LockNesting > 0
    PROVE  LET r == OSSchedUnlock(k)
           IN  /\ Steady(r) /\ SameTables(r, k) /\ r.LockNesting = 0
               /\ r.PrioCur = Highest(r.Rdy)
<1> DEFINE r == OSSchedUnlock(k)
           k1 == [k EXCEPT !.LockNesting = @ - 1]
<1>1. k \in KernelState(Ptrs) /\ Sound(k) /\ k.LockNesting = 1
  BY DEF Steady, Settled, Sound
<1>2. /\ k1 \in KernelState(Ptrs) /\ SameTables(k1, k) /\ k1.IntNesting = k.IntNesting
      /\ k1.LockNesting = 0 /\ k1.Cur = k.Cur /\ k1.PrioCur = k.PrioCur
  BY <1>1 DEF KernelState, SameTables
<1>3. r = OS_Sched(k1)
  BY DEF OSSchedUnlock
<1> HIDE DEF k1, r
<1>4. Sound(k1)
  BY <1>1, <1>2, SoundSame
<1>5. Settled(k1)
  BY <1>2, <1>4 DEF Steady, Settled, SameTables
<1>6. /\ Settled(r) /\ SameTables(r, k1) /\ SameNesting(r, k1)
      /\ MayPend(k1) => r.PrioCur = Highest(r.Rdy) /\ r.PrioCur \in r.Rdy
  BY <1>3, <1>5, SchedSettled
<1> QED
  BY <1>2, <1>5, <1>6 DEF r, Steady, SameTables, SameNesting, MayPend

-----------------------------------------------------------------------------
(* Events: what is put into one or taken from it, and who is answered.        *)

\* One control block is b, the others are what they were.
TaskIs(r, k, t, b) == r.tcb[t] = b /\ \A u \in Task \ {t} : r.tcb[u] = k.tcb[u]

\* The counts and pointers of the events are what they were.
EventsKept(r, k) == \A f \in Event : r.ev[f].Ptr = k.ev[f].Ptr /\ r.ev[f].Cnt = k.ev[f].Cnt

\* The task a post or an abort finds.
LEMMA WaiterFound ==
    ASSUME NEW k \in KernelState(Ptrs), Prioritized(k), Listed(k), Queued(k),
           NEW e \in Event, k.ev[e].Tbl # {}
    PROVE  LET t == HighestWaiter(k, e)
           IN  /\ t \in Task \ {Idle} /\ k.tcb[t].EventPtr = e /\ k.tcb[t].Msg = None
               /\ k.tcb[t].Prio = Highest(k.ev[e].Tbl) /\ k.tcb[t].Prio \in k.ev[e].Tbl
               /\ \A q \in k.ev[e].Tbl : k.tcb[t].Prio <= q
               /\ Waiting(k, t) \/ k.tcb[t].StatPend = "TO"
<1> DEFINE P == k.ev[e].Tbl
<1>1. P \in SUBSET Nat /\ P # {}
  BY DEF KernelState, ECB, Prios
<1> HIDE DEF P
<1>2. Highest(P) \in P /\ \A q \in P : Highest(P) <= q
  BY <1>1, HighestIs
<1>3. PICK t \in Task : /\ k.tcb[t].Prio = Highest(P) /\ k.tcb[t].EventPtr = e /\ k.tcb[t].Msg = None
                        /\ Waiting(k, t) \/ k.tcb[t].StatPend = "TO"
  BY <1>2 DEF Queued, P
<1>4. k.PrioTbl[Highest(P)] = t
  BY <1>3 DEF Prioritized
<1>5. HighestWaiter(k, e) = t
  BY <1>4 DEF HighestWaiter, P
<1>6. t # Idle
  BY <1>3, CoreAssumption DEF Listed
<1> QED
  BY <1>2, <1>3, <1>5, <1>6 DEF P

\* Nobody's message, or answer, changes.
MailKept(k, r) ==
    /\ r.ev[B].Ptr = k.ev[B].Ptr
    /\ \A t \in Task : /\ r.tcb[t].Msg = k.tcb[t].Msg
                       /\ k.tcb[t].Msg # None => r.tcb[t].EventPtr = k.tcb[t].EventPtr
AnswersKept(k, r) ==
    \A t \in Task : k.tcb[t].EventPtr # None /\ ~Waiting(k, t) /\ k.tcb[t].StatPend = "OK"
                   => r.tcb[t].StatPend = "OK"

\* The messages accepted and not yet returned, of any kernel state.
DueIn(k) == {m \in Message : \/ m = k.ev[B].Ptr
                             \/ \E t \in Task : k.tcb[t].EventPtr = B /\ k.tcb[t].Msg # None
                                                /\ k.tcb[t].Msg = m}

\* The first waiter of the mailbox or the semaphore is answered.
LEMMA AnswerSettled ==
    ASSUME NEW k, Settled(k), NEW e \in {B, S}, k.ev[e].Tbl # {},
           NEW msg, NEW ps \in {"OK", "ABORT"},
           msg = None \/ (e = B /\ ps = "OK" /\ msg \in Message \ DueIn(k))
    PROVE  LET r == OS_EventTaskRdy(k, e, msg, Msk(e), ps)
               t == HighestWaiter(k, e)
           IN  /\ Settled(r) /\ t \in Task /\ k.tcb[t].EventPtr = e /\ k.tcb[t].Msg = None
               /\ TaskIs(r, k, t, Answered(k.tcb[t], msg, Msk(e), ps)) /\ EventsKept(r, k)
               /\ SameRunning(r, k)
               /\ Waiting(k, t) \/ k.tcb[t].StatPend = "TO"
<1> DEFINE r == OS_EventTaskRdy(k, e, msg, Msk(e), ps)
           t == HighestWaiter(k, e)
           b == Answered(k.tcb[t], msg, Msk(e), ps)
           p == k.tcb[t].Prio
           c == [k.ev[e] EXCEPT !.Tbl = k.ev[e].Tbl \ {p}]
<1>1. Sound(k) /\ k \in KernelState(Ptrs) /\ e \in Event
  BY KernelAssumption DEF Settled, Sound
<1>2. /\ t \in Task \ {Idle} /\ k.tcb[t].EventPtr = e /\ k.tcb[t].Msg = None
      /\ p \in k.ev[e].Tbl /\ (Waiting(k, t) \/ k.tcb[t].StatPend = "TO")
  BY <1>1, WaiterFound DEF Sound
<1>3. k.tcb[t] \in TCB(Ptrs) /\ msg \in Ptrs
  BY <1>1, <1>2 DEF KernelState, Ptrs
<1>4. /\ b \in TCB(Ptrs) /\ b.Prio = p /\ b.EventPtr = e /\ b.Stat = k.tcb[t].Stat \ {Msk(e)}
      /\ b.StatPend = ps /\ b.Dly = 0 /\ b.Msg = msg
  BY <1>2, <1>3, AnsweredType
<1>5. /\ r \in KernelState(Ptrs) /\ r.tcb = [k.tcb EXCEPT ![t] = b]
      /\ "SUSPEND" \in b.Stat => r.Rdy = k.Rdy
      /\ "SUSPEND" \notin b.Stat => r.Rdy = k.Rdy \cup {p}
      /\ r.ev = [k.ev EXCEPT ![e] = c] /\ r.PrioTbl = k.PrioTbl /\ SameRunning(r, k)
  <2>1. t = HighestWaiter(k, e) /\ t \in Task
    BY <1>2
  <2> HIDE DEF t
  <2>2. /\ r \in KernelState(Ptrs)
        /\ r.tcb = [k.tcb EXCEPT ![t] = Answered(k.tcb[t], msg, Msk(e), ps)]
        /\ "SUSPEND" \in k.tcb[t].Stat \ {Msk(e)} => r.Rdy = k.Rdy
        /\ "SUSPEND" \notin k.tcb[t].Stat \ {Msk(e)} => r.Rdy = k.Rdy \cup {k.tcb[t].Prio}
        /\ r.ev = [k.ev EXCEPT ![e] = c]
        /\ r.PrioTbl = k.PrioTbl /\ SameRunning(r, k)
    BY <1>1, <1>3, <2>1, TaskRdyFields
  <2> QED
    BY <1>4, <2>2 DEF t
<1>6. b.Stat \subseteq {"SUSPEND"} /\ Msk(e) \in PendAny
  <2>1. k.tcb[t].Stat \cap PendAny \subseteq {Msk(e)}
    BY <1>1, <1>2 DEF Sound, InOnePend, OnePend, Waiting
  <2>2. Msk(e) \in PendAny
    BY KernelAssumption DEF Msk, PendAny
  <2> QED
    BY <1>3, <1>4, <2>1, <2>2 DEF TCB, Stats
<1> HIDE DEF r, t, b
<1>7. r.tcb[t] = b /\ \A u \in Task \ {t} : r.tcb[u] = k.tcb[u]
  BY <1>1, <1>2, <1>5 DEF KernelState
<1>8. Change(k, r, t)
  BY <1>1, <1>2, <1>4, <1>5, <1>7 DEF Change
<1>9. /\ \A f \in Event : r.ev[f].Ptr = k.ev[f].Ptr /\ r.ev[f].Cnt = k.ev[f].Cnt
      /\ \A f \in Event \ {e} : r.ev[f] = k.ev[f]
      /\ r.ev[e].Tbl = k.ev[e].Tbl \ {p}
  <2>1. k.ev[e] \in ECB(Ptrs) /\ k.ev \in [Event -> ECB(Ptrs)]
    BY <1>1 DEF KernelState
  <2>2. c.Ptr = k.ev[e].Ptr /\ c.Cnt = k.ev[e].Cnt /\ c.Tbl = k.ev[e].Tbl \ {p}
    BY <2>1 DEF ECB
  <2> HIDE DEF c
  <2> QED
    BY <1>1, <1>5, <2>1, <2>2
<1> HIDE DEF c
<1>10. ~Waiting(r, t)
  BY <1>6, <1>7 DEF Waiting, PendAny
<1>11. M \in Event /\ B \in Event /\ S \in Event /\ e # M
  BY KernelAssumption
<1>12. Prioritized(r)
  BY <1>1, <1>8, <1>9, <1>11, KeepsPrioritized DEF Sound
<1>13. Listed(r)
  <2>2. "SUSPEND" \in b.Stat => p \notin k.Rdy
    <3>1. "SUSPEND" \in b.Stat => k.tcb[t].Stat # {}
      BY <1>4
    <3> QED
      BY <1>1, <1>2, <3>1 DEF Sound, Listed
  <2>3. b.Stat = {} \/ "SUSPEND" \in b.Stat
    BY <1>6
  <2>4. r.tcb[t].Stat = {} /\ r.tcb[t].Dly = 0 => r.Rdy = k.Rdy \cup {k.tcb[t].Prio}
    BY <1>5, <1>7
  <2>5. ~(r.tcb[t].Stat = {} /\ r.tcb[t].Dly = 0) => r.Rdy = k.Rdy \ {k.tcb[t].Prio}
    BY <1>4, <1>5, <1>7, <2>2, <2>3
  <2> QED
    BY <1>1, <1>2, <1>8, <2>4, <2>5, KeepsListed DEF Sound
<1>14. Queued(r)
  <2>1. \A f \in Event : r.ev[f].Tbl \ {p} = k.ev[f].Tbl \ {p}
    BY <1>9
  <2>2. \A f \in Event : p \notin r.ev[f].Tbl
    <3>1. ASSUME NEW f \in Event, f # e PROVE p \notin k.ev[f].Tbl
      <4>1. \A u \in Task : k.tcb[u].Prio = p => u = t
        BY <1>1, <1>2, PriosDiffer DEF Sound
      <4> QED
        BY <1>1, <1>2, <3>1, <4>1 DEF Sound, Queued
    <3> QED
      BY <1>9, <3>1
  <2> QED
    BY <1>1, <1>8, <1>10, <2>1, <2>2, KeepsQueued DEF Sound
<1>15. InOnePend(r)
  <2>1. OnePend(r, t)
    <3>1. e # M /\ b.Dly = 0 /\ b.StatPend # "TO"
      BY <1>4, <1>11
    <3>2. r.ev[M].Ptr = t => "SUSPEND" \notin b.Stat
      BY <1>1, <1>2, <1>4, <1>9, <1>11, CoreAssumption DEF Sound, InOnePend, OnePend
    <3> QED
      BY <1>4, <1>7, <1>10, <3>1, <3>2 DEF OnePend
  <2> QED
    BY <1>1, <1>8, <1>9, <1>11, <2>1, KeepsInOnePend DEF Sound
<1>16. OneHolder(r)
  <2>1. OneHolder(k)
    BY <1>1 DEF Sound
  <2>2. r.ev[B].Ptr = k.ev[B].Ptr
    BY <1>9, <1>11
  <2>3. CASE msg = None
    <3>1. r.tcb[t].Msg = None
      BY <1>4, <1>7, <2>3
    <3> QED
      BY <1>8, <2>1, <2>2, <3>1, KeepsOneHolder DEF OneHolder
  <2>4. CASE e = B /\ ps = "OK" /\ msg \in Message \ DueIn(k)
    <3>1. msg \in Message /\ msg # k.ev[B].Ptr
      BY <2>4 DEF DueIn
    <3>2. \A u \in Task : k.tcb[u].Msg # msg
      BY <2>1, <2>4, KernelAssumption DEF DueIn, OneHolder
    <3>3. /\ r.tcb[t].Msg = msg /\ r.tcb[t].EventPtr = B /\ r.tcb[t].StatPend = "OK"
      BY <1>4, <1>7, <2>4
    <3> QED
      BY <1>8, <1>10, <2>1, <2>2, <3>1, <3>2, <3>3, KeepsOneHolder DEF OneHolder
  <2> QED
    BY <2>3, <2>4
<1>17. Counted(r)
  <2>1. Counted(k)
    BY <1>1 DEF Sound
  <2>2. Missing(r, t)
    BY <1>4, <1>7, <1>10, <1>11 DEF Missing
  <2>3. /\ r.ev[S].Cnt = k.ev[S].Cnt /\ r.ev[M].Ptr = k.ev[M].Ptr
        /\ r.ev[M].Cnt = k.ev[M].Cnt /\ r.ev[B].Ptr = k.ev[B].Ptr
    BY <1>9, <1>11
  <2> QED
    BY <1>8, <2>1, <2>2, <2>3, KeepsCounted DEF Counted, Missing
<1>18. Owed(r)
  BY <1>1, <1>8, <1>9, <1>10, <1>11, KeepsOwed DEF Sound
<1>19. Sound(r)
  BY <1>5, <1>12, <1>13, <1>14, <1>15, <1>16, <1>17, <1>18 DEF Sound
<1>20. Settled(r)
  <2>1. r.Cur = k.Cur /\ r.PrioCur = k.PrioCur /\ r.LockNesting = k.LockNesting
    BY <1>5 DEF SameRunning, SameNesting
  <2>2. r.tcb[r.Cur].Prio = k.tcb[k.Cur].Prio
    BY <1>1, <1>8, <2>1 DEF Change, KernelState
  <2>3. k.PrioCur \in k.Rdy => r.PrioCur \in r.Rdy
    BY <1>5, <2>1
  <2> QED
    BY <1>19, <2>1, <2>2, <2>3 DEF Settled
<1>21. TaskIs(r, k, t, b) /\ EventsKept(r, k)
  BY <1>7, <1>9 DEF TaskIs, EventsKept
<1> QED
  BY <1>2, <1>5, <1>20, <1>21 DEF r, t, b

-----------------------------------------------------------------------------
(* What the running task does to itself.                                      *)

\* Nothing holds the running task back.
LEMMA RunningTask ==
    ASSUME NEW k, Steady(k)
    PROVE  /\ k.Cur \in Task /\ k.tcb[k.Cur].Prio = k.PrioCur /\ k.PrioTbl[k.PrioCur] = k.Cur
           /\ k.tcb[k.Cur].Stat = {} /\ k.tcb[k.Cur].Dly = 0 /\ k.tcb[k.Cur] \in TCB(Ptrs)
  BY DEF Steady, Settled, Sound, KernelState, Listed, Prioritized

\* A task outside a pend is in no wait list and holds no message.
LEMMA OutOfPend ==
    ASSUME NEW k, Sound(k), NEW t \in Task, ~InPend(k, t)
    PROVE  /\ k.tcb[t].EventPtr = None /\ k.tcb[t].Msg = None
           /\ \A e \in Event : k.tcb[t].Prio \notin k.ev[e].Tbl
<1>1. k.tcb[t].EventPtr = None
  BY DEF InPend
<1>2. B # None /\ \A e \in Event : e # None
  BY KernelAssumption, CoreAssumption
<1>3. k.tcb[t].Msg = None
  BY <1>1, <1>2 DEF Sound, OneHolder
<1>4. ASSUME NEW e \in Event PROVE k.tcb[t].Prio \notin k.ev[e].Tbl
  <2>1. \A u \in Task : k.tcb[u].Prio = k.tcb[t].Prio => u = t
    BY PriosDiffer DEF Sound
  <2> QED
    BY <1>1, <1>2, <2>1 DEF Sound, Queued
<1> QED
  BY <1>1, <1>3, <1>4

\* Each event has its own kind of pend.
LEMMA MskPend ==
    ASSUME NEW e \in Event
    PROVE  Msk(e) \in PendAny /\ Msk(e) # "SUSPEND"
  BY KernelAssumption DEF Msk, PendAny

\* The running task is put into a wait list.
LEMMA AsleepSettled ==
    ASSUME NEW k, Steady(k), MayPend(k), k.Cur # Idle, ~InPend(k, k.Cur),
           NEW e \in Event, NEW n \in Nat, k.ev[M].Ptr = k.Cur => n = 0,
           e = B => k.ev[B].Ptr = None, e = S => k.ev[S].Cnt = 0,
           e = M => /\ k.ev[M].Ptr \notin {None, k.Cur}
                    /\ \A u \in Task : k.ev[M].Ptr = u /\ BasePrio[k.Cur] < BasePrio[u]
                                       => k.tcb[u].Prio = Pip
    PROVE  LET r == Asleep(k, e, Msk(e), n)
           IN  /\ Settled(r) /\ EventsKept(r, k) /\ SameRunning(r, k)
               /\ MailKept(k, r) /\ AnswersKept(k, r)
<1> DEFINE r == Asleep(k, e, Msk(e), n)
           t == k.Cur
           b == Waiter(k.tcb[t], e, Msk(e), n)
           p == k.tcb[t].Prio
           c == [k.ev[e] EXCEPT !.Tbl = k.ev[e].Tbl \cup {p}]
<1>1. Sound(k) /\ k \in KernelState(Ptrs)
  BY DEF Steady, Settled, Sound
<1>2. /\ t \in Task \ {Idle} /\ k.tcb[t].Stat = {} /\ k.tcb[t].Dly = 0 /\ k.tcb[t] \in TCB(Ptrs)
      /\ p = k.PrioCur
  BY RunningTask
<1>3. /\ k.tcb[t].EventPtr = None /\ k.tcb[t].Msg = None /\ \A f \in Event : p \notin k.ev[f].Tbl
  BY <1>1, <1>2, OutOfPend
<1>4. Msk(e) \in PendAny /\ Msk(e) \in Stats
  BY MskPend DEF Stats
<1>5. /\ b \in TCB(Ptrs) /\ b.Prio = p /\ b.EventPtr = e /\ b.Stat = {Msk(e)}
      /\ b.StatPend = "OK" /\ b.Dly = n /\ b.Msg = None
  BY <1>2, <1>3, <1>4, WaiterType
<1>6. /\ r \in KernelState(Ptrs) /\ r.tcb = [k.tcb EXCEPT ![t] = b]
      /\ r.Rdy = k.Rdy \ {p} /\ r.ev = [k.ev EXCEPT ![e] = c]
      /\ r.PrioTbl = k.PrioTbl /\ SameRunning(r, k)
  BY <1>1, <1>4, AsleepFields
<1> HIDE DEF r, t, b
<1>7. r.tcb[t] = b /\ \A u \in Task \ {t} : r.tcb[u] = k.tcb[u]
  BY <1>1, <1>2, <1>6 DEF KernelState
<1>8. Change(k, r, t)
  BY <1>1, <1>2, <1>5, <1>6, <1>7 DEF Change
<1>9. /\ \A f \in Event : r.ev[f].Ptr = k.ev[f].Ptr /\ r.ev[f].Cnt = k.ev[f].Cnt
      /\ \A f \in Event \ {e} : r.ev[f] = k.ev[f]
      /\ r.ev[e].Tbl = k.ev[e].Tbl \cup {p}
  <2>1. k.ev[e] \in ECB(Ptrs) /\ k.ev \in [Event -> ECB(Ptrs)]
    BY <1>1 DEF KernelState
  <2>2. c.Ptr = k.ev[e].Ptr /\ c.Cnt = k.ev[e].Cnt /\ c.Tbl = k.ev[e].Tbl \cup {p}
    BY <2>1 DEF ECB
  <2> HIDE DEF c
  <2> QED
    BY <1>1, <1>6, <2>1, <2>2
<1> HIDE DEF c
<1>10. Waiting(r, t) /\ b.Stat \cap PendAny = {Msk(e)} /\ "SUSPEND" \notin b.Stat
  BY <1>4, <1>5, <1>7, MskPend DEF Waiting
<1>11. M \in Event /\ B \in Event /\ S \in Event /\ e # None
  BY KernelAssumption, CoreAssumption
<1>12. Prioritized(r)
  BY <1>1, <1>8, <1>9, <1>11, KeepsPrioritized DEF Sound
<1>13. Listed(r)
  BY <1>1, <1>2, <1>5, <1>6, <1>7, <1>8, KeepsListed DEF Sound
<1>14. Queued(r)
  <2>1. \A f \in Event : r.ev[f].Tbl \ {p} = k.ev[f].Tbl \ {p}
    BY <1>9
  <2>2. \A f \in Event : p \in r.ev[f].Tbl => f = e
    BY <1>3, <1>9
  <2>3. p \in r.ev[e].Tbl
    BY <1>9
  <2> QED
    BY <1>1, <1>5, <1>7, <1>8, <1>10, <1>11, <2>1, <2>2, <2>3, KeepsQueued DEF Sound
<1>15. InOnePend(r)
  <2>1. r.ev[M].Ptr = t => n = 0 /\ e # M
    BY <1>9, <1>11 DEF t
  <2>2. OnePend(r, t)
    BY <1>5, <1>7, <1>10, <2>1 DEF OnePend
  <2> QED
    BY <1>1, <1>8, <1>9, <1>11, <2>2, KeepsInOnePend DEF Sound
<1>16. OneHolder(r)
  <2>1. OneHolder(k) /\ r.ev[B].Ptr = k.ev[B].Ptr /\ r.tcb[t].Msg = None
    BY <1>1, <1>5, <1>7, <1>9, <1>11 DEF Sound
  <2> QED
    BY <1>8, <2>1, KeepsOneHolder DEF OneHolder
<1>17. Counted(r)
  <2>1. Counted(k)
    BY <1>1 DEF Sound
  <2>2. /\ r.ev[S].Cnt = k.ev[S].Cnt /\ r.ev[M].Ptr = k.ev[M].Ptr
        /\ r.ev[M].Cnt = k.ev[M].Cnt /\ r.ev[B].Ptr = k.ev[B].Ptr
    BY <1>9, <1>11
  <2>3. Missing(r, t)
    BY <1>5, <1>7, <2>2 DEF Missing, t
  <2> QED
    BY <1>8, <2>1, <2>2, <2>3, KeepsCounted DEF Counted, Missing
<1>18. Owed(r)
  <2>1. r.ev[M].Ptr = k.ev[M].Ptr
    BY <1>9, <1>11
  <2>2. CASE e # M
    BY <1>1, <1>5, <1>7, <1>8, <2>1, <2>2, KeepsOwed DEF Sound
  <2>3. CASE e = M
    <3>1. \A u \in Task : r.tcb[u].Prio = k.tcb[u].Prio
      BY <1>8 DEF Change
    <3>2. \A u \in Task : k.ev[M].Ptr = u /\ BasePrio[t] < BasePrio[u] => k.tcb[u].Prio = Pip
      BY <2>3 DEF t
    <3> QED
      BY <1>1, <1>7, <2>1, <3>1, <3>2 DEF Sound, Owed, Waiting
  <2> QED
    BY <2>2, <2>3
<1>19. Sound(r)
  BY <1>6, <1>12, <1>13, <1>14, <1>15, <1>16, <1>17, <1>18 DEF Sound
<1>20. Settled(r)
  <2>1. r.Cur = k.Cur /\ r.PrioCur = k.PrioCur /\ r.LockNesting = k.LockNesting
    BY <1>6 DEF SameRunning, SameNesting
  <2>2. r.tcb[r.Cur].Prio = r.PrioCur
    BY <1>2, <1>5, <1>7, <2>1 DEF t
  <2> QED
    BY <1>19, <2>1, <2>2 DEF Settled, MayPend
<1>21. MailKept(k, r) /\ AnswersKept(k, r) /\ EventsKept(r, k)
  BY <1>3, <1>5, <1>7, <1>9, <1>11 DEF MailKept, AnswersKept, EventsKept
<1> QED
  BY <1>6, <1>20, <1>21 DEF r

-----------------------------------------------------------------------------
(* Delays and suspensions: a task changes and no event does.                  *)

\* A task that stays in its pend is held back or let go: what must hold of it.
LEMMA TaskSound ==
    ASSUME NEW k, Sound(k), NEW r, NEW t, Change(k, r, t), t # Idle, r.ev = k.ev,
           r.tcb[t].EventPtr = k.tcb[t].EventPtr, r.tcb[t].Msg = k.tcb[t].Msg,
           r.tcb[t].Stat = {} /\ r.tcb[t].Dly = 0 => r.Rdy = k.Rdy \cup {k.tcb[t].Prio},
           ~(r.tcb[t].Stat = {} /\ r.tcb[t].Dly = 0) => r.Rdy = k.Rdy \ {k.tcb[t].Prio},
           Waiting(r, t) => Waiting(k, t), OnePend(r, t),
           k.tcb[t].EventPtr # None /\ (Waiting(k, t) \/ k.tcb[t].StatPend = "TO")
                => Waiting(r, t) \/ r.tcb[t].StatPend = "TO",
           k.tcb[t].Msg # None => r.tcb[t].StatPend = "OK",
           k.ev[M].Ptr = t /\ k.tcb[t].EventPtr = M => r.tcb[t].StatPend = "OK"
    PROVE  Sound(r)
<1>1. t \in Task /\ r \in KernelState(Ptrs)
  BY DEF Change
<1>2. Prioritized(r)
  BY KeepsPrioritized DEF Sound
<1>3. Listed(r)
  BY KeepsListed DEF Sound
<1>4. Queued(r)
  <2>1. ASSUME NEW e \in Event, k.tcb[t].Prio \in r.ev[e].Tbl
        PROVE  /\ r.tcb[t].EventPtr = e /\ r.tcb[t].Msg = None
               /\ Waiting(r, t) \/ r.tcb[t].StatPend = "TO"
    <3>1. PICK u \in Task : /\ k.tcb[u].Prio = k.tcb[t].Prio
                            /\ k.tcb[u].EventPtr = e /\ k.tcb[u].Msg = None
                            /\ Waiting(k, u) \/ k.tcb[u].StatPend = "TO"
      BY <2>1 DEF Sound, Queued
    <3>2. u = t
      BY <1>1, <3>1, PriosDiffer DEF Sound
    <3>3. e # None
      BY CoreAssumption
    <3> QED
      BY <3>1, <3>2, <3>3
  <2>2. Waiting(r, t) => r.tcb[t].EventPtr # None
                         /\ k.tcb[t].Prio \in r.ev[r.tcb[t].EventPtr].Tbl
    BY <1>1 DEF Sound, Queued
  <2> QED
    BY <2>1, <2>2, KeepsQueued DEF Sound
<1>5. InOnePend(r)
  BY KeepsInOnePend DEF Sound
<1>6. OneHolder(r)
  <2>1. OneHolder(k)
    BY DEF Sound
  <2>2. r.tcb[t].Msg # None =>
                /\ r.tcb[t].Msg \in Message /\ r.tcb[t].Msg # r.ev[B].Ptr
                /\ r.tcb[t].EventPtr = B /\ r.tcb[t].StatPend = "OK" /\ ~Waiting(r, t)
                /\ \A u \in Task \ {t} : k.tcb[u].Msg # r.tcb[t].Msg
    BY <1>1, <2>1 DEF OneHolder
  <2> QED
    BY <2>1, <2>2, KeepsOneHolder DEF OneHolder
<1>7. Counted(r)
  <2>1. Counted(k) /\ Missing(k, t)
    BY <1>1 DEF Sound, Counted
  <2>2. Missing(r, t)
    BY <2>1 DEF Missing
  <2> QED
    BY <2>1, <2>2, KeepsCounted DEF Counted, Missing
<1>8. Owed(r)
  BY KeepsOwed DEF Sound
<1> QED
  BY <1>1, <1>2, <1>3, <1>4, <1>5, <1>6, <1>7, <1>8 DEF Sound

\* The shape of such a step.
OneTask(k, r, t, b) ==
    /\ r \in KernelState(Ptrs) /\ r.tcb = [k.tcb EXCEPT ![t] = b]
    /\ r.PrioTbl = k.PrioTbl /\ r.ev = k.ev /\ SameRunning(r, k)

\* It changes one task's control block, in the sense of the first part.
LEMMA OneTaskChanges ==
    ASSUME NEW k \in KernelState(Ptrs), NEW r, NEW t \in Task, NEW b,
           OneTask(k, r, t, b), b.Prio = k.tcb[t].Prio
    PROVE  Change(k, r, t) /\ r.tcb[t] = b
  BY DEF OneTask, Change, KernelState

\* It leaves the decision who runs to OS_Sched().
LEMMA OneTaskSettled ==
    ASSUME NEW k, Settled(k), NEW r, NEW t \in Task, NEW b,
           OneTask(k, r, t, b), b.Prio = k.tcb[t].Prio, Sound(r),
           r.PrioCur \in r.Rdy \/ r.LockNesting = 0
    PROVE  Settled(r)
<1>1. r.Cur = k.Cur /\ r.PrioCur = k.PrioCur /\ r.LockNesting = k.LockNesting
  BY DEF OneTask, SameRunning, SameNesting
<1>2. r.tcb[r.Cur].Prio = k.tcb[k.Cur].Prio
  BY <1>1 DEF OneTask, Settled, Sound, KernelState
<1> QED
  BY <1>1, <1>2 DEF Settled

\* The running task is delayed.
LEMMA DelayedSettled ==
    ASSUME NEW k, Steady(k), MayPend(k), k.Cur # Idle, ~InPend(k, k.Cur), NEW n \in Nat, n > 0
    PROVE  LET r == NotReady([k EXCEPT !.tcb[k.Cur].Dly = n], k.Cur)
               b == [k.tcb[k.Cur] EXCEPT !.Dly = n]
           IN  Settled(r) /\ OneTask(k, r, k.Cur, b)
<1> DEFINE t == k.Cur
           b == [k.tcb[t] EXCEPT !.Dly = n]
           r == NotReady([k EXCEPT !.tcb[t].Dly = n], t)
<1>1. Sound(k) /\ k \in KernelState(Ptrs) /\ Settled(k)
  BY DEF Steady, Settled, Sound
<1>2. t \in Task \ {Idle} /\ k.tcb[t].Stat = {} /\ k.tcb[t].Dly = 0 /\ k.tcb[t] \in TCB(Ptrs)
  BY RunningTask
<1>3. k.tcb[t].EventPtr = None /\ k.tcb[t].Msg = None
  BY <1>1, <1>2, OutOfPend
<1>4. /\ b \in TCB(Ptrs) /\ b.Prio = k.tcb[t].Prio /\ b.EventPtr = None /\ b.Stat = {}
      /\ b.Dly = n /\ b.Msg = None
  BY <1>2, <1>3 DEF TCB
<1>5. r = NotReady(WithTcb(k, t, b), t)
  <2>1. [k EXCEPT !.tcb[t].Dly = n] = WithTcb(k, t, b)
    BY DEF WithTcb
  <2> QED
    BY <2>1
<1> HIDE DEF r, t, b
<1>6. OneTask(k, r, t, b) /\ r.Rdy = k.Rdy \ {k.tcb[t].Prio}
  BY <1>1, <1>2, <1>4, <1>5, HoldFields DEF OneTask
<1>7. Change(k, r, t) /\ r.tcb[t] = b /\ r.ev = k.ev
  BY <1>1, <1>2, <1>4, <1>6, OneTaskChanges DEF OneTask
<1>8. ~Waiting(r, t) /\ M # None
  BY <1>4, <1>7, KernelAssumption, CoreAssumption DEF Waiting
<1>9. OnePend(r, t)
  BY <1>4, <1>7, <1>8 DEF OnePend
<1>10. Sound(r)
  BY <1>1, <1>2, <1>3, <1>4, <1>6, <1>7, <1>8, <1>9, TaskSound
<1>11. r.LockNesting = 0
  BY <1>6 DEF MayPend, OneTask, SameRunning, SameNesting
<1>12. Settled(r)
  BY <1>1, <1>2, <1>4, <1>6, <1>10, <1>11, OneTaskSettled
<1> QED
  BY <1>6, <1>12 DEF r, t, b

\* A delay is cut short.
LEMMA ResumedSettled ==
    ASSUME NEW k, Steady(k), NEW t \in Task \ {Idle}, k.tcb[t].Dly # 0
    PROVE  LET r == DelayOver(k, t)
           IN  /\ Settled(r) /\ OneTask(k, r, t, Expired(k.tcb[t])) /\ r.PrioCur \in r.Rdy
               /\ "SUSPEND" \in k.tcb[t].Stat => r.Rdy = k.Rdy
<1> DEFINE b == Expired(k.tcb[t])
           r == DelayOver(k, t)
<1>1. Sound(k) /\ k \in KernelState(Ptrs) /\ Settled(k) /\ k.tcb[t] \in TCB(Ptrs)
  BY DEF Steady, Settled, Sound, KernelState
<1>2. /\ b \in TCB(Ptrs)
      /\ b.Prio = k.tcb[t].Prio /\ b.EventPtr = k.tcb[t].EventPtr /\ b.Stat = k.tcb[t].Stat \ PendAny
      /\ Waiting(k, t) => b.StatPend = "TO"
      /\ ~Waiting(k, t) => b.StatPend = "OK"
      /\ b.Dly = 0 /\ b.Msg = k.tcb[t].Msg
  BY <1>1, ExpiredType DEF Waiting
<1>3. /\ OneTask(k, r, t, b)
      /\ "SUSPEND" \in k.tcb[t].Stat => r.Rdy = k.Rdy
      /\ "SUSPEND" \notin k.tcb[t].Stat => r.Rdy = k.Rdy \cup {k.tcb[t].Prio}
  BY <1>1, DelayOverFields DEF OneTask
<1> HIDE DEF r, b
<1>4. Change(k, r, t) /\ r.tcb[t] = b /\ r.ev = k.ev
  BY <1>1, <1>2, <1>3, OneTaskChanges DEF OneTask
<1>5. k.tcb[t].Dly > 0
  BY <1>1 DEF TCB
<1>6. OnePend(k, t) /\ (k.tcb[t].EventPtr # None => Waiting(k, t) /\ k.ev[M].Ptr # t)
  BY <1>1, <1>5 DEF Sound, InOnePend, OnePend
<1>7. ~Waiting(r, t)
  BY <1>2, <1>4 DEF Waiting
<1>8. OnePend(r, t)
  BY <1>2, <1>4, <1>6, <1>7 DEF OnePend
<1>9. k.tcb[t].Msg = None
  <2>1. OneHolder(k)
    BY <1>1 DEF Sound
  <2>2. B # None
    BY KernelAssumption, CoreAssumption
  <2> QED
    BY <1>6, <2>1, <2>2 DEF OneHolder
<1>10. k.tcb[t].Prio \notin k.Rdy
  BY <1>1, <1>5 DEF Sound, Listed
<1>11. b.Stat \subseteq {"SUSPEND"} /\ ("SUSPEND" \in b.Stat <=> "SUSPEND" \in k.tcb[t].Stat)
  BY <1>1, <1>2 DEF TCB, Stats, PendAny
<1>12. /\ b.Stat = {} => r.Rdy = k.Rdy \cup {k.tcb[t].Prio}
       /\ b.Stat # {} => r.Rdy = k.Rdy \ {k.tcb[t].Prio}
  BY <1>3, <1>10, <1>11
<1>13. M # None
  BY KernelAssumption, CoreAssumption
<1>14. Sound(r)
  BY <1>1, <1>2, <1>4, <1>6, <1>7, <1>8, <1>9, <1>12, <1>13, TaskSound
<1>15. r.PrioCur \in r.Rdy
  BY <1>3 DEF Steady, OneTask, SameRunning
<1>16. Settled(r)
  BY <1>1, <1>2, <1>3, <1>14, <1>15, OneTaskSettled
<1> QED
  BY <1>3, <1>15, <1>16 DEF r, b

\* A task is suspended.
LEMMA SuspendedSettled ==
    ASSUME NEW k, Steady(k), NEW t \in Task \ {Idle},
           ~(InPend(k, t) /\ (k.tcb[t].EventPtr = M \/ t = k.ev[M].Ptr)),
           t = k.Cur => k.LockNesting = 0
    PROVE  LET r == NotReady([k EXCEPT !.tcb[t].Stat = @ \cup {"SUSPEND"}], t)
               b == [k.tcb[t] EXCEPT !.Stat = @ \cup {"SUSPEND"}]
           IN  /\ Settled(r) /\ OneTask(k, r, t, b) /\ r.Rdy = k.Rdy \ {k.tcb[t].Prio}
               /\ t # k.Cur => r.PrioCur \in r.Rdy
<1> DEFINE b == [k.tcb[t] EXCEPT !.Stat = @ \cup {"SUSPEND"}]
           r == NotReady([k EXCEPT !.tcb[t].Stat = @ \cup {"SUSPEND"}], t)
<1>1. Sound(k) /\ k \in KernelState(Ptrs) /\ Settled(k) /\ k.tcb[t] \in TCB(Ptrs)
  BY DEF Steady, Settled, Sound, KernelState
<1>2. /\ b \in TCB(Ptrs) /\ b.Prio = k.tcb[t].Prio /\ b.EventPtr = k.tcb[t].EventPtr
      /\ b.Stat = k.tcb[t].Stat \cup {"SUSPEND"} /\ b.StatPend = k.tcb[t].StatPend
      /\ b.Dly = k.tcb[t].Dly /\ b.Msg = k.tcb[t].Msg
  BY <1>1 DEF TCB, Stats
<1>3. r = NotReady(WithTcb(k, t, b), t)
  <2>1. [k EXCEPT !.tcb[t].Stat = @ \cup {"SUSPEND"}] = WithTcb(k, t, b)
    BY DEF WithTcb
  <2> QED
    BY <2>1
<1> HIDE DEF r, b
<1>4. OneTask(k, r, t, b) /\ r.Rdy = k.Rdy \ {k.tcb[t].Prio}
  BY <1>1, <1>2, <1>3, HoldFields DEF OneTask
<1>5. Change(k, r, t) /\ r.tcb[t] = b /\ r.ev = k.ev
  BY <1>1, <1>2, <1>4, OneTaskChanges DEF OneTask
<1>6. b.Stat \cap PendAny = k.tcb[t].Stat \cap PendAny /\ b.Stat # {}
  BY <1>2 DEF PendAny
<1>7. Waiting(r, t) <=> Waiting(k, t)
  BY <1>5, <1>6 DEF Waiting
<1>8. OnePend(k, t) /\ ~(k.tcb[t].EventPtr = M \/ (k.ev[M].Ptr = t /\ k.tcb[t].EventPtr # None))
  <2>1. M # None
    BY KernelAssumption, CoreAssumption
  <2> QED
    BY <1>1, <2>1 DEF Sound, InOnePend, InPend
<1>9. OnePend(r, t)
  BY <1>2, <1>5, <1>6, <1>7, <1>8 DEF OnePend
<1>10. k.tcb[t].Msg # None => b.StatPend = "OK"
  <2>1. OneHolder(k)
    BY <1>1 DEF Sound
  <2> QED
    BY <1>2, <2>1 DEF OneHolder
<1>11. Sound(r)
  BY <1>1, <1>2, <1>4, <1>5, <1>6, <1>7, <1>8, <1>9, <1>10, TaskSound
<1>12. SameRunning(r, k) /\ k.PrioCur \in k.Rdy /\ k.tcb[k.Cur].Prio = k.PrioCur /\ k.Cur \in Task
  BY <1>1, <1>4, RunningTask DEF OneTask, Steady
<1>13. t # k.Cur => r.PrioCur \in r.Rdy
  <2>1. t # k.Cur => k.tcb[t].Prio # k.PrioCur
    BY <1>1, <1>12, PriosDiffer DEF Sound
  <2> QED
    BY <1>4, <1>12, <2>1 DEF SameRunning
<1>14. Settled(r)
  BY <1>1, <1>2, <1>4, <1>11, <1>12, <1>13, OneTaskSettled DEF SameRunning, SameNesting
<1> QED
  BY <1>4, <1>13, <1>14 DEF r, b

\* A suspension ends: the task becomes ready, or something else still holds it.
LEMMA UnsuspendedSettled ==
    ASSUME NEW k, Steady(k), NEW t \in Task \ {Idle}, "SUSPEND" \in k.tcb[t].Stat
    PROVE  LET k1 == [k EXCEPT !.tcb[t].Stat = @ \ {"SUSPEND"}]
               r == IF k1.tcb[t].Stat = {} /\ k1.tcb[t].Dly = 0 THEN Ready(k1, t) ELSE k1
               b == [k.tcb[t] EXCEPT !.Stat = @ \ {"SUSPEND"}]
           IN  /\ Settled(r) /\ OneTask(k, r, t, b) /\ r.PrioCur \in r.Rdy
               /\ ~(k1.tcb[t].Stat = {} /\ k1.tcb[t].Dly = 0) => r.Rdy = k.Rdy
<1> DEFINE b == [k.tcb[t] EXCEPT !.Stat = @ \ {"SUSPEND"}]
           k1 == [k EXCEPT !.tcb[t].Stat = @ \ {"SUSPEND"}]
           r == IF k1.tcb[t].Stat = {} /\ k1.tcb[t].Dly = 0 THEN Ready(k1, t) ELSE k1
<1>1. Sound(k) /\ k \in KernelState(Ptrs) /\ Settled(k) /\ k.tcb[t] \in TCB(Ptrs)
  BY DEF Steady, Settled, Sound, KernelState
<1>2. /\ b \in TCB(Ptrs) /\ b.Prio = k.tcb[t].Prio /\ b.EventPtr = k.tcb[t].EventPtr
      /\ b.Stat = k.tcb[t].Stat \ {"SUSPEND"} /\ b.StatPend = k.tcb[t].StatPend
      /\ b.Dly = k.tcb[t].Dly /\ b.Msg = k.tcb[t].Msg
  BY <1>1 DEF TCB, Stats
<1>3. k1 = WithTcb(k, t, b)
  BY DEF WithTcb
<1>4. k1.tcb[t] = b /\ OneTask(k, k1, t, b) /\ k1.Rdy = k.Rdy
  <2> HIDE DEF k1, b
  <2>1. OneTask(k, k1, t, b) /\ k1.Rdy = k.Rdy
    BY <1>1, <1>2, <1>3, SetTcb DEF OneTask
  <2> QED
    BY <1>1, <1>2, <2>1, OneTaskChanges
<1> HIDE DEF k1, b
<1>5. k.tcb[t].Prio \notin k.Rdy
  BY <1>1 DEF Sound, Listed
<1>6. /\ OneTask(k, r, t, b)
      /\ b.Stat = {} /\ b.Dly = 0 => r.Rdy = k.Rdy \cup {k.tcb[t].Prio}
      /\ ~(b.Stat = {} /\ b.Dly = 0) => r.Rdy = k.Rdy
  <2>1. CASE b.Stat = {} /\ b.Dly = 0
    <3>1. r = Ready(WithTcb(k, t, b), t)
      BY <1>3, <1>4, <2>1
    <3> HIDE DEF r
    <3>2. OneTask(k, r, t, b) /\ r.Rdy = k.Rdy \cup {k.tcb[t].Prio}
      BY <1>1, <1>2, <3>1, FreeFields DEF OneTask
    <3> QED
      BY <2>1, <3>2
  <2>2. CASE ~(b.Stat = {} /\ b.Dly = 0)
    <3>1. r = k1
      BY <1>4, <2>2
    <3> QED
      BY <1>4, <2>2, <3>1
  <2> QED
    BY <2>1, <2>2
<1> HIDE DEF r
<1>7. Change(k, r, t) /\ r.tcb[t] = b /\ r.ev = k.ev
  BY <1>1, <1>2, <1>6, OneTaskChanges DEF OneTask
<1>8. b.Stat \cap PendAny = k.tcb[t].Stat \cap PendAny
  BY <1>2 DEF PendAny
<1>9. Waiting(r, t) <=> Waiting(k, t)
  BY <1>7, <1>8 DEF Waiting
<1>10. OnePend(k, t)
  BY <1>1 DEF Sound, InOnePend
<1>11. OnePend(r, t)
  BY <1>2, <1>7, <1>8, <1>9, <1>10 DEF OnePend
<1>12. (k.tcb[t].Msg # None => b.StatPend = "OK") /\ (k.tcb[t].EventPtr = M => FALSE)
  <2>1. OneHolder(k)
    BY <1>1 DEF Sound
  <2> QED
    BY <1>2, <1>10, <2>1 DEF OneHolder, OnePend
<1>13. /\ b.Stat = {} /\ b.Dly = 0 => r.Rdy = k.Rdy \cup {k.tcb[t].Prio}
       /\ ~(b.Stat = {} /\ b.Dly = 0) => r.Rdy = k.Rdy \ {k.tcb[t].Prio}
  BY <1>5, <1>6
<1>14. Sound(r)
  BY <1>1, <1>2, <1>7, <1>9, <1>11, <1>12, <1>13, TaskSound
<1>15. r.PrioCur \in r.Rdy
  BY <1>6 DEF OneTask, SameRunning, Steady
<1>16. Settled(r)
  BY <1>1, <1>2, <1>6, <1>14, <1>15, OneTaskSettled
<1> QED
  BY <1>4, <1>6, <1>15, <1>16 DEF r, b, k1

\* The running task leaves a pend.
LEMMA TailSteady ==
    ASSUME NEW k, Steady(k), InPend(k, k.Cur)
    PROVE  LET r == PendTail(k)
           IN  /\ Steady(r) /\ r.Rdy = k.Rdy /\ SameRunning(r, k)
               /\ TaskIs(r, k, k.Cur, Returned(k.tcb[k.Cur])) /\ EventsKept(r, k)
<1> DEFINE r == PendTail(k)
           t == k.Cur
           e == k.tcb[t].EventPtr
           b == Returned(k.tcb[t])
           p == k.tcb[t].Prio
           c == [k.ev[e] EXCEPT !.Tbl = k.ev[e].Tbl \ {p}]
<1>1. Sound(k) /\ k \in KernelState(Ptrs) /\ Settled(k)
  BY DEF Steady, Settled, Sound
<1>2. t \in Task /\ k.tcb[t].Stat = {} /\ k.tcb[t].Dly = 0 /\ k.tcb[t] \in TCB(Ptrs) /\ p = k.PrioCur
  BY RunningTask
<1>3. t # Idle /\ e # None /\ e \in Event /\ p \in k.Rdy
  BY <1>1, <1>2 DEF Sound, Listed, InPend, TCB, Steady
<1>4. /\ b \in TCB(Ptrs) /\ b.Prio = p /\ b.EventPtr = None /\ b.Stat = {} /\ b.StatPend = "OK"
      /\ b.Dly = 0 /\ b.Msg = None
  BY <1>2 DEF TCB, Returned, Ptrs
<1>5. /\ r \in KernelState(Ptrs) /\ r.tcb = [k.tcb EXCEPT ![t] = b]
      /\ k.tcb[t].StatPend = "TO" => r.ev = [k.ev EXCEPT ![e] = c]
      /\ k.tcb[t].StatPend # "TO" => r.ev = k.ev
      /\ r.Rdy = k.Rdy /\ r.PrioTbl = k.PrioTbl /\ SameRunning(r, k)
  BY <1>1, PendTailFields DEF Ptrs
<1> HIDE DEF r, b
<1>6. r.tcb[t] = b /\ Change(k, r, t)
  <2>1. r.tcb[t] = b /\ \A u \in Task \ {t} : r.tcb[u] = k.tcb[u]
    BY <1>1, <1>2, <1>5 DEF KernelState
  <2> QED
    BY <1>1, <1>2, <1>4, <1>5, <2>1 DEF Change
<1>7. ~Waiting(r, t) /\ ~Waiting(k, t)
  BY <1>2, <1>4, <1>6 DEF Waiting
<1>8. /\ \A f \in Event : r.ev[f].Ptr = k.ev[f].Ptr /\ r.ev[f].Cnt = k.ev[f].Cnt
      /\ \A f \in Event \ {e} : r.ev[f].Tbl = k.ev[f].Tbl
      /\ k.tcb[t].StatPend = "TO" => r.ev[e].Tbl = k.ev[e].Tbl \ {p}
      /\ k.tcb[t].StatPend # "TO" => r.ev[e].Tbl = k.ev[e].Tbl
  <2>1. k.ev[e] \in ECB(Ptrs) /\ k.ev \in [Event -> ECB(Ptrs)]
    BY <1>1, <1>3 DEF KernelState
  <2>2. c.Ptr = k.ev[e].Ptr /\ c.Cnt = k.ev[e].Cnt /\ c.Tbl = k.ev[e].Tbl \ {p}
    BY <2>1 DEF ECB
  <2> HIDE DEF c
  <2>3. CASE k.tcb[t].StatPend = "TO"
    <3>1. r.ev = [k.ev EXCEPT ![e] = c]
      BY <1>5, <2>3
    <3> HIDE DEF e
    <3>2. r.ev[e] = c /\ \A f \in Event \ {e} : r.ev[f] = k.ev[f]
      BY <1>3, <2>1, <3>1
    <3> QED
      BY <2>2, <2>3, <3>2
  <2>4. CASE k.tcb[t].StatPend # "TO"
    BY <1>5, <2>4
  <2> QED
    BY <2>3, <2>4
<1>9. \A f \in Event : p \notin r.ev[f].Tbl
  <2>1. \A u \in Task : k.tcb[u].Prio = p => u = t
    BY <1>1, <1>2, PriosDiffer DEF Sound
  <2>2. ASSUME NEW f \in Event, p \in k.ev[f].Tbl PROVE f = e /\ k.tcb[t].StatPend = "TO"
    BY <1>1, <1>7, <2>1, <2>2 DEF Sound, Queued
  <2> QED
    BY <1>3, <1>8, <2>2
<1> HIDE DEF c
<1>10. M \in Event /\ B \in Event /\ S \in Event /\ M # None
  BY KernelAssumption, CoreAssumption
<1>11. Prioritized(r)
  BY <1>1, <1>6, <1>8, <1>10, KeepsPrioritized DEF Sound
<1>12. Listed(r)
  BY <1>1, <1>3, <1>4, <1>5, <1>6, KeepsListed DEF Sound
<1>13. Queued(r)
  <2>1. \A f \in Event : r.ev[f].Tbl \ {p} = k.ev[f].Tbl \ {p}
    BY <1>3, <1>8
  <2> QED
    BY <1>1, <1>6, <1>7, <1>9, <2>1, KeepsQueued DEF Sound
<1>14. InOnePend(r)
  <2>1. OnePend(r, t)
    BY <1>4, <1>6, <1>7, <1>10 DEF OnePend
  <2> QED
    BY <1>1, <1>6, <1>8, <1>10, <2>1, KeepsInOnePend DEF Sound
<1>15. OneHolder(r)
  <2>1. OneHolder(k) /\ r.ev[B].Ptr = k.ev[B].Ptr /\ r.tcb[t].Msg = None
    BY <1>1, <1>4, <1>6, <1>8, <1>10 DEF Sound
  <2> QED
    BY <1>6, <2>1, KeepsOneHolder DEF OneHolder
<1>16. Counted(r)
  <2>1. Counted(k) /\ Missing(r, t)
    BY <1>1, <1>4, <1>6, <1>7, <1>10 DEF Sound, Missing
  <2>2. /\ r.ev[S].Cnt = k.ev[S].Cnt /\ r.ev[M].Ptr = k.ev[M].Ptr
        /\ r.ev[M].Cnt = k.ev[M].Cnt /\ r.ev[B].Ptr = k.ev[B].Ptr
    BY <1>8, <1>10
  <2> QED
    BY <1>6, <2>1, <2>2, KeepsCounted DEF Counted, Missing
<1>17. Owed(r)
  BY <1>1, <1>6, <1>7, <1>8, <1>10, KeepsOwed DEF Sound
<1>18. Sound(r)
  BY <1>5, <1>11, <1>12, <1>13, <1>14, <1>15, <1>16, <1>17 DEF Sound
<1>19. Steady(r)
  <2>1. r.Cur = k.Cur /\ r.PrioCur = k.PrioCur /\ r.LockNesting = k.LockNesting
        /\ r.IntNesting = k.IntNesting
    BY <1>5 DEF SameRunning, SameNesting
  <2>2. r.tcb[r.Cur].Prio = r.PrioCur
    BY <1>2, <1>4, <1>6, <2>1 DEF t
  <2> QED
    BY <1>5, <1>18, <2>1, <2>2 DEF Steady, Settled
<1>20. TaskIs(r, k, t, b) /\ EventsKept(r, k)
  <2>1. \A u \in Task \ {t} : r.tcb[u] = k.tcb[u]
    BY <1>6 DEF Change
  <2> QED
    BY <1>6, <1>8, <2>1 DEF TaskIs, EventsKept
<1> QED
  BY <1>5, <1>19, <1>20 DEF r, b

-----------------------------------------------------------------------------
(* The tick: every task at once.                                              *)

\* A tick leaves the kernel settled, and the running task ready.
LEMMA TickSettled ==
    ASSUME NEW k, Settled(k), k.PrioCur \in k.Rdy
    PROVE  LET r == OSTimeTick(k)
           IN  /\ Settled(r) /\ SameRunning(r, k) /\ r.ev = k.ev /\ r.PrioCur \in r.Rdy
               /\ r.tcb = [t \in Task |-> Ticked(k.tcb[t])]
<1> DEFINE r == OSTimeTick(k)
<1>1. Sound(k) /\ k \in KernelState(Ptrs)
  BY DEF Settled, Sound
<1>2. /\ r \in KernelState(Ptrs) /\ r.tcb = [t \in Task |-> Ticked(k.tcb[t])]
      /\ r.Rdy = k.Rdy \cup {k.tcb[t].Prio : t \in
                     {u \in Task : k.tcb[u].Dly = 1 /\ "SUSPEND" \notin k.tcb[u].Stat}}
      /\ r.PrioTbl = k.PrioTbl /\ r.ev = k.ev /\ SameRunning(r, k)
  BY <1>1, TickFields
<1> HIDE DEF r
<1>3. ASSUME NEW t \in Task
      PROVE  /\ k.tcb[t] \in TCB(Ptrs)
             /\ r.tcb[t].Prio = k.tcb[t].Prio /\ r.tcb[t].EventPtr = k.tcb[t].EventPtr
             /\ r.tcb[t].Msg = k.tcb[t].Msg
             /\ k.tcb[t].Dly # 1 => /\ r.tcb[t].Stat = k.tcb[t].Stat
                                    /\ r.tcb[t].StatPend = k.tcb[t].StatPend
             /\ k.tcb[t].Dly = 1 => r.tcb[t].Stat = k.tcb[t].Stat \ PendAny
             /\ k.tcb[t].Dly = 1 /\ Waiting(k, t) => r.tcb[t].StatPend = "TO"
             /\ k.tcb[t].Dly = 1 /\ ~Waiting(k, t) => r.tcb[t].StatPend = "OK"
             /\ r.tcb[t].Dly = 0 <=> k.tcb[t].Dly \in {0, 1}
  <2>1. k.tcb[t] \in TCB(Ptrs)
    BY <1>1 DEF KernelState
  <2>2. r.tcb[t] = Ticked(k.tcb[t])
    BY <1>2
  <2> QED
    BY <2>1, <2>2, TickedType DEF Waiting
<1>4. ASSUME NEW t \in Task
      PROVE  /\ Waiting(r, t) <=> Waiting(k, t) /\ k.tcb[t].Dly # 1
             /\ "SUSPEND" \in r.tcb[t].Stat <=> "SUSPEND" \in k.tcb[t].Stat
             /\ Waiting(r, t) => r.tcb[t].Stat = k.tcb[t].Stat
             /\ r.tcb[t].Stat = {} /\ k.tcb[t].Dly = 1 <=> k.tcb[t].Dly = 1 /\ "SUSPEND" \notin k.tcb[t].Stat
  <2>1. "SUSPEND" \notin PendAny /\ k.tcb[t].Stat \subseteq PendAny \cup {"SUSPEND"}
    BY <1>3 DEF TCB, Stats, PendAny
  <2> QED
    BY <1>3, <2>1 DEF Waiting
<1>5. Prioritized(r)
  BY <1>1, <1>2, <1>3 DEF Sound, Prioritized
<1>6. Listed(r)
  <2>1. Listed(k) /\ Prioritized(k)
    BY <1>1 DEF Sound
  <2>2. \A p \in r.Rdy : \E t \in Task : r.tcb[t].Prio = p
    BY <1>2, <1>3, <2>1 DEF Listed
  <2>3. ASSUME NEW t \in Task
        PROVE  r.tcb[t].Prio \in r.Rdy <=> r.tcb[t].Stat = {} /\ r.tcb[t].Dly = 0
    <3>1. k.tcb[t].Prio \in r.Rdy
            <=> \/ k.tcb[t].Prio \in k.Rdy
                \/ k.tcb[t].Dly = 1 /\ "SUSPEND" \notin k.tcb[t].Stat
      BY <1>2, <2>1, PriosDiffer
    <3>2. k.tcb[t].Prio \in k.Rdy <=> k.tcb[t].Stat = {} /\ k.tcb[t].Dly = 0
      BY <2>1 DEF Listed
    <3> QED
      BY <1>3, <1>4, <3>1, <3>2
  <2>4. r.tcb[Idle].Stat = {} /\ r.tcb[Idle].Dly = 0 /\ r.tcb[Idle].EventPtr = None
    BY <1>3, <2>1, CoreAssumption DEF Listed
  <2> QED
    BY <2>2, <2>3, <2>4 DEF Listed
<1>7. Queued(r)
  <2>1. Queued(k)
    BY <1>1 DEF Sound
  <2>2. ASSUME NEW e \in Event, NEW p \in r.ev[e].Tbl
        PROVE  \E t \in Task : /\ r.tcb[t].Prio = p /\ r.tcb[t].EventPtr = e /\ r.tcb[t].Msg = None
                               /\ Waiting(r, t) \/ r.tcb[t].StatPend = "TO"
    <3>1. PICK t \in Task : /\ k.tcb[t].Prio = p /\ k.tcb[t].EventPtr = e /\ k.tcb[t].Msg = None
                            /\ Waiting(k, t) \/ k.tcb[t].StatPend = "TO"
      BY <1>2, <2>1 DEF Queued
    <3>2. k.tcb[t].Dly > 0 => Waiting(k, t)
      BY <1>1, <3>1, CoreAssumption DEF Sound, InOnePend, OnePend
    <3>3. Waiting(r, t) \/ r.tcb[t].StatPend = "TO"
      BY <1>3, <1>4, <3>1, <3>2
    <3> QED
      BY <1>3, <3>1, <3>3
  <2>3. \A t \in Task : Waiting(r, t) => /\ r.tcb[t].EventPtr # None
                                         /\ r.tcb[t].Prio \in r.ev[r.tcb[t].EventPtr].Tbl
    BY <1>2, <1>3, <1>4, <2>1 DEF Queued
  <2> QED
    BY <2>2, <2>3 DEF Queued
<1>8. InOnePend(r)
  <2>1. ASSUME NEW t \in Task PROVE OnePend(r, t)
    <3>1. OnePend(k, t) /\ k.tcb[t].Dly \in Nat
      BY <1>1, <1>3 DEF Sound, InOnePend, TCB
    <3>2. r.tcb[t].Dly \in Nat
      BY <1>2 DEF KernelState, TCB
    <3> QED
      BY <1>2, <1>3, <1>4, <3>1, <3>2 DEF OnePend
  <2> QED
    BY <2>1 DEF InOnePend
<1>9. OneHolder(r)
  <2>1. OneHolder(k)
    BY <1>1 DEF Sound
  <2>2. ASSUME NEW t \in Task, k.tcb[t].Msg # None PROVE r.tcb[t].StatPend = "OK"
    <3>1. ~Waiting(k, t) /\ k.tcb[t].StatPend = "OK"
      BY <2>1, <2>2 DEF OneHolder
    <3> QED
      BY <1>3, <3>1
  <2> QED
    BY <1>2, <1>3, <1>4, <2>1, <2>2 DEF OneHolder
<1>10. Counted(r)
  <2>1. Counted(k)
    BY <1>1 DEF Sound
  <2>2. ASSUME NEW t \in Task PROVE Missing(r, t)
    BY <1>2, <1>3, <1>4, <2>1 DEF Counted, Missing
  <2> QED
    BY <1>2, <2>1, <2>2 DEF Counted
<1>11. Owed(r)
  BY <1>1, <1>2, <1>3, <1>4 DEF Sound, Owed
<1>12. Sound(r)
  BY <1>2, <1>5, <1>6, <1>7, <1>8, <1>9, <1>10, <1>11 DEF Sound
<1>13. Settled(r) /\ r.PrioCur \in r.Rdy
  <2>1. r.Cur = k.Cur /\ r.PrioCur = k.PrioCur /\ r.LockNesting = k.LockNesting /\ k.Cur \in Task
    BY <1>1, <1>2 DEF SameRunning, SameNesting, KernelState
  <2> QED
    BY <1>2, <1>3, <1>12, <2>1 DEF Settled
<1> QED
  BY <1>2, <1>13 DEF r

-----------------------------------------------------------------------------
(* The mutex.                                                                 *)

\* The inheritance priority is more urgent than any task's own, and no task's own.
LEMMA PipIsApart ==
    /\ Pip \in Prios /\ Prios \subseteq Nat
    /\ \A u \in Task : BasePrio[u] \in Prios /\ BasePrio[u] # Pip /\ BasePrio[u] > Pip
  BY KernelAssumption DEF Prios

\* The mutex is available exactly when nobody owns it.
LEMMA MutexFree ==
    ASSUME NEW k, Sound(k)
    PROVE  Available(k, M) <=> k.ev[M].Ptr = None
<1>1. k.ev[M].Ptr # None => k.ev[M].Cnt \in Prios
  BY KernelAssumption DEF Sound, Counted, User
<1> QED
  BY <1>1, MutexAssumption DEF Sound, Counted, Available

\* The running task takes the mutex.
LEMMA TakenSteady ==
    ASSUME NEW k, Steady(k), k.Cur # Idle, ~InPend(k, k.Cur), Available(k, M)
    PROVE  LET r == TakeMutex(k, M)
           IN  /\ Steady(r) /\ r.tcb = k.tcb /\ r.Rdy = k.Rdy /\ SameRunning(r, k)
               /\ r.ev[B].Ptr = k.ev[B].Ptr
<1> DEFINE r == TakeMutex(k, M)
           t == k.Cur
           c == [k.ev[M] EXCEPT !.Cnt = k.tcb[t].Prio, !.Ptr = t]
<1>1. Sound(k) /\ k \in KernelState(Ptrs) /\ Settled(k)
  BY DEF Steady, Settled, Sound
<1>2. t \in User /\ k.tcb[t] \in TCB(Ptrs) /\ k.ev[M] \in ECB(Ptrs) /\ k.ev \in [Event -> ECB(Ptrs)]
  BY <1>1, KernelAssumption, RunningTask DEF User, KernelState
<1>3. M \in Event /\ B \in Event /\ S \in Event /\ M # B /\ B # S /\ M # S /\ M # None
  BY KernelAssumption, CoreAssumption
<1>4. k.ev[M].Ptr = None
  BY <1>1, MutexFree
<1>5. \A u \in Task : k.tcb[u].Prio = BasePrio[u]
  BY <1>1, <1>4, CoreAssumption DEF Sound, Prioritized
<1>6. c \in ECB(Ptrs) /\ c.Cnt = BasePrio[t] /\ c.Ptr = t /\ c.Tbl = k.ev[M].Tbl
  <2>1. k.tcb[t].Prio \in Nat /\ t \in Ptrs
    BY <1>2 DEF TCB, Prios, Ptrs, User
  <2> QED
    BY <1>2, <1>5, <2>1 DEF ECB, User
<1>7. r = WithEvent(k, M, c)
  BY DEF TakeMutex, WithEvent
<1> HIDE DEF r, c
<1>8. /\ r \in KernelState(Ptrs) /\ r.ev = [k.ev EXCEPT ![M] = c]
      /\ r.tcb = k.tcb /\ r.PrioTbl = k.PrioTbl /\ r.Rdy = k.Rdy /\ SameRunning(r, k)
  BY <1>1, <1>3, <1>6, <1>7, SetEvent
<1>9. r.ev[M] = c /\ r.ev[B] = k.ev[B] /\ r.ev[S] = k.ev[S] /\ \A e \in Event : r.ev[e].Tbl = k.ev[e].Tbl
  BY <1>2, <1>3, <1>6, <1>8
<1>10. k.tcb[t].EventPtr = None /\ k.tcb[t].Msg = None /\ t \in Task
  BY <1>1, <1>2, OutOfPend DEF User
<1>11. \A u \in Task : Waiting(k, u) => k.tcb[u].EventPtr # M
  BY <1>1, <1>4 DEF Sound, Counted, Missing
<1>12. Change(k, r, t)
  BY <1>1, <1>8, <1>10 DEF Change
<1>13. Prioritized(r)
  BY <1>1, <1>5, <1>8, PipIsApart DEF Sound, Prioritized
<1>14. Listed(r)
  BY <1>1, <1>8 DEF Sound, Listed
<1>15. Queued(r)
  <2>1. \A u \in Task : Waiting(k, u) => k.tcb[u].EventPtr \in Event
    BY <1>1 DEF Sound, Queued, KernelState, TCB
  <2> QED
    BY <1>1, <1>8, <1>9, <2>1 DEF Sound, Queued, Waiting
<1>16. InOnePend(r)
  <2>1. OnePend(k, t)
    BY <1>1, <1>10 DEF Sound, InOnePend
  <2>2. OnePend(r, t)
    BY <1>3, <1>8, <1>9, <1>10, <2>1 DEF OnePend, Waiting
  <2> QED
    BY <1>1, <1>6, <1>9, <1>12, <2>2, KeepsInOnePend DEF Sound
<1>17. OneHolder(r)
  BY <1>1, <1>8, <1>9 DEF Sound, OneHolder, Waiting
<1>18. Counted(r)
  <2>1. Counted(k) /\ Missing(k, t)
    BY <1>1, <1>10 DEF Sound, Counted
  <2>2. Missing(r, t)
    BY <1>3, <1>8, <1>9, <1>10, <2>1 DEF Missing, Waiting
  <2>3. r.ev[M].Ptr = t /\ r.ev[M].Cnt = BasePrio[t] /\ t # None
    BY <1>6, <1>9, <1>10, CoreAssumption
  <2> QED
    BY <1>2, <1>9, <1>11, <1>12, <2>1, <2>2, <2>3, KeepsCounted DEF Counted, Missing
<1>19. Owed(r)
  BY <1>8, <1>11 DEF Owed, Waiting
<1>20. Sound(r)
  BY <1>8, <1>13, <1>14, <1>15, <1>16, <1>17, <1>18, <1>19 DEF Sound
<1>21. Steady(r)
  BY <1>8, <1>20 DEF Steady, Settled, SameRunning, SameNesting
<1> QED
  BY <1>8, <1>9, <1>21 DEF r

\* One priority takes the place of another in a set that had it.
Swapped(P, Q, old, new) ==
    /\ old \in Q => P = (Q \ {old}) \cup {new}
    /\ old \notin Q => P = Q

\* The owner of the mutex is raised.
LEMMA PromoteFields ==
    ASSUME NEW k, Steady(k), NEW o \in User, k.ev[M].Ptr = o, k.tcb[o].Prio # Pip
    PROVE  LET r == Promote(k, o, Pip)
               b == [k.tcb[o] EXCEPT !.Prio = Pip]
           IN  /\ r \in KernelState(Ptrs) /\ SameRunning(r, k)
               /\ r.tcb = [k.tcb EXCEPT ![o] = b]
               /\ r.PrioTbl = [k.PrioTbl EXCEPT ![Pip] = o]
               /\ Swapped(r.Rdy, k.Rdy, BasePrio[o], Pip)
               /\ \A e \in Event : /\ r.ev[e].Ptr = k.ev[e].Ptr /\ r.ev[e].Cnt = k.ev[e].Cnt
                                   /\ Swapped(r.ev[e].Tbl, k.ev[e].Tbl, BasePrio[o], Pip)
<1> DEFINE r == Promote(k, o, Pip)
           b == [k.tcb[o] EXCEPT !.Prio = Pip]
           old == k.tcb[o].Prio
           e2 == k.tcb[o].EventPtr
           k0 == WithTcb(k, o, b)
           k1 == WithPrio(k0, Pip, o)
           R == (k.Rdy \ {old}) \cup {Pip}
           c == [k.ev[e2] EXCEPT !.Tbl = (k.ev[e2].Tbl \ {old}) \cup {Pip}]
<1>1. /\ Sound(k) /\ k \in KernelState(Ptrs) /\ o \in Task /\ k.tcb[o] \in TCB(Ptrs)
      /\ k.ev \in [Event -> ECB(Ptrs)]
  BY DEF Steady, Settled, Sound, KernelState, User
<1>2. old = BasePrio[o] /\ Pip \in Prios
  BY <1>1, KernelAssumption DEF Sound, Prioritized
<1>3. b \in TCB(Ptrs)
  BY <1>1, <1>2 DEF TCB
<1> HIDE DEF b
<1>4. /\ k0 \in KernelState(Ptrs) /\ k0.tcb = [k.tcb EXCEPT ![o] = b]
      /\ k0.PrioTbl = k.PrioTbl /\ k0.Rdy = k.Rdy /\ k0.ev = k.ev /\ SameRunning(k0, k)
  BY <1>1, <1>3, SetTcb
<1>5. [k EXCEPT !.tcb[o].Prio = Pip, !.PrioTbl[Pip] = o] = k1
  <2>1. [k EXCEPT !.tcb[o].Prio = Pip, !.PrioTbl[Pip] = o]
          = [[k EXCEPT !.tcb[o].Prio = Pip] EXCEPT !.PrioTbl[Pip] = o]
    OBVIOUS
  <2>2. [k EXCEPT !.tcb[o].Prio = Pip] = k0
    BY DEF WithTcb, b
  <2> QED
    BY <2>1, <2>2 DEF WithPrio
<1> HIDE DEF k0
<1>6. /\ k1 \in KernelState(Ptrs) /\ k1.tcb = [k.tcb EXCEPT ![o] = b]
      /\ k1.PrioTbl = [k.PrioTbl EXCEPT ![Pip] = o]
      /\ k1.Rdy = k.Rdy /\ k1.ev = k.ev /\ SameRunning(k1, k)
  <2>1. k0 \in KernelState(Ptrs)
    BY <1>4
  <2>2. /\ k1 \in KernelState(Ptrs) /\ k1.PrioTbl = [k0.PrioTbl EXCEPT ![Pip] = o]
        /\ k1.tcb = k0.tcb /\ k1.Rdy = k0.Rdy /\ k1.ev = k0.ev /\ SameRunning(k1, k0)
    BY <1>1, <1>2, <2>1, SetPrio
  <2> QED
    BY <1>4, <2>2 DEF SameRunning, SameNesting
<1> HIDE DEF k1
<1>7. CASE old \in k.Rdy
  <2>1. r = WithRdy(k1, R)
    BY <1>5, <1>6, <1>7 DEF Promote, WithRdy
  <2>2. R \in SUBSET Prios /\ k1 \in KernelState(Ptrs)
    BY <1>1, <1>2, <1>6 DEF KernelState
  <2> HIDE DEF r, R
  <2>3. /\ r \in KernelState(Ptrs) /\ r.Rdy = R
        /\ r.tcb = k1.tcb /\ r.PrioTbl = k1.PrioTbl /\ r.ev = k1.ev /\ SameRunning(r, k1)
    BY <2>1, <2>2, SetRdy
  <2>4. k.tcb[o].Stat = {}
    BY <1>1, <1>7 DEF Sound, Listed
  <2>5. ASSUME NEW e \in Event PROVE old \notin k.ev[e].Tbl
    <3>1. \A u \in Task : k.tcb[u].Prio = old => u = o
      BY <1>1, PriosDiffer DEF Sound
    <3>2. e # None
      BY CoreAssumption
    <3>3. k.tcb[o].EventPtr # None => k.tcb[o].StatPend # "TO" /\ ~Waiting(k, o)
      BY <1>1, <2>4 DEF Sound, InOnePend, OnePend, Waiting
    <3> QED
      BY <1>1, <3>1, <3>2, <3>3 DEF Sound, Queued
  <2>6. SameRunning(r, k)
    BY <1>6, <2>3 DEF SameRunning, SameNesting
  <2>7. r.tcb = [k.tcb EXCEPT ![o] = b] /\ r.PrioTbl = [k.PrioTbl EXCEPT ![Pip] = o]
    BY <1>6, <2>3
  <2>8. Swapped(r.Rdy, k.Rdy, BasePrio[o], Pip)
    BY <1>2, <1>7, <2>3 DEF Swapped, R
  <2>9. \A e \in Event : /\ r.ev[e].Ptr = k.ev[e].Ptr /\ r.ev[e].Cnt = k.ev[e].Cnt
                         /\ Swapped(r.ev[e].Tbl, k.ev[e].Tbl, BasePrio[o], Pip)
    BY <1>2, <1>6, <2>3, <2>5 DEF Swapped
  <2> QED
    BY <2>3, <2>6, <2>7, <2>8, <2>9 DEF r, b
<1>8. CASE old \notin k.Rdy
  <2>1. e2 # None => Waiting(k, o)
    <3>1. e2 # None => k.tcb[o].Dly = 0 /\ "SUSPEND" \notin k.tcb[o].Stat
      BY <1>1 DEF Sound, InOnePend, OnePend
    <3>2. ~(k.tcb[o].Stat = {} /\ k.tcb[o].Dly = 0)
      BY <1>1, <1>8 DEF Sound, Listed
    <3>3. k.tcb[o].Stat \subseteq PendAny \cup {"SUSPEND"}
      BY <1>1 DEF TCB, Stats
    <3> QED
      BY <3>1, <3>2, <3>3 DEF Waiting
  <2>2. ASSUME NEW e \in Event PROVE old \in k.ev[e].Tbl <=> e = e2
    <3>1. \A u \in Task : k.tcb[u].Prio = old => u = o
      BY <1>1, PriosDiffer DEF Sound
    <3>2. e # None
      BY CoreAssumption
    <3> QED
      BY <1>1, <2>1, <3>1, <3>2 DEF Sound, Queued
  <2>3. Swapped(k.Rdy, k.Rdy, BasePrio[o], Pip)
    BY <1>2, <1>8 DEF Swapped
  <2>4. CASE e2 # None
    <3>1. e2 \in Event /\ c \in ECB(Ptrs) /\ k1 \in KernelState(Ptrs)
          /\ c.Ptr = k.ev[e2].Ptr /\ c.Cnt = k.ev[e2].Cnt /\ c.Tbl = (k.ev[e2].Tbl \ {old}) \cup {Pip}
      <4>1. e2 \in Event
        BY <1>1, <2>4 DEF TCB
      <4> HIDE DEF e2
      <4>2. k.ev[e2] \in ECB(Ptrs) /\ old \in Prios
        BY <1>1, <4>1 DEF TCB
      <4> QED
        BY <1>2, <1>6, <4>1, <4>2 DEF ECB
    <3>2. r = WithEvent(k1, e2, c)
      <4>1. r = [k1 EXCEPT !.ev[e2].Tbl = (@ \ {old}) \cup {Pip}]
        BY <1>5, <1>8, <2>4 DEF Promote
      <4> QED
        BY <1>6, <3>1, <4>1 DEF WithEvent
    <3> HIDE DEF c, r, e2
    <3>3. /\ r \in KernelState(Ptrs) /\ r.ev = [k1.ev EXCEPT ![e2] = c]
          /\ r.tcb = k1.tcb /\ r.PrioTbl = k1.PrioTbl /\ r.Rdy = k1.Rdy /\ SameRunning(r, k1)
      BY <3>1, <3>2, SetEvent
    <3>4. SameRunning(r, k)
      BY <1>6, <3>3 DEF SameRunning, SameNesting
    <3>5. r.tcb = [k.tcb EXCEPT ![o] = b] /\ r.PrioTbl = [k.PrioTbl EXCEPT ![Pip] = o] /\ r.Rdy = k.Rdy
      BY <1>6, <3>3
    <3>6. ASSUME NEW e \in Event
          PROVE  /\ r.ev[e].Ptr = k.ev[e].Ptr /\ r.ev[e].Cnt = k.ev[e].Cnt
                 /\ Swapped(r.ev[e].Tbl, k.ev[e].Tbl, BasePrio[o], Pip)
      <4>1. e = e2 => r.ev[e] = c
        BY <1>1, <1>6, <3>1, <3>3
      <4>2. e # e2 => r.ev[e] = k.ev[e]
        BY <1>1, <1>6, <3>1, <3>3
      <4> QED
        BY <1>2, <2>2, <3>1, <4>1, <4>2 DEF Swapped
    <3> QED
      BY <2>3, <3>3, <3>4, <3>5, <3>6 DEF r, b
  <2>5. CASE e2 = None
    <3>1. r = k1
      BY <1>5, <1>8, <2>5 DEF Promote
    <3>2. \A e \in Event : Swapped(k.ev[e].Tbl, k.ev[e].Tbl, BasePrio[o], Pip)
      BY <1>2, <2>2, <2>5, CoreAssumption DEF Swapped
    <3> HIDE DEF r
    <3> QED
      BY <1>6, <2>3, <3>1, <3>2 DEF r, b
  <2> QED
    BY <2>4, <2>5
<1> QED
  BY <1>7, <1>8

\* The raised owner is found by its new priority wherever it was found before.
LEMMA PromotedSteady ==
    ASSUME NEW k, Steady(k), NEW o \in User, k.ev[M].Ptr = o, k.tcb[o].Prio # Pip, o # k.Cur
    PROVE  LET r == Promote(k, o, Pip)
           IN  /\ Steady(r) /\ SameRunning(r, k)
               /\ r.tcb[o].Prio = Pip /\ \A u \in Task \ {o} : r.tcb[u] = k.tcb[u]
               /\ \A u \in Task : /\ r.tcb[u].Stat = k.tcb[u].Stat /\ r.tcb[u].StatPend = k.tcb[u].StatPend
                                  /\ r.tcb[u].Dly = k.tcb[u].Dly /\ r.tcb[u].EventPtr = k.tcb[u].EventPtr
                                  /\ r.tcb[u].Msg = k.tcb[u].Msg
               /\ \A e \in Event : r.ev[e].Ptr = k.ev[e].Ptr /\ r.ev[e].Cnt = k.ev[e].Cnt
<1> DEFINE r == Promote(k, o, Pip)
           b == [k.tcb[o] EXCEPT !.Prio = Pip]
           old == BasePrio[o]
<1>1. /\ Sound(k) /\ k \in KernelState(Ptrs) /\ o \in Task /\ k.tcb[o] \in TCB(Ptrs)
  BY DEF Steady, Settled, Sound, KernelState, User
<1>2. /\ r \in KernelState(Ptrs) /\ SameRunning(r, k)
      /\ r.tcb = [k.tcb EXCEPT ![o] = b]
      /\ r.PrioTbl = [k.PrioTbl EXCEPT ![Pip] = o]
      /\ Swapped(r.Rdy, k.Rdy, old, Pip)
      /\ \A e \in Event : /\ r.ev[e].Ptr = k.ev[e].Ptr /\ r.ev[e].Cnt = k.ev[e].Cnt
                          /\ Swapped(r.ev[e].Tbl, k.ev[e].Tbl, old, Pip)
  BY PromoteFields
<1>3. /\ b.Prio = Pip /\ b.Stat = k.tcb[o].Stat /\ b.StatPend = k.tcb[o].StatPend
      /\ b.Dly = k.tcb[o].Dly /\ b.EventPtr = k.tcb[o].EventPtr /\ b.Msg = k.tcb[o].Msg
  BY <1>1 DEF TCB
<1> HIDE DEF r, b
<1>4. r.tcb[o] = b /\ \A u \in Task \ {o} : r.tcb[u] = k.tcb[u]
  BY <1>1, <1>2 DEF KernelState
<1>5. \A u \in Task : /\ r.tcb[u].Stat = k.tcb[u].Stat /\ r.tcb[u].StatPend = k.tcb[u].StatPend
                      /\ r.tcb[u].Dly = k.tcb[u].Dly /\ r.tcb[u].EventPtr = k.tcb[u].EventPtr
                      /\ r.tcb[u].Msg = k.tcb[u].Msg
  BY <1>3, <1>4
<1>6. /\ k.tcb[o].Prio = old /\ r.tcb[o].Prio = Pip
      /\ \A u \in Task \ {o} : /\ k.tcb[u].Prio # Pip /\ k.tcb[u].Prio # old
                               /\ r.tcb[u].Prio = k.tcb[u].Prio
  <2>1. k.tcb[o].Prio = old
    BY <1>1 DEF Sound, Prioritized
  <2>2. \A u \in Task : k.tcb[u].Prio = Pip => u = o
    BY <1>1 DEF Sound, Prioritized
  <2> QED
    BY <1>1, <1>3, <1>4, <2>1, <2>2, PriosDiffer DEF Sound
<1>7. M \in Event /\ B \in Event /\ S \in Event /\ old # Pip
  BY KernelAssumption, PipIsApart, <1>1
<1>8. Pip \notin k.Rdy /\ \A e \in Event : Pip \notin k.ev[e].Tbl
  <2>1. \A u \in Task : k.tcb[u].Prio # Pip
    BY <1>6, <1>7
  <2> QED
    BY <1>1, <2>1 DEF Sound, Listed, Queued
<1>9. \A u \in Task : Waiting(r, u) <=> Waiting(k, u)
  BY <1>5 DEF Waiting
<1>10. Prioritized(r)
  <2>1. r.PrioTbl[Pip] = o /\ \A p \in Prios \ {Pip} : r.PrioTbl[p] = k.PrioTbl[p]
    BY <1>1, <1>2, PipIsApart DEF KernelState
  <2>2. Prioritized(k)
    BY <1>1 DEF Sound
  <2>3. ASSUME NEW u \in Task, u # o
        PROVE  /\ r.tcb[u].Prio \in {BasePrio[u], Pip} /\ r.tcb[u].Prio # Pip
               /\ r.PrioTbl[r.tcb[u].Prio] = u /\ r.PrioTbl[BasePrio[u]] = u
    <3>1. k.tcb[u].Prio = BasePrio[u] /\ k.tcb[u].Prio # Pip /\ r.tcb[u].Prio = k.tcb[u].Prio
      BY <1>6, <2>2, <2>3 DEF Prioritized
    <3>2. BasePrio[u] \in Prios \ {Pip}
      BY PipIsApart
    <3>3. r.PrioTbl[BasePrio[u]] = k.PrioTbl[BasePrio[u]]
      BY <2>1, <3>2
    <3>4. k.PrioTbl[BasePrio[u]] = u
      BY <2>2 DEF Prioritized
    <3> QED
      BY <3>1, <3>3, <3>4
  <2>4. r.PrioTbl[BasePrio[o]] = o
    BY <1>1, <2>1, <2>2, PipIsApart DEF Prioritized
  <2> QED
    BY <1>2, <1>6, <1>7, <2>1, <2>3, <2>4 DEF Prioritized
<1>11. Listed(r)
  <2>1. Listed(k)
    BY <1>1 DEF Sound
  <2>2. \A p : p \in r.Rdy <=> (p \in k.Rdy /\ p # old) \/ (p = Pip /\ old \in k.Rdy)
    BY <1>2 DEF Swapped
  <2>3. \A p \in r.Rdy : \E u \in Task : r.tcb[u].Prio = p
    <3> SUFFICES ASSUME NEW p \in r.Rdy PROVE \E u \in Task : r.tcb[u].Prio = p
      OBVIOUS
    <3>1. CASE p = Pip
      BY <1>1, <1>6, <3>1
    <3>2. CASE p # Pip
      <4>1. PICK u \in Task : k.tcb[u].Prio = p
        BY <2>1, <2>2, <3>2 DEF Listed
      <4>2. p # old
        BY <2>2, <3>2
      <4> QED
        BY <1>6, <4>1, <4>2
    <3> QED
      BY <3>1, <3>2
  <2>4. ASSUME NEW u \in Task
        PROVE  r.tcb[u].Prio \in r.Rdy <=> r.tcb[u].Stat = {} /\ r.tcb[u].Dly = 0
    <3>1. r.tcb[u].Prio \in r.Rdy <=> k.tcb[u].Prio \in k.Rdy
      BY <1>6, <1>8, <2>2
    <3> QED
      BY <1>5, <2>1, <3>1 DEF Listed
  <2> QED
    BY <1>5, <2>1, <2>3, <2>4, CoreAssumption DEF Listed
<1>12. Queued(r)
  <2>1. Queued(k)
    BY <1>1 DEF Sound
  <2>2. \A e \in Event : \A p : p \in r.ev[e].Tbl
            <=> (p \in k.ev[e].Tbl /\ p # old) \/ (p = Pip /\ old \in k.ev[e].Tbl)
    BY <1>2 DEF Swapped
  <2>3. ASSUME NEW e \in Event, NEW p \in r.ev[e].Tbl
        PROVE  \E u \in Task : /\ r.tcb[u].Prio = p /\ r.tcb[u].EventPtr = e /\ r.tcb[u].Msg = None
                               /\ Waiting(r, u) \/ r.tcb[u].StatPend = "TO"
    <3> DEFINE q == IF p = Pip THEN old ELSE p
    <3>1. q \in k.ev[e].Tbl /\ (p # Pip => p # old)
      BY <1>8, <2>2, <2>3
    <3>2. PICK u \in Task : /\ k.tcb[u].Prio = q /\ k.tcb[u].EventPtr = e /\ k.tcb[u].Msg = None
                            /\ Waiting(k, u) \/ k.tcb[u].StatPend = "TO"
      BY <2>1, <3>1 DEF Queued
    <3>3. r.tcb[u].Prio = p
      BY <1>6, <3>1, <3>2
    <3> QED
      BY <1>5, <1>9, <3>2, <3>3
  <2>4. ASSUME NEW u \in Task, Waiting(r, u)
        PROVE  r.tcb[u].EventPtr # None /\ r.tcb[u].Prio \in r.ev[r.tcb[u].EventPtr].Tbl
    <3>1. k.tcb[u].EventPtr # None /\ k.tcb[u].Prio \in k.ev[k.tcb[u].EventPtr].Tbl
      BY <1>9, <2>1, <2>4 DEF Queued
    <3>2. k.tcb[u].EventPtr \in Event
      BY <1>1, <3>1 DEF KernelState, TCB
    <3> QED
      BY <1>5, <1>6, <2>2, <3>1, <3>2
  <2> QED
    BY <2>3, <2>4 DEF Queued
<1>13. InOnePend(r)
  BY <1>1, <1>2, <1>5, <1>7, <1>9 DEF Sound, InOnePend, OnePend
<1>14. OneHolder(r)
  BY <1>1, <1>2, <1>5, <1>7, <1>9 DEF Sound, OneHolder
<1>15. Counted(r)
  BY <1>1, <1>2, <1>5, <1>7, <1>9 DEF Sound, Counted, Missing
<1>16. Owed(r)
  BY <1>2, <1>6, <1>7 DEF Owed
<1>17. Sound(r)
  BY <1>2, <1>10, <1>11, <1>12, <1>13, <1>14, <1>15, <1>16 DEF Sound
<1>18. Steady(r)
  <2>1. k.Cur \in Task /\ k.tcb[k.Cur].Prio = k.PrioCur /\ k.PrioCur \in k.Rdy
    BY RunningTask DEF Steady
  <2>2. r.tcb[k.Cur].Prio = k.PrioCur /\ k.PrioCur \in r.Rdy
    BY <1>2, <1>6, <2>1 DEF Swapped
  <2> QED
    BY <1>2, <1>17, <2>2 DEF SameRunning, SameNesting, Steady, Settled
<1> QED
  BY <1>2, <1>4, <1>5, <1>6, <1>18 DEF r

\* The owner gives back the priority it was raised to.
Lowered(k) == [IF k.tcb[k.Cur].Prio = Pip THEN OSMutex_RdyAtPrio(k, k.ev[M].Cnt) ELSE k
                  EXCEPT !.PrioTbl[Pip] = Reserved]

\* What giving back the priority changes.
LEMMA LoweredFields ==
    ASSUME NEW k, Steady(k), k.ev[M].Ptr = k.Cur, k.Cur # Idle
    PROVE  LET r == Lowered(k)
               t == k.Cur
               b == [k.tcb[t] EXCEPT !.Prio = BasePrio[t]]
           IN  /\ r \in KernelState(Ptrs) /\ r.tcb = [k.tcb EXCEPT ![t] = b]
               /\ \A p \in Prios \ {Pip} : r.PrioTbl[p] = k.PrioTbl[p]
               /\ r.Rdy = (k.Rdy \ {k.tcb[t].Prio}) \cup {BasePrio[t]} /\ r.ev = k.ev
               /\ r.Cur = t /\ r.PrioCur = BasePrio[t] /\ SameNesting(r, k)
<1> DEFINE t == k.Cur
           b == [k.tcb[t] EXCEPT !.Prio = BasePrio[t]]
           p == BasePrio[t]
           k1 == IF k.tcb[t].Prio = Pip THEN OSMutex_RdyAtPrio(k, k.ev[M].Cnt) ELSE k
           r == Lowered(k)
<1>1. /\ Sound(k) /\ k \in KernelState(Ptrs) /\ t \in Task /\ k.tcb[t] \in TCB(Ptrs)
      /\ k.tcb[t].Prio = k.PrioCur /\ k.PrioCur \in k.Rdy
  BY RunningTask DEF Steady, Settled, Sound
<1>2. k.ev[M].Cnt = p /\ p \in Prios \ {Pip} /\ k.PrioTbl[p] = t /\ k.tcb[t].Prio \in {p, Pip}
  BY <1>1, PipIsApart, CoreAssumption DEF Sound, Counted, Prioritized
<1>3. b \in TCB(Ptrs) /\ b.Prio = p
  BY <1>1, <1>2 DEF TCB
<1>4. /\ k1 \in KernelState(Ptrs) /\ k1.tcb = [k.tcb EXCEPT ![t] = b]
      /\ k1.PrioTbl = k.PrioTbl
      /\ k1.Rdy = (k.Rdy \ {k.tcb[t].Prio}) \cup {p} /\ k1.ev = k.ev
      /\ k1.Cur = t /\ k1.PrioCur = p /\ SameNesting(k1, k)
  <2>1. CASE k.tcb[t].Prio = Pip
    <3> DEFINE n == NotReady(k, t)
               n1 == [n EXCEPT !.tcb[t].Prio = p, !.PrioCur = p, !.PrioTbl[p] = t]
               R == k.Rdy \ {k.tcb[t].Prio}
    <3>1. /\ n \in KernelState(Ptrs) /\ n.Rdy = R
          /\ n.tcb = k.tcb /\ n.PrioTbl = k.PrioTbl /\ n.ev = k.ev /\ SameRunning(n, k)
      BY <1>1, NotReadyFields
    <3>2. k1 = Ready(n1, t)
      BY <1>2, <2>1 DEF OSMutex_RdyAtPrio
    <3> HIDE DEF n, k1
    <3>3. /\ n1.tcb = [n.tcb EXCEPT ![t] = [n.tcb[t] EXCEPT !.Prio = p]]
          /\ n1.PrioTbl = [n.PrioTbl EXCEPT ![p] = t] /\ n1.PrioCur = p /\ n1.Rdy = n.Rdy
          /\ n1.ev = n.ev /\ n1.Cur = n.Cur /\ SameNesting(n1, n)
          /\ DOMAIN n1 = DOMAIN n
      BY <3>1 DEF KernelState, SameNesting
    <3>4. /\ n1.tcb = [k.tcb EXCEPT ![t] = b] /\ n1.PrioTbl = k.PrioTbl
          /\ n1.tcb \in [Task -> TCB(Ptrs)]
      <4>1. n1.tcb = [k.tcb EXCEPT ![t] = b]
        BY <3>1, <3>3
      <4>2. [k.PrioTbl EXCEPT ![p] = t] = k.PrioTbl
        BY <1>1, <1>2 DEF KernelState
      <4> QED
        BY <1>1, <1>3, <3>1, <3>3, <4>1, <4>2 DEF KernelState
    <3>5. n1 \in KernelState(Ptrs)
      <4>1. n1 = [n EXCEPT !.tcb = n1.tcb, !.PrioCur = p, !.PrioTbl = k.PrioTbl]
        BY <3>1, <3>3, <3>4 DEF KernelState
      <4> HIDE DEF n1
      <4> QED
        BY <1>1, <1>2, <3>1, <3>4, <4>1 DEF KernelState
    <3> HIDE DEF n1
    <3>6. n1.tcb[t].Prio = p
      BY <1>1, <1>3, <3>4 DEF KernelState
    <3>7. /\ k1 \in KernelState(Ptrs) /\ k1.Rdy = n1.Rdy \cup {n1.tcb[t].Prio}
          /\ k1.tcb = n1.tcb /\ k1.PrioTbl = n1.PrioTbl /\ k1.ev = n1.ev /\ SameRunning(k1, n1)
      BY <1>1, <3>2, <3>5, ReadyFields
    <3> QED
      BY <3>1, <3>3, <3>4, <3>6, <3>7 DEF SameRunning, SameNesting
  <2>2. CASE k.tcb[t].Prio # Pip
    <3>1. k1 = k /\ k.tcb[t].Prio = p
      BY <1>2, <2>2
    <3>2. [k.tcb EXCEPT ![t] = b] = k.tcb
      BY <1>1, <3>1 DEF KernelState, TCB
    <3>3. (k.Rdy \ {k.tcb[t].Prio}) \cup {p} = k.Rdy
      BY <1>1, <3>1
    <3> QED
      BY <1>1, <3>1, <3>2, <3>3 DEF SameNesting
  <2> QED
    BY <2>1, <2>2
<1>5. r = WithPrio(k1, Pip, Reserved)
  BY DEF Lowered, WithPrio
<1> HIDE DEF k1, r, b
<1>6. /\ r \in KernelState(Ptrs) /\ r.PrioTbl = [k1.PrioTbl EXCEPT ![Pip] = Reserved]
      /\ r.tcb = k1.tcb /\ r.Rdy = k1.Rdy /\ r.ev = k1.ev /\ SameRunning(r, k1)
  BY <1>4, <1>5, PipIsApart, SetPrio
<1>7. \A q \in Prios \ {Pip} : r.PrioTbl[q] = k.PrioTbl[q]
  BY <1>4, <1>6 DEF KernelState
<1> QED
  BY <1>4, <1>6, <1>7 DEF r, b, SameRunning, SameNesting

\* With the priority given back, all is in order but what is owed to the waiters.
LEMMA LoweredSound ==
    ASSUME NEW k, Steady(k), k.ev[M].Ptr = k.Cur, k.Cur # Idle, ~InPend(k, k.Cur)
    PROVE  LET r == Lowered(k)
           IN  /\ r \in KernelState(Ptrs) /\ Prioritized(r) /\ Listed(r) /\ Queued(r) /\ InOnePend(r)
               /\ OneHolder(r) /\ Counted(r)
               /\ r.ev = k.ev /\ \A u \in Task : r.tcb[u].Prio = BasePrio[u]
               /\ MailKept(k, r) /\ AnswersKept(k, r)
               /\ \A u \in Task : Waiting(r, u) <=> Waiting(k, u)
               /\ \A u \in Task : r.tcb[u].EventPtr = k.tcb[u].EventPtr
               /\ r.tcb[r.Cur].Prio = r.PrioCur /\ r.PrioCur \in r.Rdy
               /\ r.Cur = k.Cur /\ SameNesting(r, k)
<1> DEFINE r == Lowered(k)
           t == k.Cur
           b == [k.tcb[t] EXCEPT !.Prio = BasePrio[t]]
           p == BasePrio[t]
           old == k.tcb[t].Prio
<1>1. /\ r \in KernelState(Ptrs) /\ r.tcb = [k.tcb EXCEPT ![t] = b]
      /\ \A q \in Prios \ {Pip} : r.PrioTbl[q] = k.PrioTbl[q]
      /\ r.Rdy = (k.Rdy \ {old}) \cup {p} /\ r.ev = k.ev
      /\ r.Cur = t /\ r.PrioCur = p /\ SameNesting(r, k)
  BY LoweredFields
<1>2. /\ Sound(k) /\ k \in KernelState(Ptrs) /\ t \in Task /\ k.tcb[t] \in TCB(Ptrs)
      /\ k.tcb[t].Stat = {} /\ k.tcb[t].Dly = 0
  BY RunningTask DEF Steady, Settled, Sound
<1>3. k.tcb[t].EventPtr = None /\ \A e \in Event : old \notin k.ev[e].Tbl
  BY <1>2, OutOfPend
<1>4. /\ b.Prio = p /\ b.Stat = k.tcb[t].Stat /\ b.StatPend = k.tcb[t].StatPend
      /\ b.Dly = k.tcb[t].Dly /\ b.EventPtr = k.tcb[t].EventPtr /\ b.Msg = k.tcb[t].Msg
  BY <1>2 DEF TCB
<1> HIDE DEF r, b
<1>5. r.tcb[t] = b /\ \A u \in Task \ {t} : r.tcb[u] = k.tcb[u]
  BY <1>1, <1>2 DEF KernelState
<1>6. /\ \A u \in Task : /\ r.tcb[u].Stat = k.tcb[u].Stat /\ r.tcb[u].StatPend = k.tcb[u].StatPend
                         /\ r.tcb[u].Dly = k.tcb[u].Dly /\ r.tcb[u].EventPtr = k.tcb[u].EventPtr
                         /\ r.tcb[u].Msg = k.tcb[u].Msg
      /\ \A u \in Task : Waiting(r, u) <=> Waiting(k, u)
  BY <1>4, <1>5 DEF Waiting
<1>7. \A u \in Task : r.tcb[u].Prio = BasePrio[u] /\ (u # t => k.tcb[u].Prio = BasePrio[u])
  <2>1. \A u \in Task : u # t => k.tcb[u].Prio = BasePrio[u]
    BY <1>2 DEF Sound, Prioritized
  <2> QED
    BY <1>4, <1>5, <2>1
<1>8. Prioritized(r)
  <2>1. \A u \in Task : k.PrioTbl[BasePrio[u]] = u
    BY <1>2 DEF Sound, Prioritized
  <2>2. ASSUME NEW u \in Task PROVE r.PrioTbl[BasePrio[u]] = u /\ BasePrio[u] # Pip
    <3>1. BasePrio[u] \in Prios \ {Pip}
      BY PipIsApart
    <3> QED
      BY <1>1, <2>1, <3>1
  <2> QED
    BY <1>7, <2>2 DEF Prioritized
<1>9. \A u, v \in Task : BasePrio[u] = BasePrio[v] => u = v
  BY KernelAssumption
<1>10. \A u \in Task \ {t} : BasePrio[u] # old /\ BasePrio[u] # p
  BY <1>2, <1>7, <1>9, PriosDiffer DEF Sound
<1>11. Listed(r)
  <2>1. Listed(k)
    BY <1>2 DEF Sound
  <2>2. \A q \in r.Rdy : \E u \in Task : r.tcb[u].Prio = q
    <3> SUFFICES ASSUME NEW q \in r.Rdy PROVE \E u \in Task : r.tcb[u].Prio = q
      OBVIOUS
    <3>1. CASE q = p
      BY <1>2, <1>7, <3>1
    <3>2. CASE q # p
      <4>1. q \in k.Rdy /\ q # old
        BY <1>1, <3>2
      <4>2. PICK u \in Task : k.tcb[u].Prio = q
        BY <2>1, <4>1 DEF Listed
      <4> QED
        BY <1>7, <4>1, <4>2
    <3> QED
      BY <3>1, <3>2
  <2>3. ASSUME NEW u \in Task
        PROVE  r.tcb[u].Prio \in r.Rdy <=> r.tcb[u].Stat = {} /\ r.tcb[u].Dly = 0
    <3>1. CASE u = t
      BY <1>1, <1>2, <1>4, <1>5, <3>1
    <3>2. CASE u # t
      <4>1. r.tcb[u].Prio \in r.Rdy <=> k.tcb[u].Prio \in k.Rdy
        BY <1>1, <1>7, <1>10, <3>2
      <4> QED
        BY <1>6, <2>1, <4>1 DEF Listed
    <3> QED
      BY <3>1, <3>2
  <2> QED
    BY <1>6, <2>1, <2>2, <2>3, CoreAssumption DEF Listed
<1>12. Queued(r)
  <2>1. Queued(k)
    BY <1>2 DEF Sound
  <2>2. ASSUME NEW e \in Event, NEW q \in r.ev[e].Tbl
        PROVE  \E u \in Task : /\ r.tcb[u].Prio = q /\ r.tcb[u].EventPtr = e /\ r.tcb[u].Msg = None
                               /\ Waiting(r, u) \/ r.tcb[u].StatPend = "TO"
    <3>1. PICK u \in Task : /\ k.tcb[u].Prio = q /\ k.tcb[u].EventPtr = e /\ k.tcb[u].Msg = None
                            /\ Waiting(k, u) \/ k.tcb[u].StatPend = "TO"
      BY <1>1, <2>1 DEF Queued
    <3>2. u # t
      BY <1>3, <3>1, CoreAssumption
    <3>3. r.tcb[u].Prio = q
      BY <1>7, <3>1, <3>2
    <3> QED
      BY <1>6, <3>1, <3>3
  <2>3. ASSUME NEW u \in Task, Waiting(r, u)
        PROVE  r.tcb[u].EventPtr # None /\ r.tcb[u].Prio \in r.ev[r.tcb[u].EventPtr].Tbl
    <3>1. k.tcb[u].EventPtr # None /\ k.tcb[u].Prio \in k.ev[k.tcb[u].EventPtr].Tbl
      BY <1>6, <2>1, <2>3 DEF Queued
    <3>2. u # t
      BY <1>3, <3>1
    <3> QED
      BY <1>1, <1>5, <3>1, <3>2
  <2> QED
    BY <2>2, <2>3 DEF Queued
<1>13. InOnePend(r)
  BY <1>1, <1>2, <1>6 DEF Sound, InOnePend, OnePend
<1>14. OneHolder(r)
  BY <1>1, <1>2, <1>6 DEF Sound, OneHolder
<1>15. Counted(r)
  BY <1>1, <1>2, <1>6 DEF Sound, Counted, Missing
<1>16. MailKept(k, r) /\ AnswersKept(k, r)
  BY <1>1, <1>6 DEF MailKept, AnswersKept
<1>17. r.tcb[r.Cur].Prio = r.PrioCur /\ r.PrioCur \in r.Rdy
  BY <1>1, <1>2, <1>7
<1> QED
  BY <1>1, <1>6, <1>7, <1>8, <1>11, <1>12, <1>13, <1>14, <1>15, <1>16, <1>17 DEF r

\* The mutex is released to nobody, or to the most urgent waiter.
Freed(k) == [Lowered(k) EXCEPT !.ev[M].Cnt = OS_MUTEX_AVAILABLE, !.ev[M].Ptr = None]
Given(k) ==
    LET k2 == Lowered(k)
        p  == Highest(k2.ev[M].Tbl)
    IN  [OS_EventTaskRdy(k2, M, None, "MUTEX", "OK") EXCEPT !.ev[M].Cnt = p, !.ev[M].Ptr = k2.PrioTbl[p]]

\* With nobody in its list the mutex becomes available.
LEMMA FreedSteady ==
    ASSUME NEW k, Steady(k), k.ev[M].Ptr = k.Cur, k.Cur # Idle, ~InPend(k, k.Cur),
           k.ev[M].Tbl = {}
    PROVE  LET r == Freed(k)
           IN  /\ Steady(r) /\ MailKept(k, r) /\ AnswersKept(k, r)
               /\ r.Cur = k.Cur /\ r.LockNesting = k.LockNesting
<1> DEFINE k2 == Lowered(k)
           c == [k2.ev[M] EXCEPT !.Cnt = OS_MUTEX_AVAILABLE, !.Ptr = None]
           r == Freed(k)
<1>1. /\ k2 \in KernelState(Ptrs) /\ Prioritized(k2) /\ Listed(k2) /\ Queued(k2) /\ InOnePend(k2)
      /\ OneHolder(k2) /\ Counted(k2)
      /\ k2.ev = k.ev /\ \A u \in Task : k2.tcb[u].Prio = BasePrio[u]
      /\ MailKept(k, k2) /\ AnswersKept(k, k2)
      /\ \A u \in Task : Waiting(k2, u) <=> Waiting(k, u)
      /\ \A u \in Task : k2.tcb[u].EventPtr = k.tcb[u].EventPtr
      /\ k2.tcb[k2.Cur].Prio = k2.PrioCur /\ k2.PrioCur \in k2.Rdy
      /\ k2.Cur = k.Cur /\ SameNesting(k2, k)
  BY LoweredSound
<1>2. r = WithEvent(k2, M, c)
  BY DEF WithEvent, Freed
<1> HIDE DEF k2, r
<1>3. M \in Event /\ B \in Event /\ S \in Event /\ M # B /\ B # S /\ S # M
  BY KernelAssumption
<1>4. k2.ev[M] \in ECB(Ptrs) /\ k2.ev \in [Event -> ECB(Ptrs)]
  BY <1>1, <1>3 DEF KernelState
<1>5. c \in ECB(Ptrs) /\ c.Cnt = OS_MUTEX_AVAILABLE /\ c.Ptr = None /\ c.Tbl = k2.ev[M].Tbl
  BY <1>4, MutexAssumption DEF ECB, Ptrs
<1> HIDE DEF c
<1>6. /\ r \in KernelState(Ptrs) /\ r.ev = [k2.ev EXCEPT ![M] = c]
      /\ r.tcb = k2.tcb /\ r.PrioTbl = k2.PrioTbl /\ r.Rdy = k2.Rdy /\ SameRunning(r, k2)
  <2>1. k2 \in KernelState(Ptrs)
    BY <1>1
  <2> QED
    BY <1>2, <1>3, <1>5, <2>1, SetEvent
<1>7. /\ r.ev[M] = c /\ \A e \in Event : e # M => r.ev[e] = k2.ev[e]
      /\ \A e \in Event : r.ev[e].Tbl = k2.ev[e].Tbl
  BY <1>3, <1>4, <1>5, <1>6
<1>8. \A u \in Task : Waiting(k2, u) => k2.tcb[u].EventPtr # M
  BY <1>1 DEF Queued
<1>9. Prioritized(r)
  BY <1>1, <1>6, PipIsApart DEF Prioritized
<1>10. Listed(r)
  BY <1>1, <1>6 DEF Listed
<1>11. Queued(r)
  <2>1. \A u \in Task : Waiting(k2, u) => k2.tcb[u].EventPtr \in Event
    BY <1>1 DEF Queued, KernelState, TCB
  <2>2. Queued(k2)
    BY <1>1
  <2> QED
    BY <1>6, <1>7, <2>1, <2>2 DEF Queued, Waiting
<1>12. InOnePend(r)
  <2>1. r.ev[M].Ptr = None /\ InOnePend(k2)
    BY <1>1, <1>5, <1>7
  <2> QED
    BY <1>6, <2>1, CoreAssumption DEF InOnePend, OnePend, Waiting
<1>13. OneHolder(r)
  BY <1>1, <1>3, <1>6, <1>7 DEF OneHolder, Waiting
<1>14. Counted(r)
  <2>1. r.ev[M].Ptr = None /\ r.ev[M].Cnt = OS_MUTEX_AVAILABLE /\ Counted(k2)
    BY <1>1, <1>5, <1>7
  <2> QED
    BY <1>3, <1>6, <1>7, <1>8, <2>1, CoreAssumption DEF Counted, Missing, Waiting
<1>15. Owed(r)
  BY <1>6, <1>8 DEF Owed, Waiting
<1>16. Sound(r)
  BY <1>6, <1>9, <1>10, <1>11, <1>12, <1>13, <1>14, <1>15 DEF Sound
<1>17. Steady(r)
  BY <1>1, <1>6, <1>16 DEF Steady, Settled, SameRunning, SameNesting
<1>18. MailKept(k, r) /\ AnswersKept(k, r)
  BY <1>1, <1>3, <1>6, <1>7 DEF MailKept, AnswersKept
<1> QED
  BY <1>1, <1>6, <1>17, <1>18 DEF r, SameRunning, SameNesting

\* Else the most urgent waiter owns it, at the priority it has.
LEMMA HandedSettled ==
    ASSUME NEW k, Steady(k), k.ev[M].Ptr = k.Cur, k.Cur # Idle, ~InPend(k, k.Cur),
           k.ev[M].Tbl # {}
    PROVE  LET r == Given(k)
           IN  /\ Settled(r) /\ MailKept(k, r) /\ AnswersKept(k, r) /\ r.PrioCur \in r.Rdy
               /\ r.Cur = k.Cur /\ SameNesting(r, k)
<1> DEFINE k2 == Lowered(k)
           t == HighestWaiter(k2, M)
           p == Highest(k2.ev[M].Tbl)
           k3 == OS_EventTaskRdy(k2, M, None, "MUTEX", "OK")
           b == Answered(k2.tcb[t], None, "MUTEX", "OK")
           c == [k3.ev[M] EXCEPT !.Cnt = p, !.Ptr = t]
           r == Given(k)
<1>1. /\ k2 \in KernelState(Ptrs) /\ Prioritized(k2) /\ Listed(k2) /\ Queued(k2) /\ InOnePend(k2)
      /\ OneHolder(k2) /\ Counted(k2)
      /\ k2.ev = k.ev /\ \A u \in Task : k2.tcb[u].Prio = BasePrio[u]
      /\ MailKept(k, k2) /\ AnswersKept(k, k2)
      /\ \A u \in Task : Waiting(k2, u) <=> Waiting(k, u)
      /\ \A u \in Task : k2.tcb[u].EventPtr = k.tcb[u].EventPtr
      /\ k2.tcb[k2.Cur].Prio = k2.PrioCur /\ k2.PrioCur \in k2.Rdy
      /\ k2.Cur = k.Cur /\ SameNesting(k2, k)
  BY LoweredSound
<1>2. k2.PrioTbl[p] = t /\ t = HighestWaiter(k2, M)
  BY DEF HighestWaiter
<1>3. r = WithEvent(k3, M, c)
  BY <1>2 DEF WithEvent, Given
<1> HIDE DEF k2, r
<1>4. /\ M \in Event /\ B \in Event /\ S \in Event /\ M # B /\ B # S /\ S # M
      /\ M # None /\ B # None
  BY KernelAssumption, CoreAssumption
<1>5. k2 \in KernelState(Ptrs)
  BY <1>1
<1>6. /\ t \in Task \ {Idle} /\ k2.tcb[t].EventPtr = M /\ k2.tcb[t].Msg = None
      /\ k2.tcb[t].Prio = p /\ p \in k2.ev[M].Tbl /\ \A q \in k2.ev[M].Tbl : p <= q
      /\ Waiting(k2, t) \/ k2.tcb[t].StatPend = "TO"
  <2>1. Prioritized(k2) /\ Listed(k2) /\ Queued(k2) /\ k2.ev[M].Tbl # {}
    BY <1>1
  <2> QED
    BY <1>4, <1>5, <2>1, WaiterFound
<1> HIDE DEF t, p
<1>7. k2.tcb[t] \in TCB(Ptrs) /\ None \in Ptrs /\ p = BasePrio[t] /\ p \in Prios /\ p # Pip
  <2>1. p = BasePrio[t] /\ p \in Prios /\ p # Pip
    BY <1>1, <1>6, PipIsApart
  <2>2. k2.tcb[t] \in TCB(Ptrs)
    BY <1>5, <1>6 DEF KernelState
  <2> QED
    BY <2>1, <2>2 DEF Ptrs
<1>8. /\ b \in TCB(Ptrs) /\ b.Prio = p /\ b.EventPtr = M /\ b.Stat = k2.tcb[t].Stat \ {"MUTEX"}
      /\ b.StatPend = "OK" /\ b.Dly = 0 /\ b.Msg = None
  BY <1>6, <1>7, AnsweredType
<1>9. /\ k3 \in KernelState(Ptrs) /\ k3.tcb = [k2.tcb EXCEPT ![t] = b]
      /\ "SUSPEND" \in b.Stat => k3.Rdy = k2.Rdy
      /\ "SUSPEND" \notin b.Stat => k3.Rdy = k2.Rdy \cup {p}
      /\ k3.ev = [k2.ev EXCEPT ![M] = [k2.ev[M] EXCEPT !.Tbl = k2.ev[M].Tbl \ {p}]]
      /\ k3.PrioTbl = k2.PrioTbl /\ SameRunning(k3, k2)
  <2>1. t \in Task
    BY <1>6
  <2>2. /\ k3 \in KernelState(Ptrs)
        /\ k3.tcb = [k2.tcb EXCEPT ![t] = Answered(k2.tcb[t], None, "MUTEX", "OK")]
        /\ "SUSPEND" \in k2.tcb[t].Stat \ {"MUTEX"} => k3.Rdy = k2.Rdy
        /\ "SUSPEND" \notin k2.tcb[t].Stat \ {"MUTEX"} => k3.Rdy = k2.Rdy \cup {k2.tcb[t].Prio}
        /\ k3.ev = [k2.ev EXCEPT ![M] = [k2.ev[M] EXCEPT !.Tbl = k2.ev[M].Tbl \ {k2.tcb[t].Prio}]]
        /\ k3.PrioTbl = k2.PrioTbl /\ SameRunning(k3, k2)
    BY <1>2, <1>4, <1>5, <1>7, <2>1, TaskRdyFields
  <2> QED
    BY <1>6, <1>8, <2>2
<1> HIDE DEF b, k3
<1>10. /\ k3.ev[M].Tbl = k2.ev[M].Tbl \ {p} /\ k3.ev[M] \in ECB(Ptrs)
       /\ \A e \in Event : e # M => k3.ev[e] = k2.ev[e]
  <2>1. k2.ev \in [Event -> ECB(Ptrs)] /\ k2.ev[M] \in ECB(Ptrs) /\ k3.ev \in [Event -> ECB(Ptrs)]
    BY <1>4, <1>5, <1>9 DEF KernelState
  <2>2. [k2.ev[M] EXCEPT !.Tbl = k2.ev[M].Tbl \ {p}].Tbl = k2.ev[M].Tbl \ {p}
    BY <2>1 DEF ECB
  <2> QED
    BY <1>4, <1>9, <2>1, <2>2
<1>11. c \in ECB(Ptrs) /\ c.Cnt = p /\ c.Ptr = t /\ c.Tbl = k2.ev[M].Tbl \ {p}
  <2>1. p \in Nat /\ t \in Ptrs
    BY <1>6, <1>7, PipIsApart DEF Ptrs
  <2> QED
    BY <1>10, <2>1 DEF ECB
<1> HIDE DEF c
<1>12. /\ r \in KernelState(Ptrs) /\ r.ev = [k3.ev EXCEPT ![M] = c]
       /\ r.tcb = k3.tcb /\ r.PrioTbl = k3.PrioTbl /\ r.Rdy = k3.Rdy /\ SameRunning(r, k3)
  <2>1. k3 \in KernelState(Ptrs)
    BY <1>9
  <2> QED
    BY <1>3, <1>4, <1>11, <2>1, SetEvent
<1>13. /\ r.ev[M] = c /\ \A e \in Event : e # M => r.ev[e] = k2.ev[e]
  <2>1. k3.ev \in [Event -> ECB(Ptrs)]
    BY <1>9 DEF KernelState
  <2> QED
    BY <1>4, <1>10, <1>12, <2>1
<1>14. r.tcb[t] = b /\ \A u \in Task \ {t} : r.tcb[u] = k2.tcb[u]
  BY <1>5, <1>6, <1>9, <1>12 DEF KernelState
<1>15. Change(k2, r, t)
  BY <1>5, <1>6, <1>8, <1>9, <1>12, <1>14 DEF Change
<1>16. b.Stat \subseteq {"SUSPEND"} /\ "SUSPEND" \notin k2.tcb[t].Stat
  <2>1. OnePend(k2, t)
    BY <1>1, <1>6 DEF InOnePend
  <2>2. k2.tcb[t].Stat \cap PendAny \subseteq {"MUTEX"}
    <3>1. Msk(M) = "MUTEX"
      BY KernelAssumption DEF Msk
    <3> QED
      BY <1>6, <2>1, <3>1 DEF OnePend, Waiting
  <2> QED
    BY <1>6, <1>7, <1>8, <2>1, <2>2 DEF OnePend, TCB, Stats
<1>17. b.Stat = {} /\ r.Rdy = k2.Rdy \cup {p} /\ ~Waiting(r, t)
  BY <1>8, <1>9, <1>12, <1>14, <1>16 DEF Waiting
<1>18. Prioritized(r)
  <2>1. \A u \in Task : k2.tcb[u].Prio # Pip
    BY <1>1, PipIsApart
  <2> QED
    BY <1>1, <1>15, <2>1, KeepsPrioritized
<1>19. Listed(r)
  BY <1>1, <1>6, <1>8, <1>14, <1>15, <1>17, KeepsListed
<1>20. Queued(r)
  <2>1. \A e \in Event : r.ev[e].Tbl \ {p} = k2.ev[e].Tbl \ {p}
    BY <1>11, <1>13
  <2>2. \A e \in Event : p \notin r.ev[e].Tbl
    <3>1. ASSUME NEW e \in Event, e # M PROVE p \notin k2.ev[e].Tbl
      <4>1. \A u \in Task : k2.tcb[u].Prio = p => u = t
        BY <1>1, <1>6, PriosDiffer
      <4> QED
        BY <1>1, <1>6, <3>1, <4>1 DEF Queued
    <3> QED
      BY <1>11, <1>13, <3>1
  <2> QED
    BY <1>1, <1>6, <1>15, <1>17, <2>1, <2>2, KeepsQueued
<1>21. InOnePend(r)
  <2>1. OnePend(r, t)
    BY <1>8, <1>14, <1>17 DEF OnePend
  <2> QED
    BY <1>1, <1>11, <1>13, <1>15, <2>1, KeepsInOnePend
<1>22. OneHolder(r)
  <2>1. OneHolder(k2) /\ r.ev[B].Ptr = k2.ev[B].Ptr /\ r.tcb[t].Msg = None
    BY <1>1, <1>4, <1>8, <1>13, <1>14
  <2> QED
    BY <1>15, <2>1, KeepsOneHolder DEF OneHolder
<1>23. Counted(r)
  <2>1. Counted(k2)
    BY <1>1
  <2>2. /\ r.ev[S].Cnt = k2.ev[S].Cnt /\ r.ev[M].Ptr = t /\ t # None
        /\ r.ev[M].Cnt = BasePrio[t] /\ r.ev[B].Ptr = k2.ev[B].Ptr /\ t \in User
    BY <1>4, <1>6, <1>7, <1>11, <1>13, CoreAssumption DEF User
  <2>3. Missing(r, t)
    BY <1>8, <1>14, <1>17 DEF Missing
  <2> QED
    BY <1>15, <2>1, <2>2, <2>3, KeepsCounted DEF Counted, Missing
<1>24. Owed(r)
  <2>1. ASSUME NEW u \in Task, Waiting(r, u), r.tcb[u].EventPtr = M
        PROVE  ~(BasePrio[u] < BasePrio[t])
    <3>1. u # t /\ Waiting(k2, u) /\ k2.tcb[u].EventPtr = M
      BY <1>14, <1>17, <2>1 DEF Waiting
    <3>2. BasePrio[u] \in k2.ev[M].Tbl
      BY <1>1, <3>1 DEF Queued
    <3>3. p <= BasePrio[u]
      BY <1>6, <3>2
    <3>4. p \in Nat /\ BasePrio[u] \in Nat /\ p = BasePrio[t]
      BY <1>7, PipIsApart
    <3> QED
      BY <3>3, <3>4
  <2> QED
    BY <1>11, <1>13, <2>1 DEF Owed
<1>25. Sound(r)
  BY <1>12, <1>18, <1>19, <1>20, <1>21, <1>22, <1>23, <1>24 DEF Sound
<1>26. Settled(r) /\ r.PrioCur \in r.Rdy /\ r.Cur = k.Cur /\ SameNesting(r, k)
  <2>1. r.Cur = k2.Cur /\ r.PrioCur = k2.PrioCur /\ SameNesting(r, k2)
    BY <1>9, <1>12 DEF SameRunning, SameNesting
  <2>2. k2.Cur \in Task /\ r.tcb[k2.Cur].Prio = k2.tcb[k2.Cur].Prio
    BY <1>5, <1>15 DEF KernelState, Change
  <2>3. r.LockNesting \in {0, 1}
    BY <1>1, <2>1 DEF Steady, Settled, SameNesting
  <2> QED
    BY <1>1, <1>17, <1>25, <2>1, <2>2, <2>3 DEF Settled, SameNesting
<1>27. MailKept(k2, r) /\ AnswersKept(k2, r)
  BY <1>4, <1>6, <1>8, <1>13, <1>14 DEF MailKept, AnswersKept
<1>28. MailKept(k, r) /\ AnswersKept(k, r)
  BY <1>1, <1>27 DEF MailKept, AnswersKept
<1> QED
  BY <1>26, <1>28 DEF r

-----------------------------------------------------------------------------
(* The calls, in a task or in an interrupt.                                   *)

\* There is one most urgent priority.
LEMMA HighestUnique ==
    ASSUME NEW P \in SUBSET Nat, NEW x \in P, \A q \in P : x <= q
    PROVE  Highest(P) = x
<1>1. Highest(P) \in P /\ \A q \in P : Highest(P) <= q
  BY HighestIs
<1>2. x \in Nat /\ Highest(P) \in Nat /\ x <= Highest(P) /\ Highest(P) <= x
  BY <1>1
<1> QED
  BY <1>2

\* A call leaves the running task running and makes nobody ready, or schedules.
Served(k, r) ==
    \/ SameRunning(r, k) /\ r.PrioCur \in r.Rdy /\ r.Rdy \subseteq k.Rdy
    \/ MayPend(r) => r.PrioCur = Highest(r.Rdy) /\ r.PrioCur \in r.Rdy

Finished(k, r) ==
    /\ Settled(r) /\ SameNesting(r, k) /\ Served(k, r)
    /\ ~MayPend(k) => r.Cur = k.Cur /\ r.PrioCur = k.PrioCur

\* A call that ends in OS_Sched().
LEMMA SchedFinished ==
    ASSUME NEW k, NEW k1, Settled(k1), SameRunning(k1, k)
    PROVE  Finished(k, OS_Sched(k1)) /\ SameTables(OS_Sched(k1), k1)
<1> DEFINE r == OS_Sched(k1)
<1>1. /\ Settled(r) /\ SameTables(r, k1) /\ SameNesting(r, k1)
      /\ MayPend(k1) => r.PrioCur = Highest(r.Rdy) /\ r.PrioCur \in r.Rdy
      /\ ~MayPend(k1) => r.Cur = k1.Cur /\ r.PrioCur = k1.PrioCur
  BY SchedSettled
<1> HIDE DEF r
<1> QED
  BY <1>1 DEF r, Finished, Served, MayPend, SameRunning, SameNesting

\* A call that makes nobody ready and does not schedule.
LEMMA StillFinished ==
    ASSUME NEW k, NEW r, Settled(r), SameRunning(r, k), r.PrioCur \in r.Rdy, r.Rdy \subseteq k.Rdy
    PROVE  Finished(k, r)
  BY DEF Finished, Served, SameRunning

\* Tables, not the scheduler, hold the mail.
LEMMA MailByTables ==
    ASSUME NEW k, NEW k1, NEW r, SameTables(r, k1)
    PROVE  /\ MailKept(k, k1) => MailKept(k, r)
           /\ AnswersKept(k, k1) => AnswersKept(k, r)
           /\ DueIn(r) = DueIn(k1)
  BY DEF SameTables, MailKept, AnswersKept, DueIn

\* If nobody's message changes, the same messages are due.
LEMMA MailKeptDue ==
    ASSUME NEW k, NEW r, MailKept(k, r)
    PROVE  DueIn(r) = DueIn(k)
<1>1. ASSUME NEW t \in Task
      PROVE  r.tcb[t].EventPtr = B /\ r.tcb[t].Msg # None <=> k.tcb[t].EventPtr = B /\ k.tcb[t].Msg # None
  BY DEF MailKept
<1>2. ASSUME NEW m \in Message
      PROVE  m \in DueIn(r) <=> m \in DueIn(k)
  BY <1>1 DEF MailKept, DueIn
<1> QED
  BY <1>2 DEF DueIn

\* A task that gets nothing but an answer: a count, or an abort.
LEMMA AnswerFinished ==
    ASSUME NEW k, Settled(k), NEW e \in {B, S}, k.ev[e].Tbl # {}, NEW ps \in {"OK", "ABORT"}
    PROVE  LET r == OS_Sched(OS_EventTaskRdy(k, e, None, Msk(e), ps))
           IN  Finished(k, r) /\ MailKept(k, r) /\ AnswersKept(k, r)
<1> DEFINE k1 == OS_EventTaskRdy(k, e, None, Msk(e), ps)
           r == OS_Sched(k1)
           t == HighestWaiter(k, e)
           b == Answered(k.tcb[t], None, Msk(e), ps)
<1>1. /\ Settled(k1) /\ t \in Task /\ k.tcb[t].EventPtr = e /\ k.tcb[t].Msg = None
      /\ TaskIs(k1, k, t, b) /\ EventsKept(k1, k) /\ SameRunning(k1, k)
      /\ Waiting(k, t) \/ k.tcb[t].StatPend = "TO"
  BY AnswerSettled
<1> HIDE DEF k1, t
<1>2. k.tcb[t] \in TCB(Ptrs) /\ None \in Ptrs /\ B \in Event
  BY <1>1, KernelAssumption DEF Settled, Sound, KernelState, Ptrs
<1>3. b.EventPtr = k.tcb[t].EventPtr /\ b.Msg = None
  BY <1>2, AnsweredType
<1> HIDE DEF b
<1>4. k1.tcb[t] = b /\ \A u \in Task \ {t} : k1.tcb[u] = k.tcb[u]
  BY <1>1 DEF TaskIs
<1>5. MailKept(k, k1) /\ AnswersKept(k, k1)
  BY <1>1, <1>2, <1>3, <1>4 DEF MailKept, AnswersKept, EventsKept
<1>6. Finished(k, r) /\ SameTables(r, k1)
  BY <1>1, SchedFinished
<1> QED
  BY <1>5, <1>6, MailByTables DEF k1

\* The contents of an event are replaced, with nobody in its list.
LEMMA PutFinished ==
    ASSUME NEW k, Settled(k), k.PrioCur \in k.Rdy, NEW e \in {B, S}, NEW c \in ECB(Ptrs),
           c.Tbl = k.ev[e].Tbl, e = B => c.Cnt = k.ev[e].Cnt, e = S => c.Ptr = k.ev[e].Ptr,
           e = S => c.Cnt \in 0 .. SemMax, e = B => c.Ptr \in Message \cup {None},
           e = B => \A t \in Task : k.tcb[t].Msg # None => k.tcb[t].Msg # c.Ptr,
           \A t \in Task : Waiting(k, t) /\ k.tcb[t].EventPtr = e =>
                (e = B => c.Ptr = None) /\ (e = S => c.Cnt = 0)
    PROVE  LET r == WithEvent(k, e, c)
           IN  /\ Finished(k, r) /\ AnswersKept(k, r) /\ r.tcb = k.tcb
               /\ r.Rdy = k.Rdy /\ SameRunning(r, k)
               /\ e = S => MailKept(k, r)
               /\ e = B => r.ev[B].Ptr = c.Ptr
<1> DEFINE r == WithEvent(k, e, c)
<1>1. Sound(k) /\ k \in KernelState(Ptrs) /\ k.ev \in [Event -> ECB(Ptrs)]
  BY DEF Settled, Sound, KernelState
<1>2. /\ M \in Event /\ B \in Event /\ S \in Event /\ M # B /\ B # S /\ S # M /\ e \in Event
  BY KernelAssumption
<1>3. /\ r \in KernelState(Ptrs) /\ r.ev = [k.ev EXCEPT ![e] = c]
      /\ r.tcb = k.tcb /\ r.PrioTbl = k.PrioTbl /\ r.Rdy = k.Rdy /\ SameRunning(r, k)
  BY <1>1, <1>2, SetEvent
<1> HIDE DEF r
<1>4. r.ev[e] = c /\ \A f \in Event : f # e => r.ev[f] = k.ev[f]
  BY <1>1, <1>2, <1>3
<1>5. \A f \in Event : r.ev[f].Tbl = k.ev[f].Tbl
  BY <1>4
<1>6. OneHolder(k) /\ Counted(k)
  BY <1>1 DEF Sound
<1>7. r.ev[S].Cnt \in 0 .. SemMax /\ r.ev[B].Ptr \in Message \cup {None}
  BY <1>2, <1>4, <1>6 DEF OneHolder, Counted
<1>8. \A t \in Task : k.tcb[t].Msg # None => k.tcb[t].Msg # r.ev[B].Ptr
  BY <1>2, <1>4, <1>6 DEF OneHolder
<1>9. \A t \in Task : Waiting(k, t) => /\ k.tcb[t].EventPtr = B => r.ev[B].Ptr = None
                                       /\ k.tcb[t].EventPtr = S => r.ev[S].Cnt = 0
  BY <1>2, <1>4, <1>6 DEF Counted, Missing
<1>10. Settled(r)
  <2>1. r.ev[M] = k.ev[M]
    BY <1>2, <1>4
  <2>2. Prioritized(r) /\ Listed(r) /\ Owed(r)
    BY <1>1, <1>3, <2>1 DEF Sound, Prioritized, Listed, Owed, Waiting
  <2>3. Queued(r)
    <3>1. \A t \in Task : Waiting(k, t) => k.tcb[t].EventPtr \in Event
      BY <1>1 DEF Sound, Queued, KernelState, TCB
    <3>2. Queued(k)
      BY <1>1 DEF Sound
    <3> QED
      BY <1>3, <1>5, <3>1, <3>2 DEF Queued, Waiting
  <2>4. InOnePend(r)
    BY <1>1, <1>3, <2>1 DEF Sound, InOnePend, OnePend, Waiting
  <2>5. OneHolder(r)
    BY <1>3, <1>6, <1>7, <1>8 DEF OneHolder, Waiting
  <2>6. Counted(r)
    BY <1>3, <1>6, <1>7, <1>9, <2>1 DEF Counted, Missing, Waiting
  <2>7. Sound(r)
    BY <1>3, <2>2, <2>3, <2>4, <2>5, <2>6 DEF Sound
  <2> QED
    BY <1>3, <2>7 DEF Settled, SameRunning, SameNesting
<1>11. Finished(k, r)
  BY <1>3, <1>10, StillFinished DEF SameRunning
<1>12. AnswersKept(k, r) /\ (e = S => MailKept(k, r))
  BY <1>2, <1>3, <1>4 DEF AnswersKept, MailKept
<1> QED
  BY <1>3, <1>4, <1>11, <1>12 DEF r

\* A task that waits is in the list.
LEMMA NobodyWaits ==
    ASSUME NEW k, Settled(k), NEW e \in Event, k.ev[e].Tbl = {}
    PROVE  \A t \in Task : ~(Waiting(k, t) /\ k.tcb[t].EventPtr = e)
  BY DEF Settled, Sound, Queued

\* A call that is refused.
LEMMA StillSame ==
    ASSUME NEW k, Settled(k), k.PrioCur \in k.Rdy
    PROVE  Finished(k, k) /\ MailKept(k, k) /\ AnswersKept(k, k)
<1>1. SameRunning(k, k)
  BY DEF SameRunning, SameNesting
<1> QED
  BY <1>1, StillFinished DEF MailKept, AnswersKept

\* OSMboxPost: the message is accepted, or refused.
LEMMA MboxPosted ==
    ASSUME NEW k, Settled(k), k.PrioCur \in k.Rdy, NEW m \in Message \ DueIn(k)
    PROVE  LET r == OSMboxPost(k, B, m)
           IN  /\ Finished(k, r) /\ AnswersKept(k, r)
               /\ MailKept(k, r) \/ DueIn(r) = DueIn(k) \cup {m}
<1> DEFINE r == OSMboxPost(k, B, m)
<1>1. B \in Event /\ B \in {B, S} /\ Msk(B) = "MBOX" /\ m # None /\ m \in Ptrs /\ B # None
  BY KernelAssumption, CoreAssumption DEF Msk, Ptrs
<1>2. Sound(k) /\ OneHolder(k) /\ k \in KernelState(Ptrs)
  BY DEF Settled, Sound
<1>3. CASE k.ev[B].Tbl # {}
  <2> DEFINE k1 == OS_EventTaskRdy(k, B, m, Msk(B), "OK")
             t == HighestWaiter(k, B)
             b == Answered(k.tcb[t], m, Msk(B), "OK")
  <2>1. r = OS_Sched(k1)
    BY <1>1, <1>3 DEF OSMboxPost
  <2>2. /\ Settled(k1) /\ t \in Task /\ k.tcb[t].EventPtr = B /\ k.tcb[t].Msg = None
        /\ TaskIs(k1, k, t, b) /\ EventsKept(k1, k) /\ SameRunning(k1, k)
        /\ Waiting(k, t) \/ k.tcb[t].StatPend = "TO"
    BY <1>1, <1>3, AnswerSettled
  <2> HIDE DEF k1, t, r
  <2>3. k.tcb \in [Task -> TCB(Ptrs)] /\ k.tcb[t] \in TCB(Ptrs)
    BY <1>2, <2>2 DEF KernelState
  <2>4. b.EventPtr = B /\ b.Msg = m
    BY <1>1, <2>2, <2>3, AnsweredType
  <2> HIDE DEF b
  <2>5. k1.tcb[t] = b /\ \A u \in Task \ {t} : k1.tcb[u] = k.tcb[u]
    BY <2>2 DEF TaskIs
  <2>6. AnswersKept(k, k1)
    BY <2>2, <2>5 DEF AnswersKept
  <2>7. DueIn(k1) = DueIn(k) \cup {m}
    <3>1. k1.ev[B].Ptr = k.ev[B].Ptr
      BY <1>1, <2>2 DEF EventsKept
    <3>2. m \in DueIn(k1)
      BY <1>1, <2>2, <2>4, <2>5 DEF DueIn
    <3>3. ASSUME NEW x \in Message, x # m PROVE x \in DueIn(k1) <=> x \in DueIn(k)
      BY <2>2, <2>4, <2>5, <3>1, <3>3 DEF DueIn
    <3> QED
      BY <3>2, <3>3 DEF DueIn
  <2>8. Finished(k, r) /\ SameTables(r, k1)
    BY <2>1, <2>2, SchedFinished
  <2>9. AnswersKept(k, r) /\ DueIn(r) = DueIn(k) \cup {m}
    BY <2>6, <2>7, <2>8, MailByTables
  <2> QED
    BY <2>8, <2>9 DEF r
<1>4. CASE k.ev[B].Tbl = {} /\ MboxFull(k, B)
  <2>1. r = k
    BY <1>4 DEF OSMboxPost
  <2> QED
    BY <2>1, StillSame
<1>5. CASE k.ev[B].Tbl = {} /\ ~MboxFull(k, B)
  <2> DEFINE c == [k.ev[B] EXCEPT !.Ptr = m]
  <2>1. r = WithEvent(k, B, c)
    BY <1>5 DEF OSMboxPost, WithEvent
  <2>2. k.ev[B].Ptr = None
    BY <1>5 DEF MboxFull
  <2>3. c \in ECB(Ptrs) /\ c.Tbl = k.ev[B].Tbl /\ c.Cnt = k.ev[B].Cnt /\ c.Ptr = m
    BY <1>1, <1>2 DEF KernelState, ECB
  <2> HIDE DEF c, r
  <2>4. \A t \in Task : k.tcb[t].Msg # None => k.tcb[t].Msg # m
    BY <1>2 DEF OneHolder, DueIn
  <2>5. \A t \in Task : ~(Waiting(k, t) /\ k.tcb[t].EventPtr = B)
    BY <1>1, <1>5, NobodyWaits
  <2>6. B # S
    BY KernelAssumption
  <2>7. Finished(k, r) /\ AnswersKept(k, r) /\ r.tcb = k.tcb /\ r.ev[B].Ptr = m
    BY <1>1, <2>1, <2>3, <2>4, <2>5, <2>6, PutFinished
  <2>8. DueIn(r) = DueIn(k) \cup {m}
    <3>1. ASSUME NEW x \in Message PROVE x \in DueIn(r) <=> x \in DueIn(k) \/ x = m
      BY <2>2, <2>7, KernelAssumption DEF DueIn
    <3> QED
      BY <3>1 DEF DueIn
  <2> QED
    BY <2>7, <2>8 DEF r
<1> QED
  BY <1>3, <1>4, <1>5

\* OSSemPost: a waiter is answered, or the count grows, or stays at its limit.
LEMMA SemPosted ==
    ASSUME NEW k, Settled(k), k.PrioCur \in k.Rdy
    PROVE  LET r == OSSemPost(k, S)
           IN  Finished(k, r) /\ MailKept(k, r) /\ AnswersKept(k, r)
<1> DEFINE r == OSSemPost(k, S)
<1>1. S \in Event /\ S \in {B, S} /\ Msk(S) = "SEM" /\ S # B
  BY KernelAssumption DEF Msk
<1>2. Sound(k) /\ Counted(k) /\ k \in KernelState(Ptrs)
  BY DEF Settled, Sound
<1>3. CASE k.ev[S].Tbl # {}
  <2>1. r = OS_Sched(OS_EventTaskRdy(k, S, None, Msk(S), "OK"))
    BY <1>1, <1>3 DEF OSSemPost
  <2> QED
    BY <1>1, <1>3, <2>1, AnswerFinished
<1>4. CASE k.ev[S].Tbl = {} /\ SemFull(k, S)
  <2>1. r = k
    BY <1>4 DEF OSSemPost
  <2> QED
    BY <2>1, StillSame
<1>5. CASE k.ev[S].Tbl = {} /\ ~SemFull(k, S)
  <2> DEFINE c == [k.ev[S] EXCEPT !.Cnt = k.ev[S].Cnt + 1]
  <2>1. r = WithEvent(k, S, c)
    BY <1>5 DEF OSSemPost, WithEvent
  <2>2. k.ev[S].Cnt \in Nat /\ k.ev[S].Cnt < SemMax
    BY <1>2, <1>5, SemAssumption DEF SemFull, Counted
  <2>3. /\ c \in ECB(Ptrs) /\ c.Tbl = k.ev[S].Tbl /\ c.Ptr = k.ev[S].Ptr
        /\ c.Cnt \in 0 .. SemMax
    BY <1>1, <1>2, <2>2, SemAssumption DEF KernelState, ECB
  <2> HIDE DEF c, r
  <2>4. \A t \in Task : ~(Waiting(k, t) /\ k.tcb[t].EventPtr = S)
    BY <1>1, <1>5, NobodyWaits
  <2>5. Finished(k, r) /\ AnswersKept(k, r) /\ MailKept(k, r)
    BY <1>1, <2>1, <2>3, <2>4, PutFinished
  <2> QED
    BY <2>5 DEF r
<1> QED
  BY <1>3, <1>4, <1>5

\* A pend that finds nothing.
LEMMA Slept ==
    ASSUME NEW k, Steady(k), MayPend(k), k.Cur # Idle, ~InPend(k, k.Cur),
           NEW e \in Event, NEW n \in Nat, k.ev[M].Ptr = k.Cur => n = 0,
           e = B => k.ev[B].Ptr = None, e = S => k.ev[S].Cnt = 0,
           e = M => /\ k.ev[M].Ptr \notin {None, k.Cur}
                    /\ \A u \in Task : k.ev[M].Ptr = u /\ BasePrio[k.Cur] < BasePrio[u]
                                       => k.tcb[u].Prio = Pip
    PROVE  LET r == Sleep(k, e, Msk(e), n)
           IN  /\ Finished(k, r) /\ MailKept(k, r) /\ AnswersKept(k, r)
               /\ r.PrioCur = Highest(r.Rdy) /\ r.PrioCur \in r.Rdy
<1> DEFINE k1 == Asleep(k, e, Msk(e), n)
           r == Sleep(k, e, Msk(e), n)
<1>1. r = OS_Sched(k1)
  BY DEF Sleep, Asleep
<1>2. Settled(k1) /\ SameRunning(k1, k) /\ MailKept(k, k1) /\ AnswersKept(k, k1)
  BY AsleepSettled
<1> HIDE DEF k1, r
<1>3. Finished(k, r) /\ SameTables(r, k1)
  BY <1>1, <1>2, SchedFinished
<1>4. r.PrioCur = Highest(r.Rdy) /\ r.PrioCur \in r.Rdy
  <2>1. MayPend(k1)
    BY <1>2 DEF MayPend, SameRunning, SameNesting
  <2> QED
    BY <1>1, <1>2, <2>1, SchedSettled
<1> QED
  BY <1>2, <1>3, <1>4, MailByTables DEF r

\* A delay or a suspension moves no message.
LEMMA OneTaskMail ==
    ASSUME NEW k, Settled(k), NEW r, NEW t \in Task, NEW b, OneTask(k, r, t, b),
           b.EventPtr = k.tcb[t].EventPtr, b.Msg = k.tcb[t].Msg,
           ~Waiting(k, t) /\ k.tcb[t].StatPend = "OK" => b.StatPend = "OK"
    PROVE  MailKept(k, r) /\ AnswersKept(k, r)
<1>1. r.tcb[t] = b /\ \A u \in Task : u # t => r.tcb[u] = k.tcb[u]
  BY DEF OneTask, Settled, Sound, KernelState
<1> QED
  BY <1>1 DEF OneTask, MailKept, AnswersKept

-----------------------------------------------------------------------------
(* The inductive invariant, and what a step does with the messages.           *)

IInv ==
    /\ Steady(os)
    /\ os.LockNesting = 0 /\ ~late => os.PrioCur = Highest(os.Rdy)
    /\ got \in Message \cup {None} /\ late \in BOOLEAN

Serves(k) == k.LockNesting = 0 /\ ~(late /\ k.Cur = os.Cur) => k.PrioCur = Highest(k.Rdy)

Delivered ==
    \/ got' = None /\ DueIn(os') = DueIn(os)
    \/ got' = None /\ \E m \in Message \ DueIn(os) : DueIn(os') = DueIn(os) \cup {m}
    \/ \E m \in DueIn(os) : got' = m /\ DueIn(os') = DueIn(os) \ {m}

Kept == IInv' /\ AnswersKept(os, os') /\ Delivered

\* A finished call restores the invariant.
LEMMA FinishedSteady ==
    ASSUME IInv, NEW k, Finished(os, k)
    PROVE  Steady(k) /\ Serves(k)
<1>1. Steady(os) /\ os.PrioCur \in os.Rdy
  BY DEF IInv, Steady
<1>2. Settled(k) /\ k.IntNesting = 0 /\ k.LockNesting = os.LockNesting
  BY <1>1 DEF Finished, SameNesting, Steady
<1>3. Highest(k.Rdy) \in k.Rdy /\ k.Rdy \in SUBSET Nat /\ os.Rdy \in SUBSET Nat
  <2>1. Sound(k) /\ Sound(os)
    BY <1>1, <1>2 DEF Settled, Steady
  <2> QED
    BY <2>1, HighestReady DEF Sound, KernelState, Prios
<1>4. CASE SameRunning(k, os) /\ k.PrioCur \in k.Rdy /\ k.Rdy \subseteq os.Rdy
  <2>1. k.Cur = os.Cur /\ k.PrioCur = os.PrioCur
    BY <1>4 DEF SameRunning
  <2>2. ASSUME k.LockNesting = 0, ~late PROVE k.PrioCur = Highest(k.Rdy)
    <3>1. os.PrioCur = Highest(os.Rdy)
      BY <1>2, <2>2 DEF IInv
    <3>2. \A q \in os.Rdy : os.PrioCur <= q
      BY <1>1, <1>3, <3>1, HighestIs
    <3>3. \A q \in k.Rdy : k.PrioCur <= q
      BY <1>4, <2>1, <3>2
    <3> QED
      BY <1>3, <1>4, <3>3, HighestUnique
  <2> QED
    BY <1>2, <1>4, <2>1, <2>2 DEF Steady, Serves
<1>5. CASE MayPend(k) => k.PrioCur = Highest(k.Rdy) /\ k.PrioCur \in k.Rdy
  BY <1>2, <1>5 DEF MayPend, Steady, Settled, Serves
<1> QED
  BY <1>4, <1>5 DEF Finished, Served

\* A step that restores the invariant in os restores it.
LEMMA StepKeeps ==
    ASSUME IInv, NEW k, Steady(k), Serves(k), os' = k, got' \in Message \cup {None},
           late' = (late /\ k.Cur = os.Cur)
    PROVE  IInv'
  BY DEF IInv, Serves

\* A call that returns no message and touches none.
LEMMA QuietStep ==
    ASSUME IInv, NEW k, Finished(os, k), MailKept(os, k), AnswersKept(os, k), Step(k)
    PROVE  Kept
<1>1. Steady(k) /\ Serves(k)
  BY FinishedSteady
<1>2. IInv'
  BY <1>1, StepKeeps DEF Step
<1>3. DueIn(os') = DueIn(os) /\ got' = None
  BY MailKeptDue DEF Step
<1> QED
  BY <1>2, <1>3 DEF Kept, Delivered, Step

\* The running task, when it calls.
LEMMA Caller ==
    ASSUME IInv, Calls
    PROVE  /\ Steady(os) /\ Settled(os) /\ Sound(os) /\ os.PrioCur \in os.Rdy
           /\ os \in KernelState(Ptrs)
           /\ os.Cur \in User /\ os.Cur # Idle /\ ~InPend(os, os.Cur) /\ os.tcb[os.Cur].Msg = None
<1>1. Steady(os) /\ Settled(os) /\ Sound(os) /\ os.PrioCur \in os.Rdy /\ os \in KernelState(Ptrs)
  BY DEF IInv, Steady, Settled, Sound
<1>2. os.Cur \in User /\ ~InPend(os, os.Cur)
  BY <1>1, RunningTask DEF Calls, User
<1> QED
  BY <1>1, <1>2, OutOfPend DEF User

-----------------------------------------------------------------------------
(* The steps.                                                                 *)

\* OSMutexPend: taken, or the owner is raised and the caller sleeps.
LEMMA MutexPendStep == ASSUME Careful, IInv, MutexPend PROVE Kept
<1>0. PICK n \in Timeouts : Step(OSMutexPend(os, M, Pip, n))
  BY DEF MutexPend
<1>1. /\ Steady(os) /\ Settled(os) /\ Sound(os) /\ os.PrioCur \in os.Rdy
      /\ os \in KernelState(Ptrs) /\ os.Cur \in User /\ os.Cur # Idle /\ ~InPend(os, os.Cur)
  BY Caller DEF MutexPend
<1>2. MayPend(os) /\ os.ev[M].Ptr # os.Cur /\ n \in Nat /\ M \in Event /\ Msk(M) = "MUTEX"
      /\ M # B /\ M # S
  BY KernelAssumption DEF MutexPend, Owner, Msk
<1> DEFINE r == OSMutexPend(os, M, Pip, n)
<1>3. Finished(os, r) /\ MailKept(os, r) /\ AnswersKept(os, r)
  <2>1. CASE Available(os, M)
    <3>1. r = TakeMutex(os, M)
      BY <2>1 DEF OSMutexPend
    <3>2. /\ Steady(r) /\ r.tcb = os.tcb /\ r.Rdy = os.Rdy /\ SameRunning(r, os)
          /\ r.ev[B].Ptr = os.ev[B].Ptr
      BY <1>1, <2>1, <3>1, TakenSteady
    <3> HIDE DEF r
    <3>3. Finished(os, r)
      BY <3>2, StillFinished DEF Steady
    <3> QED
      BY <3>2, <3>3 DEF MailKept, AnswersKept
  <2>2. CASE ~Available(os, M)
    <3> DEFINE o == os.ev[M].Ptr
    <3>1. o \in User /\ o \in Task /\ o # None /\ os.ev[M].Cnt = BasePrio[o]
      BY <1>1, <2>2, MutexFree DEF Sound, Counted, User
    <3>2. os.tcb[o].Prio \in {BasePrio[o], Pip} /\ os.tcb[os.Cur].Prio = BasePrio[os.Cur]
      BY <1>1, <1>2, <3>1 DEF Sound, Prioritized, User
    <3>3. CASE os.tcb[o].Prio > Pip /\ os.ev[M].Cnt > os.tcb[os.Cur].Prio
      <4> DEFINE k == Promote(os, o, Pip)
      <4>1. r = Sleep(k, M, Msk(M), n)
        BY <1>2, <2>2, <3>3 DEF OSMutexPend
      <4>2. os.tcb[o].Prio # Pip
        BY <3>3, PipIsApart
      <4>3. /\ Steady(k) /\ SameRunning(k, os)
            /\ k.tcb[o].Prio = Pip
            /\ \A u \in Task : /\ k.tcb[u].Stat = os.tcb[u].Stat /\ k.tcb[u].StatPend = os.tcb[u].StatPend
                               /\ k.tcb[u].Dly = os.tcb[u].Dly /\ k.tcb[u].EventPtr = os.tcb[u].EventPtr
                               /\ k.tcb[u].Msg = os.tcb[u].Msg
            /\ \A e \in Event : k.ev[e].Ptr = os.ev[e].Ptr /\ k.ev[e].Cnt = os.ev[e].Cnt
        BY <1>1, <1>2, <3>1, <4>2, PromotedSteady
      <4> HIDE DEF k, r
      <4>4. k.Cur = os.Cur /\ MayPend(k) /\ ~InPend(k, k.Cur) /\ k.ev[M].Ptr = o
        BY <1>1, <1>2, <4>3 DEF SameRunning, SameNesting, MayPend, InPend, User
      <4>5. /\ Finished(k, r) /\ MailKept(k, r) /\ AnswersKept(k, r)
            /\ r.PrioCur = Highest(r.Rdy) /\ r.PrioCur \in r.Rdy
        BY <1>1, <1>2, <3>1, <4>1, <4>3, <4>4, Slept
      <4>6. MailKept(os, r) /\ AnswersKept(os, r)
        BY <4>3, <4>5, KernelAssumption DEF MailKept, AnswersKept, Waiting
      <4>7. Finished(os, r)
        BY <1>2, <4>3, <4>4, <4>5 DEF Finished, Served, SameRunning, SameNesting, Steady, MayPend
      <4> QED
        BY <4>6, <4>7
    <3>4. CASE ~(os.tcb[o].Prio > Pip /\ os.ev[M].Cnt > os.tcb[os.Cur].Prio)
      <4>1. r = Sleep(os, M, Msk(M), n)
        BY <1>2, <2>2, <3>4 DEF OSMutexPend
      <4>2. \A u \in Task : o = u /\ BasePrio[os.Cur] < BasePrio[u] => os.tcb[u].Prio = Pip
        <5>1. BasePrio[o] \in Nat /\ BasePrio[os.Cur] \in Nat /\ Pip \in Nat /\ BasePrio[o] > Pip
          BY <1>1, <3>1, PipIsApart DEF User
        <5> QED
          BY <3>1, <3>2, <3>4, <5>1
      <4> HIDE DEF r
      <4> QED
        BY <1>1, <1>2, <3>1, <4>1, <4>2, Slept
    <3> QED
      BY <3>3, <3>4
  <2> QED
    BY <2>1, <2>2
<1> HIDE DEF r
<1>4. Step(r)
  BY <1>0 DEF r
<1> QED
  BY <1>3, <1>4, QuietStep

\* OSMutexAccept: taken, or refused.
LEMMA MutexAcceptStep == ASSUME Careful, IInv, MutexAccept PROVE Kept
<1>1. /\ Steady(os) /\ Settled(os) /\ os.PrioCur \in os.Rdy
      /\ os.Cur # Idle /\ ~InPend(os, os.Cur)
  BY Caller DEF MutexAccept
<1> DEFINE r == OSMutexAccept(os, M)
<1>2. Finished(os, r) /\ MailKept(os, r) /\ AnswersKept(os, r)
  <2>1. CASE Available(os, M)
    <3>1. r = TakeMutex(os, M)
      BY <2>1 DEF OSMutexAccept
    <3>2. /\ Steady(r) /\ r.tcb = os.tcb /\ r.Rdy = os.Rdy /\ SameRunning(r, os)
          /\ r.ev[B].Ptr = os.ev[B].Ptr
      BY <1>1, <2>1, <3>1, TakenSteady
    <3> HIDE DEF r
    <3>3. Finished(os, r)
      BY <3>2, StillFinished DEF Steady
    <3> QED
      BY <3>2, <3>3 DEF MailKept, AnswersKept
  <2>2. CASE ~Available(os, M)
    <3>1. r = os
      BY <2>2 DEF OSMutexAccept
    <3> QED
      BY <1>1, <3>1, StillSame
  <2> QED
    BY <2>1, <2>2
<1> HIDE DEF r
<1>3. Step(r)
  BY DEF MutexAccept, r
<1> QED
  BY <1>2, <1>3, QuietStep

\* The mutex is released: the task goes on at its own priority, or is scheduled.
LEMMA ReleasedStep ==
    ASSUME IInv, NEW k, Steady(k), MailKept(os, k), AnswersKept(os, k), os' = k, got' = None,
           late' = (k.Cur = os.Cur /\ k.LockNesting = 0 /\ Highest(k.Rdy) < k.PrioCur),
           k.Cur = os.Cur \/ k.PrioCur = Highest(k.Rdy)
    PROVE  Kept
<1>1. Sound(k) /\ k.PrioCur \in k.Rdy
  BY DEF Steady, Settled
<1>2. Highest(k.Rdy) \in Nat /\ k.PrioCur \in Nat /\ Highest(k.Rdy) <= k.PrioCur
  BY <1>1, HighestReady DEF Sound, KernelState, Prios
<1>3. ASSUME k.LockNesting = 0, ~late' PROVE k.PrioCur = Highest(k.Rdy)
  <2>1. k.Cur # os.Cur \/ ~(Highest(k.Rdy) < k.PrioCur)
    BY <1>3
  <2> QED
    BY <1>2, <2>1
<1>4. IInv'
  BY <1>3 DEF IInv
<1>5. DueIn(os') = DueIn(os)
  BY MailKeptDue
<1> QED
  BY <1>4, <1>5 DEF Kept, Delivered

\* OSMutexPost: refused, freed, or handed over.
LEMMA MutexPostStep == ASSUME Careful, IInv, MutexPost PROVE Kept
<1>1. /\ Steady(os) /\ Settled(os) /\ Sound(os) /\ os.PrioCur \in os.Rdy
      /\ os.Cur # Idle /\ ~InPend(os, os.Cur) /\ os.IntNesting = 0
  BY Caller DEF MutexPost, Steady
<1> DEFINE r == OSMutexPost(os, M, Pip)
           k == Lowered(os)
           h == Given(os)
           f == Freed(os)
<1>2. r = IF os.ev[M].Ptr # os.Cur THEN os ELSE IF k.ev[M].Tbl = {} THEN f ELSE OS_Sched(h)
  BY DEF OSMutexPost, Lowered, Freed, Given
<1>3. /\ os' = r /\ got' = None
      /\ late' = (os'.Cur = os.Cur /\ os'.LockNesting = 0 /\ Highest(os'.Rdy) < os'.PrioCur)
  BY DEF MutexPost
<1>4. /\ Steady(r) /\ MailKept(os, r) /\ AnswersKept(os, r)
      /\ r.Cur = os.Cur \/ r.PrioCur = Highest(r.Rdy)
  <2>1. CASE os.ev[M].Ptr # os.Cur
    <3>1. r = os
      BY <1>2, <2>1
    <3> QED
      BY <1>1, <3>1, StillSame
  <2>2. CASE os.ev[M].Ptr = os.Cur
    <3>1. k.ev = os.ev
      BY <1>1, <2>2, LoweredSound
    <3>2. CASE os.ev[M].Tbl = {}
      <4>1. r = f
        BY <1>2, <2>2, <3>1, <3>2
      <4>2. Steady(f) /\ MailKept(os, f) /\ AnswersKept(os, f) /\ f.Cur = os.Cur
        BY <1>1, <2>2, <3>2, FreedSteady
      <4> QED
        BY <4>1, <4>2
    <3>3. CASE os.ev[M].Tbl # {}
      <4>1. r = OS_Sched(h)
        BY <1>2, <2>2, <3>1, <3>3
      <4>2. /\ Settled(h) /\ MailKept(os, h) /\ AnswersKept(os, h) /\ h.PrioCur \in h.Rdy
            /\ h.Cur = os.Cur /\ SameNesting(h, os)
        BY <1>1, <2>2, <3>3, HandedSettled
      <4> HIDE DEF r, h
      <4>3. /\ Settled(r) /\ SameTables(r, h) /\ SameNesting(r, h)
            /\ MayPend(h) => r.PrioCur = Highest(r.Rdy) /\ r.PrioCur \in r.Rdy
            /\ ~MayPend(h) => r.Cur = h.Cur /\ r.PrioCur = h.PrioCur
        BY <4>1, <4>2, SchedSettled
      <4>4. r.PrioCur \in r.Rdy /\ r.IntNesting = 0
        BY <1>1, <4>2, <4>3 DEF SameTables, SameNesting
      <4>5. MailKept(os, r) /\ AnswersKept(os, r)
        BY <4>2, <4>3, MailByTables
      <4> QED
        BY <4>2, <4>3, <4>4, <4>5 DEF Steady
    <3> QED
      BY <3>2, <3>3
  <2> QED
    BY <2>1, <2>2
<1> HIDE DEF r
<1> QED
  BY <1>3, <1>4, ReleasedStep

\* The box is emptied.
LEMMA BoxTaken ==
    ASSUME IInv, Calls
    PROVE  LET r == TakeMbox(os, B)
           IN  /\ Finished(os, r) /\ AnswersKept(os, r) /\ r.Cur = os.Cur
               /\ os.ev[B].Ptr = None => MailKept(os, r)
               /\ os.ev[B].Ptr # None => /\ os.ev[B].Ptr \in DueIn(os)
                                         /\ DueIn(r) = DueIn(os) \ {os.ev[B].Ptr}
<1> DEFINE m == os.ev[B].Ptr
           c == [os.ev[B] EXCEPT !.Ptr = None]
           r == TakeMbox(os, B)
<1>1. /\ Settled(os) /\ os.PrioCur \in os.Rdy /\ os \in KernelState(Ptrs) /\ OneHolder(os)
      /\ B \in Event /\ B # S
  BY Caller, KernelAssumption DEF Sound
<1>2. c \in ECB(Ptrs) /\ c.Tbl = os.ev[B].Tbl /\ c.Cnt = os.ev[B].Cnt /\ c.Ptr = None
  BY <1>1 DEF KernelState, ECB, Ptrs
<1>3. r = WithEvent(os, B, c)
  BY DEF TakeMbox, WithEvent
<1> HIDE DEF c, r
<1>4. /\ Finished(os, r) /\ AnswersKept(os, r) /\ r.tcb = os.tcb /\ SameRunning(r, os)
      /\ r.ev[B].Ptr = None
  BY <1>1, <1>2, <1>3, PutFinished
<1>5. ASSUME m # None
      PROVE  m \in DueIn(os) /\ DueIn(r) = DueIn(os) \ {m}
  <2>1. m \in Message /\ None \notin Message
    BY <1>1, <1>5, KernelAssumption DEF OneHolder
  <2>2. \A t \in Task : os.tcb[t].Msg # None => os.tcb[t].Msg # m
    BY <1>1 DEF OneHolder
  <2> QED
    BY <1>4, <2>1, <2>2 DEF DueIn
<1>6. m = None => MailKept(os, r)
  BY <1>4 DEF MailKept
<1> QED
  BY <1>4, <1>5, <1>6 DEF SameRunning, r

\* A call returned what was in the box.
LEMMA TakenStep ==
    ASSUME IInv, Calls, os' = TakeMbox(os, B), got' = os.ev[B].Ptr,
           late' = (late /\ os'.Cur = os.Cur)
    PROVE  Kept
<1> DEFINE r == TakeMbox(os, B)
<1>1. /\ Finished(os, r) /\ AnswersKept(os, r) /\ r.Cur = os.Cur
      /\ os.ev[B].Ptr = None => MailKept(os, r)
      /\ os.ev[B].Ptr # None => /\ os.ev[B].Ptr \in DueIn(os)
                                /\ DueIn(r) = DueIn(os) \ {os.ev[B].Ptr}
  BY BoxTaken
<1>2. os' = r /\ os.ev[B].Ptr \in Message \cup {None}
  BY Caller DEF Sound, OneHolder
<1> HIDE DEF r
<1>3. Steady(r) /\ Serves(r)
  BY <1>1, FinishedSteady
<1>4. IInv'
  BY <1>2, <1>3, StepKeeps
<1>5. Delivered
  <2>1. CASE os.ev[B].Ptr = None
    BY <1>1, <1>2, <2>1, MailKeptDue DEF Delivered
  <2>2. CASE os.ev[B].Ptr # None
    BY <1>1, <1>2, <2>2 DEF Delivered
  <2> QED
    BY <2>1, <2>2
<1> QED
  BY <1>1, <1>2, <1>4, <1>5 DEF Kept

\* OSMboxPend: a message at once, or the caller sleeps.
LEMMA MboxPendStep == ASSUME Careful, IInv, MboxPend PROVE Kept
<1>0. PICK n \in Timeouts : /\ MayWait(n)
                            /\ os' = OSMboxPend(os, B, n)
                            /\ got' = OSMboxAccept(os, B)
                            /\ late' = (late /\ os'.Cur = os.Cur)
  BY DEF MboxPend
<1>1. /\ Steady(os) /\ os.Cur # Idle /\ ~InPend(os, os.Cur) /\ Calls
  BY Caller DEF MboxPend
<1>2. MayPend(os) /\ (os.ev[M].Ptr = os.Cur => n = 0) /\ n \in Nat /\ B \in Event
      /\ Msk(B) = "MBOX" /\ B # S /\ B # M
  BY <1>0, KernelAssumption DEF MayWait, Owner, Msk
<1>3. CASE os.ev[B].Ptr # None
  <2>1. os' = TakeMbox(os, B) /\ got' = os.ev[B].Ptr
    BY <1>0, <1>3 DEF OSMboxPend, OSMboxAccept
  <2> QED
    BY <1>0, <1>1, <2>1, TakenStep
<1>4. CASE os.ev[B].Ptr = None
  <2> DEFINE r == Sleep(os, B, Msk(B), n)
  <2>1. os' = r /\ got' = None
    BY <1>0, <1>2, <1>4 DEF OSMboxPend, OSMboxAccept
  <2>2. Finished(os, r) /\ MailKept(os, r) /\ AnswersKept(os, r)
    BY <1>1, <1>2, <1>4, Slept
  <2> HIDE DEF r
  <2> QED
    BY <1>0, <2>1, <2>2, QuietStep DEF Step
<1> QED
  BY <1>3, <1>4

\* OSMboxAccept: a message at once, or none.
LEMMA MboxAcceptStep == ASSUME Careful, IInv, MboxAccept PROVE Kept
<1>1. os' = TakeMbox(os, B) /\ got' = os.ev[B].Ptr /\ late' = late /\ Calls
  BY DEF MboxAccept, OSMboxAccept
<1>2. TakeMbox(os, B).Cur = os.Cur
  BY <1>1, BoxTaken
<1> QED
  BY <1>1, <1>2, TakenStep DEF IInv

\* A message is posted.
LEMMA PostedStep ==
    ASSUME IInv, NEW m \in Message \ DueIn(os), NEW k, Steady(k), Serves(k), AnswersKept(os, k),
           MailKept(os, k) \/ DueIn(k) = DueIn(os) \cup {m}, Step(k)
    PROVE  Kept
<1>1. IInv'
  BY StepKeeps DEF Step
<1>2. Delivered
  BY MailKeptDue DEF Step, Delivered
<1> QED
  BY <1>1, <1>2 DEF Kept, Step

\* The due messages of the specification are those of its kernel.
LEMMA DueIs == Due = DueIn(os)
  BY DEF Due, DueIn, Handed

\* OSMboxPost from a task.
LEMMA MboxPostStep == ASSUME Careful, IInv, MboxPost PROVE Kept
<1>0. PICK m \in Message \ DueIn(os) : Step(OSMboxPost(os, B, m))
  BY DueIs DEF MboxPost
<1>1. Settled(os) /\ os.PrioCur \in os.Rdy
  BY Caller DEF MboxPost
<1> DEFINE r == OSMboxPost(os, B, m)
<1>2. /\ Finished(os, r) /\ AnswersKept(os, r)
      /\ MailKept(os, r) \/ DueIn(r) = DueIn(os) \cup {m}
  BY <1>1, MboxPosted
<1> HIDE DEF r
<1>3. Steady(r) /\ Serves(r)
  BY <1>2, FinishedSteady
<1> QED
  BY <1>0, <1>2, <1>3, PostedStep DEF r

\* OSMboxPendAbort: the first waiter gives up.
LEMMA MboxPendAbortStep == ASSUME Careful, IInv, MboxPendAbort PROVE Kept
<1>1. Settled(os) /\ os.PrioCur \in os.Rdy
  BY Caller DEF MboxPendAbort
<1>2. B \in {B, S} /\ Msk(B) = "MBOX"
  BY KernelAssumption DEF Msk
<1> DEFINE r == OSMboxPendAbort(os, B)
<1>3. Finished(os, r) /\ MailKept(os, r) /\ AnswersKept(os, r)
  <2>1. CASE os.ev[B].Tbl # {}
    <3>1. r = OS_Sched(OS_EventTaskRdy(os, B, None, Msk(B), "ABORT"))
      BY <1>2, <2>1 DEF OSMboxPendAbort
    <3> QED
      BY <1>1, <1>2, <2>1, <3>1, AnswerFinished
  <2>2. CASE os.ev[B].Tbl = {}
    <3>1. r = os
      BY <2>2 DEF OSMboxPendAbort
    <3> QED
      BY <1>1, <3>1, StillSame
  <2> QED
    BY <2>1, <2>2
<1> HIDE DEF r
<1> QED
  BY <1>3, QuietStep DEF MboxPendAbort, r

\* The count is replaced while nobody waits for one.
LEMMA CountSet ==
    ASSUME NEW k, Settled(k), k.PrioCur \in k.Rdy, NEW n \in 0 .. SemMax,
           \A t \in Task : ~(Waiting(k, t) /\ k.tcb[t].EventPtr = S)
    PROVE  LET r == WithEvent(k, S, [k.ev[S] EXCEPT !.Cnt = n])
           IN  Finished(k, r) /\ MailKept(k, r) /\ AnswersKept(k, r)
<1> DEFINE c == [k.ev[S] EXCEPT !.Cnt = n]
           r == WithEvent(k, S, c)
<1>1. S \in Event /\ S \in {B, S} /\ S # B /\ k \in KernelState(Ptrs)
  BY KernelAssumption DEF Settled, Sound
<1>2. c \in ECB(Ptrs) /\ c.Tbl = k.ev[S].Tbl /\ c.Ptr = k.ev[S].Ptr /\ c.Cnt \in 0 .. SemMax
  BY <1>1, SemAssumption DEF KernelState, ECB
<1> HIDE DEF c, r
<1>3. Finished(k, r) /\ AnswersKept(k, r) /\ MailKept(k, r)
  BY <1>1, <1>2, PutFinished DEF r
<1> QED
  BY <1>3 DEF r, c

\* OSSemPend: a count at once, or the caller sleeps.
LEMMA SemPendStep == ASSUME Careful, IInv, SemPend PROVE Kept
<1>0. PICK n \in Timeouts : MayWait(n) /\ Step(OSSemPend(os, S, n))
  BY DEF SemPend
<1>1. /\ Steady(os) /\ Settled(os) /\ os.PrioCur \in os.Rdy /\ Counted(os)
      /\ os.Cur # Idle /\ ~InPend(os, os.Cur)
  BY Caller DEF SemPend, Sound
<1>2. MayPend(os) /\ (os.ev[M].Ptr = os.Cur => n = 0) /\ n \in Nat /\ S \in Event
      /\ Msk(S) = "SEM" /\ B # S /\ S # M
  BY <1>0, KernelAssumption DEF MayWait, Owner, Msk
<1>3. os.ev[S].Cnt \in 0 .. SemMax /\ SemMax \in Nat
  BY <1>1, SemAssumption DEF Counted
<1> DEFINE r == OSSemPend(os, S, n)
<1>4. Finished(os, r) /\ MailKept(os, r) /\ AnswersKept(os, r)
  <2>1. CASE os.ev[S].Cnt > 0
    <3> DEFINE x == os.ev[S].Cnt - 1
    <3>1. r = WithEvent(os, S, [os.ev[S] EXCEPT !.Cnt = x])
      BY <2>1 DEF OSSemPend, WithEvent
    <3>2. x \in 0 .. SemMax
      BY <1>3, <2>1
    <3>3. \A t \in Task : ~(Waiting(os, t) /\ os.tcb[t].EventPtr = S)
      BY <1>1, <2>1 DEF Counted, Missing
    <3> HIDE DEF x, r
    <3> QED
      BY <1>1, <3>1, <3>2, <3>3, CountSet
  <2>2. CASE ~(os.ev[S].Cnt > 0)
    <3>1. r = Sleep(os, S, Msk(S), n)
      BY <1>2, <2>2 DEF OSSemPend
    <3>2. os.ev[S].Cnt = 0
      BY <1>3, <2>2
    <3> HIDE DEF r
    <3> QED
      BY <1>1, <1>2, <3>1, <3>2, Slept
  <2> QED
    BY <2>1, <2>2
<1> HIDE DEF r
<1> QED
  BY <1>0, <1>4, QuietStep DEF r

\* OSSemPost from a task.
LEMMA SemPostStep == ASSUME Careful, IInv, SemPost PROVE Kept
<1>1. Settled(os) /\ os.PrioCur \in os.Rdy
  BY Caller DEF SemPost
<1> DEFINE r == OSSemPost(os, S)
<1>2. Finished(os, r) /\ MailKept(os, r) /\ AnswersKept(os, r)
  BY <1>1, SemPosted
<1> HIDE DEF r
<1> QED
  BY <1>2, QuietStep DEF SemPost, r

\* OSSemPendAbort: the first waiter gives up.
LEMMA SemPendAbortStep == ASSUME Careful, IInv, SemPendAbort PROVE Kept
<1>1. Settled(os) /\ os.PrioCur \in os.Rdy
  BY Caller DEF SemPendAbort
<1>2. S \in {B, S} /\ Msk(S) = "SEM"
  BY KernelAssumption DEF Msk
<1> DEFINE r == OSSemPendAbort(os, S)
<1>3. Finished(os, r) /\ MailKept(os, r) /\ AnswersKept(os, r)
  <2>1. CASE os.ev[S].Tbl # {}
    <3>1. r = OS_Sched(OS_EventTaskRdy(os, S, None, Msk(S), "ABORT"))
      BY <1>2, <2>1 DEF OSSemPendAbort
    <3> QED
      BY <1>1, <1>2, <2>1, <3>1, AnswerFinished
  <2>2. CASE os.ev[S].Tbl = {}
    <3>1. r = os
      BY <2>2 DEF OSSemPendAbort
    <3> QED
      BY <1>1, <3>1, StillSame
  <2> QED
    BY <2>1, <2>2
<1> HIDE DEF r
<1> QED
  BY <1>3, QuietStep DEF SemPendAbort, r

\* OSSemSet: the count changes only while nobody waits for one.
LEMMA SemSetStep == ASSUME Careful, IInv, SemSet PROVE Kept
<1>0. PICK n \in 0 .. SemMax : Step(OSSemSet(os, S, n))
  BY DEF SemSet
<1>1. Settled(os) /\ os.PrioCur \in os.Rdy /\ Counted(os) /\ S \in Event
  BY Caller, KernelAssumption DEF SemSet, Sound
<1> DEFINE r == OSSemSet(os, S, n)
<1>2. Finished(os, r) /\ MailKept(os, r) /\ AnswersKept(os, r)
  <2>1. CASE os.ev[S].Cnt > 0 \/ os.ev[S].Tbl = {}
    <3>1. r = WithEvent(os, S, [os.ev[S] EXCEPT !.Cnt = n])
      BY <2>1 DEF OSSemSet, WithEvent
    <3>2. \A t \in Task : ~(Waiting(os, t) /\ os.tcb[t].EventPtr = S)
      <4>1. CASE os.ev[S].Cnt > 0
        BY <1>1, <4>1 DEF Counted, Missing
      <4>2. CASE os.ev[S].Tbl = {}
        BY <1>1, <4>2, NobodyWaits
      <4> QED
        BY <2>1, <4>1, <4>2
    <3> HIDE DEF r
    <3> QED
      BY <1>1, <3>1, <3>2, CountSet
  <2>2. CASE ~(os.ev[S].Cnt > 0 \/ os.ev[S].Tbl = {})
    <3>1. r = os
      BY <2>2 DEF OSSemSet
    <3> QED
      BY <1>1, <3>1, StillSame
  <2> QED
    BY <2>1, <2>2
<1> HIDE DEF r
<1> QED
  BY <1>0, <1>2, QuietStep DEF r

\* OSTimeDly.
LEMMA TimeDlyStep == ASSUME Careful, IInv, TimeDly PROVE Kept
<1>0. PICK n \in Timeouts : Step(OSTimeDly(os, n))
  BY DEF TimeDly
<1>1. /\ Steady(os) /\ Settled(os) /\ os.PrioCur \in os.Rdy /\ os \in KernelState(Ptrs)
      /\ os.Cur # Idle /\ ~InPend(os, os.Cur) /\ os.Cur \in Task /\ n \in Nat
  BY Caller, KernelAssumption DEF TimeDly, User
<1> DEFINE r == OSTimeDly(os, n)
<1>2. Finished(os, r) /\ MailKept(os, r) /\ AnswersKept(os, r)
  <2>1. CASE MayPend(os) /\ n > 0
    <3> DEFINE k == NotReady([os EXCEPT !.tcb[os.Cur].Dly = n], os.Cur)
               b == [os.tcb[os.Cur] EXCEPT !.Dly = n]
    <3>1. r = OS_Sched(k)
      BY <2>1 DEF OSTimeDly
    <3>2. Settled(k) /\ OneTask(os, k, os.Cur, b)
      BY <1>1, <2>1, DelayedSettled
    <3>3. b.EventPtr = os.tcb[os.Cur].EventPtr /\ b.Msg = os.tcb[os.Cur].Msg
          /\ b.StatPend = os.tcb[os.Cur].StatPend
      BY <1>1 DEF KernelState, TCB
    <3> HIDE DEF r, k, b
    <3>4. MailKept(os, k) /\ AnswersKept(os, k)
      BY <1>1, <3>2, <3>3, OneTaskMail
    <3>5. Finished(os, r) /\ SameTables(r, k)
      BY <3>1, <3>2, SchedFinished DEF OneTask
    <3> QED
      BY <3>4, <3>5, MailByTables
  <2>2. CASE ~(MayPend(os) /\ n > 0)
    <3>1. r = os
      BY <2>2 DEF OSTimeDly
    <3> QED
      BY <1>1, <3>1, StillSame
  <2> QED
    BY <2>1, <2>2
<1> HIDE DEF r
<1> QED
  BY <1>0, <1>2, QuietStep DEF r

\* OSTimeDlyResume.
LEMMA TimeDlyResumeStep == ASSUME Careful, IInv, TimeDlyResume PROVE Kept
<1>0. PICK t \in User : Step(OSTimeDlyResume(os, os.tcb[t].Prio))
  BY DEF TimeDlyResume
<1>1. /\ Steady(os) /\ Settled(os) /\ os.PrioCur \in os.Rdy /\ os \in KernelState(Ptrs)
      /\ t \in Task \ {Idle} /\ os.PrioTbl[os.tcb[t].Prio] = t
  BY Caller DEF TimeDlyResume, User, Sound, Prioritized
<1> DEFINE r == OSTimeDlyResume(os, os.tcb[t].Prio)
           k == DelayOver(os, t)
<1>2. r = os \/ /\ os.tcb[t].Dly # 0
                /\ ("SUSPEND" \in os.tcb[t].Stat /\ r = k) \/ r = OS_Sched(k)
  BY <1>1 DEF OSTimeDlyResume
<1>3. Finished(os, r) /\ MailKept(os, r) /\ AnswersKept(os, r)
  <2>1. CASE r = os
    BY <1>1, <2>1, StillSame
  <2>2. CASE /\ os.tcb[t].Dly # 0
             /\ ("SUSPEND" \in os.tcb[t].Stat /\ r = k) \/ r = OS_Sched(k)
    <3> DEFINE b == Expired(os.tcb[t])
    <3>1. /\ Settled(k) /\ OneTask(os, k, t, b) /\ k.PrioCur \in k.Rdy
          /\ "SUSPEND" \in os.tcb[t].Stat => k.Rdy = os.Rdy
      BY <1>1, <2>2, ResumedSettled
    <3>2. /\ b.EventPtr = os.tcb[t].EventPtr /\ b.Msg = os.tcb[t].Msg
          /\ ~Waiting(os, t) => b.StatPend = "OK"
      BY <1>1 DEF KernelState, TCB, Expired, Waiting
    <3> HIDE DEF r, k, b
    <3>3. MailKept(os, k) /\ AnswersKept(os, k)
      BY <1>1, <3>1, <3>2, OneTaskMail
    <3>4. SameRunning(k, os)
      BY <3>1 DEF OneTask
    <3>5. CASE "SUSPEND" \in os.tcb[t].Stat /\ r = k
      BY <3>1, <3>3, <3>4, <3>5, StillFinished
    <3>6. CASE r = OS_Sched(k)
      BY <3>1, <3>3, <3>4, <3>6, SchedFinished, MailByTables
    <3> QED
      BY <2>2, <3>5, <3>6
  <2> QED
    BY <1>2, <2>1, <2>2
<1> HIDE DEF r
<1> QED
  BY <1>0, <1>3, QuietStep DEF r

\* A step that changes the nesting, or leaves an interrupt.
LEMMA SteadyStep ==
    ASSUME IInv, NEW k, Steady(k), Serves(k), MailKept(os, k), AnswersKept(os, k), Step(k)
    PROVE  Kept
<1>1. IInv'
  BY StepKeeps DEF Step
<1>2. DueIn(os') = DueIn(os) /\ got' = None
  BY MailKeptDue DEF Step
<1> QED
  BY <1>1, <1>2 DEF Kept, Delivered, Step

\* OSSchedLock.
LEMMA SchedLockStep == ASSUME Careful, IInv, SchedLock PROVE Kept
<1>1. /\ Steady(os) /\ Settled(os) /\ Sound(os) /\ os.PrioCur \in os.Rdy /\ os \in KernelState(Ptrs)
      /\ os.LockNesting = 0 /\ os.IntNesting = 0
  BY Caller DEF SchedLock, Steady
<1> DEFINE r == OSSchedLock(os)
<1>2. /\ r \in KernelState(Ptrs) /\ SameTables(r, os) /\ r.IntNesting = 0
      /\ r.LockNesting = 1 /\ r.Cur = os.Cur /\ r.PrioCur = os.PrioCur
  BY <1>1, SchedLockFields
<1> HIDE DEF r
<1>3. Sound(r)
  BY <1>1, <1>2, SoundSame
<1>4. Steady(r) /\ Serves(r)
  BY <1>1, <1>2, <1>3 DEF Steady, Settled, SameTables, Serves
<1>5. MailKept(os, r) /\ AnswersKept(os, r)
  BY <1>1, <1>2, StillSame, MailByTables
<1> QED
  BY <1>4, <1>5, SteadyStep DEF SchedLock, r

\* OSSchedUnlock.
LEMMA SchedUnlockStep == ASSUME Careful, IInv, SchedUnlock PROVE Kept
<1>1. Steady(os) /\ Settled(os) /\ os.PrioCur \in os.Rdy /\ os.LockNesting > 0
  BY Caller DEF SchedUnlock
<1> DEFINE r == OSSchedUnlock(os)
<1>2. Steady(r) /\ SameTables(r, os) /\ r.PrioCur = Highest(r.Rdy)
  BY <1>1, SchedUnlockSteady
<1> HIDE DEF r
<1>3. MailKept(os, r) /\ AnswersKept(os, r)
  BY <1>1, <1>2, StillSame, MailByTables
<1> QED
  BY <1>2, <1>3, SteadyStep DEF SchedUnlock, Serves, r

\* OSTaskSuspend.
LEMMA SuspendStep == ASSUME Careful, IInv, Suspend PROVE Kept
<1>0. PICK t \in User : /\ ~MutexSleeper(t) /\ (t = os.Cur => os.LockNesting = 0)
                        /\ Step(OSTaskSuspend(os, os.tcb[t].Prio))
  BY DEF Suspend
<1>1. /\ Steady(os) /\ Settled(os) /\ os.PrioCur \in os.Rdy /\ os \in KernelState(Ptrs)
      /\ t \in Task \ {Idle} /\ os.PrioTbl[os.tcb[t].Prio] = t
      /\ ~(InPend(os, t) /\ (os.tcb[t].EventPtr = M \/ t = os.ev[M].Ptr))
  BY <1>0, Caller DEF Suspend, User, Sound, Prioritized, MutexSleeper, Owner
<1> DEFINE r == OSTaskSuspend(os, os.tcb[t].Prio)
           k == NotReady([os EXCEPT !.tcb[t].Stat = @ \cup {"SUSPEND"}], t)
           b == [os.tcb[t] EXCEPT !.Stat = @ \cup {"SUSPEND"}]
<1>2. r = os \/ r = OS_Sched(k) \/ (t # os.Cur /\ r = k)
  BY <1>1 DEF OSTaskSuspend
<1>3. /\ Settled(k) /\ OneTask(os, k, t, b) /\ k.Rdy = os.Rdy \ {os.tcb[t].Prio}
      /\ t # os.Cur => k.PrioCur \in k.Rdy
  BY <1>0, <1>1, SuspendedSettled
<1>4. b.EventPtr = os.tcb[t].EventPtr /\ b.Msg = os.tcb[t].Msg /\ b.StatPend = os.tcb[t].StatPend
  BY <1>1 DEF KernelState, TCB
<1> HIDE DEF r, k, b
<1>5. MailKept(os, k) /\ AnswersKept(os, k)
  BY <1>1, <1>3, <1>4, OneTaskMail
<1>6. SameRunning(k, os)
  BY <1>3 DEF OneTask
<1>7. Finished(os, r) /\ MailKept(os, r) /\ AnswersKept(os, r)
  <2>1. CASE r = os
    BY <1>1, <2>1, StillSame
  <2>2. CASE r = OS_Sched(k)
    BY <1>3, <1>5, <1>6, <2>2, SchedFinished, MailByTables
  <2>3. CASE t # os.Cur /\ r = k
    <3>1. k.Rdy \subseteq os.Rdy
      BY <1>3
    <3> QED
      BY <1>3, <1>5, <1>6, <2>3, <3>1, StillFinished
  <2> QED
    BY <1>2, <2>1, <2>2, <2>3
<1> QED
  BY <1>0, <1>7, QuietStep DEF r

\* OSTaskResume.
LEMMA ResumeStep == ASSUME Careful, IInv, Resume PROVE Kept
<1>0. PICK t \in User : Step(OSTaskResume(os, os.tcb[t].Prio))
  BY DEF Resume
<1>1. /\ Steady(os) /\ Settled(os) /\ os.PrioCur \in os.Rdy /\ os \in KernelState(Ptrs)
      /\ t \in Task \ {Idle} /\ os.PrioTbl[os.tcb[t].Prio] = t
  BY Caller DEF Resume, User, Sound, Prioritized
<1> DEFINE r == OSTaskResume(os, os.tcb[t].Prio)
           k1 == [os EXCEPT !.tcb[t].Stat = @ \ {"SUSPEND"}]
           free == k1.tcb[t].Stat = {} /\ k1.tcb[t].Dly = 0
           k == IF free THEN Ready(k1, t) ELSE k1
           b == [os.tcb[t] EXCEPT !.Stat = @ \ {"SUSPEND"}]
<1>2. r = os \/ ("SUSPEND" \in os.tcb[t].Stat /\ (r = OS_Sched(k) \/ (~free /\ r = k)))
  BY <1>1 DEF OSTaskResume
<1>3. CASE r = os
  <2>1. Finished(os, r) /\ MailKept(os, r) /\ AnswersKept(os, r)
    BY <1>1, <1>3, StillSame
  <2> HIDE DEF r
  <2> QED
    BY <1>0, <2>1, QuietStep DEF r
<1>4. CASE "SUSPEND" \in os.tcb[t].Stat /\ (r = OS_Sched(k) \/ (~free /\ r = k))
  <2>1. /\ Settled(k) /\ OneTask(os, k, t, b) /\ k.PrioCur \in k.Rdy
        /\ ~free => k.Rdy = os.Rdy
    BY <1>1, <1>4, UnsuspendedSettled
  <2>2. b.EventPtr = os.tcb[t].EventPtr /\ b.Msg = os.tcb[t].Msg /\ b.StatPend = os.tcb[t].StatPend
    BY <1>1 DEF KernelState, TCB
  <2> HIDE DEF r, k, k1, free, b
  <2>3. MailKept(os, k) /\ AnswersKept(os, k)
    BY <1>1, <2>1, <2>2, OneTaskMail
  <2>4. SameRunning(k, os)
    BY <2>1 DEF OneTask
  <2>5. Finished(os, r) /\ MailKept(os, r) /\ AnswersKept(os, r)
    <3>1. CASE r = OS_Sched(k)
      BY <2>1, <2>3, <2>4, <3>1, SchedFinished, MailByTables
    <3>2. CASE ~free /\ r = k
      BY <2>1, <2>3, <2>4, <3>2, StillFinished
    <3> QED
      BY <1>4, <3>1, <3>2
  <2> QED
    BY <1>0, <2>5, QuietStep DEF r
<1> QED
  BY <1>2, <1>3, <1>4

\* The end of a pend: a message that was handed over is returned.
LEMMA TailStep == ASSUME Careful, IInv, Tail PROVE Kept
<1>1. Steady(os) /\ os \in KernelState(Ptrs) /\ OneHolder(os) /\ InPend(os, os.Cur) /\ os.Cur \in Task
  BY DEF Tail, IInv, Steady, Settled, Sound, KernelState
<1> DEFINE r == PendTail(os)
           t == os.Cur
           b == Returned(os.tcb[t])
           m == os.tcb[t].Msg
<1>2. os' = r /\ got' = (IF os.tcb[t].EventPtr = B /\ os.tcb[t].StatPend = "OK" THEN m ELSE None)
      /\ late' = late
  BY DEF Tail, MboxReturns
<1>3. /\ Steady(r) /\ r.Rdy = os.Rdy /\ SameRunning(r, os)
      /\ TaskIs(r, os, t, b) /\ EventsKept(r, os)
  BY <1>1, TailSteady
<1>4. b.StatPend = "OK" /\ b.Msg = None
  BY <1>1 DEF KernelState, TCB, Returned
<1>5. B \in Event /\ None \notin Message
  BY KernelAssumption
<1> HIDE DEF r, b
<1>6. AnswersKept(os, r)
  BY <1>3, <1>4 DEF AnswersKept, TaskIs
<1>7. r.ev[B].Ptr = os.ev[B].Ptr /\ r.tcb[t].Msg = None /\ \A u \in Task \ {t} : r.tcb[u] = os.tcb[u]
  BY <1>3, <1>4, <1>5 DEF TaskIs, EventsKept
<1>8. CASE m # None
  <2>1. /\ m \in Message /\ m # os.ev[B].Ptr /\ os.tcb[t].EventPtr = B /\ os.tcb[t].StatPend = "OK"
        /\ \A u \in Task : u # t => os.tcb[u].Msg # m
    BY <1>1, <1>8 DEF OneHolder
  <2>2. got' = m /\ m \in DueIn(os)
    BY <1>1, <1>2, <1>8, <2>1 DEF DueIn
  <2>3. DueIn(r) = DueIn(os) \ {m}
    <3>1. ASSUME NEW x \in Message PROVE x \in DueIn(r) <=> x \in DueIn(os) /\ x # m
      BY <1>1, <1>7, <1>8, <2>1 DEF DueIn
    <3> QED
      BY <3>1 DEF DueIn
  <2> QED
    BY <1>2, <2>1, <2>2, <2>3, <1>3, <1>6, <1>1 DEF Kept, Delivered, IInv, SameRunning, SameNesting
<1>9. CASE m = None
  <2>1. DueIn(r) = DueIn(os)
    <3>1. ASSUME NEW x \in Message PROVE x \in DueIn(r) <=> x \in DueIn(os)
      BY <1>1, <1>7, <1>9 DEF DueIn
    <3> QED
      BY <3>1 DEF DueIn
  <2> QED
    BY <1>2, <1>9, <2>1, <1>3, <1>6, <1>1 DEF Kept, Delivered, IInv, SameRunning, SameNesting
<1> QED
  BY <1>8, <1>9

-----------------------------------------------------------------------------
(* Interrupts.                                                                *)

\* An interrupt begins.
LEMMA Interrupted ==
    ASSUME IInv
    PROVE  LET r == OSIntEnter(os)
           IN  /\ Settled(r) /\ r.PrioCur \in r.Rdy /\ SameTables(r, os) /\ r.IntNesting = 1
               /\ DueIn(r) = DueIn(os)
<1>1. Steady(os) /\ Settled(os) /\ os.PrioCur \in os.Rdy /\ os.IntNesting = 0
  BY DEF IInv, Steady
<1> DEFINE r == OSIntEnter(os)
<1>2. Settled(r) /\ SameTables(r, os) /\ r.IntNesting = os.IntNesting + 1 /\ r.PrioCur = os.PrioCur
  BY <1>1, IntEnterSettled
<1> HIDE DEF r
<1>3. DueIn(r) = DueIn(os)
  BY <1>2, MailByTables
<1> QED
  BY <1>1, <1>2, <1>3 DEF SameTables, r

\* The interrupt ends in the scheduler.
LEMMA InterruptEnds ==
    ASSUME IInv, NEW k, Settled(k), k.IntNesting = 1
    PROVE  LET r == OSIntExit(k) IN Steady(r) /\ Serves(r) /\ SameTables(r, k)
<1> DEFINE r == OSIntExit(k)
<1>1. Steady(r) /\ SameTables(r, k) /\ (r.LockNesting = 0 => r.PrioCur = Highest(r.Rdy))
  BY IntExitSteady
<1> HIDE DEF r
<1> QED
  BY <1>1 DEF Serves, r

\* The tick interrupt.
LEMMA TickStep == ASSUME Careful, IInv, Tick PROVE Kept
<1> DEFINE k == OSIntEnter(os)
           q == OSTimeTick(k)
           r == OSIntExit(q)
<1>1. Settled(k) /\ k.PrioCur \in k.Rdy /\ SameTables(k, os) /\ k.IntNesting = 1
      /\ os \in KernelState(Ptrs)
  BY Interrupted DEF IInv, Steady, Settled, Sound
<1>2. Step(r)
  BY DEF Tick, Interrupt
<1> HIDE DEF k
<1>3. /\ Settled(q) /\ SameRunning(q, k) /\ q.ev = k.ev
      /\ q.tcb = [t \in Task |-> Ticked(k.tcb[t])]
  BY <1>1, TickSettled
<1> HIDE DEF q
<1>4. Steady(r) /\ Serves(r) /\ SameTables(r, q)
  BY <1>1, <1>3, InterruptEnds DEF SameRunning, SameNesting
<1>5. MailKept(os, q) /\ AnswersKept(os, q)
  <2>1. q.ev = os.ev /\ \A t \in Task : q.tcb[t] = Ticked(os.tcb[t])
    BY <1>1, <1>3 DEF SameTables
  <2>2. ASSUME NEW t \in Task
        PROVE  LET b == Ticked(os.tcb[t])
               IN  /\ b.Msg = os.tcb[t].Msg /\ b.EventPtr = os.tcb[t].EventPtr
                   /\ ~Waiting(os, t) /\ os.tcb[t].StatPend = "OK" => b.StatPend = "OK"
    <3>1. os.tcb[t] \in TCB(Ptrs)
      BY <1>1 DEF KernelState
    <3>2. Ticked(os.tcb[t]).Msg = os.tcb[t].Msg /\ Ticked(os.tcb[t]).EventPtr = os.tcb[t].EventPtr
      BY <3>1, TickedType
    <3>3. ~Waiting(os, t) /\ os.tcb[t].StatPend = "OK" => Ticked(os.tcb[t]).StatPend = "OK"
      BY <3>1 DEF TCB, Ticked, Expired, Waiting
    <3> QED
      BY <3>2, <3>3
  <2> QED
    BY <2>1, <2>2 DEF MailKept, AnswersKept
<1> HIDE DEF r
<1> QED
  BY <1>2, <1>4, <1>5, MailByTables, SteadyStep

\* A post to the mailbox from an interrupt.
LEMMA IsrMboxPostStep == ASSUME Careful, IInv, IsrMboxPost PROVE Kept
<1> DEFINE k == OSIntEnter(os)
<1>0. PICK m \in Message \ DueIn(os) : Interrupt(OSMboxPost(k, B, m))
  BY DueIs DEF IsrMboxPost
<1> DEFINE q == OSMboxPost(k, B, m)
           r == OSIntExit(q)
<1>1. /\ Settled(k) /\ k.PrioCur \in k.Rdy /\ SameTables(k, os) /\ k.IntNesting = 1
      /\ DueIn(k) = DueIn(os)
  BY Interrupted
<1>2. Step(r)
  BY <1>0 DEF Interrupt
<1> HIDE DEF k
<1>3. /\ Finished(k, q) /\ AnswersKept(k, q)
      /\ MailKept(k, q) \/ DueIn(q) = DueIn(k) \cup {m}
  BY <1>1, MboxPosted
<1> HIDE DEF q
<1>4. Steady(r) /\ Serves(r) /\ SameTables(r, q)
  BY <1>1, <1>3, InterruptEnds DEF Finished, SameNesting
<1> HIDE DEF r
<1>5. AnswersKept(os, q) /\ (MailKept(os, q) \/ DueIn(q) = DueIn(os) \cup {m})
  BY <1>1, <1>3 DEF SameTables, AnswersKept, MailKept, Waiting
<1>6. AnswersKept(os, r) /\ (MailKept(os, r) \/ DueIn(r) = DueIn(os) \cup {m})
  BY <1>4, <1>5, MailByTables
<1> QED
  BY <1>2, <1>4, <1>6, PostedStep

\* A post to the semaphore from an interrupt.
LEMMA IsrSemPostStep == ASSUME Careful, IInv, IsrSemPost PROVE Kept
<1> DEFINE k == OSIntEnter(os)
           q == OSSemPost(k, S)
           r == OSIntExit(q)
<1>1. Settled(k) /\ k.PrioCur \in k.Rdy /\ SameTables(k, os) /\ k.IntNesting = 1
  BY Interrupted
<1>2. Step(r)
  BY DEF IsrSemPost, Interrupt
<1> HIDE DEF k
<1>3. Finished(k, q) /\ MailKept(k, q) /\ AnswersKept(k, q)
  BY <1>1, SemPosted
<1> HIDE DEF q
<1>4. Steady(r) /\ Serves(r) /\ SameTables(r, q)
  BY <1>1, <1>3, InterruptEnds DEF Finished, SameNesting
<1> HIDE DEF r
<1>5. AnswersKept(os, q) /\ MailKept(os, q)
  BY <1>1, <1>3 DEF SameTables, AnswersKept, MailKept, Waiting
<1> QED
  BY <1>2, <1>4, <1>5, MailByTables, SteadyStep

-----------------------------------------------------------------------------
(* The theorems.                                                              *)

\* The events as they are created.
LEMMA FirstEvents ==
    LET ev == [e \in Event |-> Created(e)]
    IN  /\ ev \in [Event -> ECB(Ptrs)] /\ \A e \in Event : ev[e].Tbl = {}
        /\ ev[M] = OSMutexCreated /\ ev[B].Ptr = None /\ ev[S].Cnt = 0
<1>1. Event = {M, B, S} /\ M # B /\ B # S /\ S # M /\ OS_MUTEX_AVAILABLE \in Nat /\ None \in Ptrs
  BY KernelAssumption, MutexAssumption DEF Ptrs
<1>2. Created(M) = OSMutexCreated /\ Created(B) = OSMboxCreate(None) /\ Created(S) = OSSemCreate(0)
  BY <1>1 DEF Created
<1>3. /\ OSMutexCreated \in ECB(Ptrs) /\ OSMboxCreate(None) \in ECB(Ptrs) /\ OSSemCreate(0) \in ECB(Ptrs)
      /\ OSMutexCreated.Tbl = {} /\ OSMboxCreate(None).Tbl = {} /\ OSSemCreate(0).Tbl = {}
      /\ OSMboxCreate(None).Ptr = None /\ OSSemCreate(0).Cnt = 0
  BY <1>1 DEF OSMutexCreated, OSMboxCreate, OSSemCreate, ECB
<1> QED
  BY <1>1, <1>2, <1>3

\* The kernel as OSStart() leaves it.
LEMMA Started ==
    LET ev == [e \in Event |-> Created(e)]
        r  == OSStart(BasePrio, ev)
    IN  /\ r \in KernelState(Ptrs) /\ r.ev = ev
        /\ \A t \in Task : r.tcb[t] = NewTCB(BasePrio[t]) /\ r.PrioTbl[BasePrio[t]] = t
        /\ r.PrioTbl[Pip] = None /\ r.Rdy = {BasePrio[t] : t \in Task}
        /\ r.PrioCur = BasePrio[r.Cur] /\ r.PrioCur = Highest(r.Rdy)
        /\ r.IntNesting = 0 /\ r.LockNesting = 0
<1> DEFINE ev == [e \in Event |-> Created(e)]
           P == {BasePrio[t] : t \in Task}
           r == OSStart(BasePrio, ev)
           c == CHOOSE t \in Task : BasePrio[t] = Highest(P)
<1>1. /\ BasePrio \in [Task -> Prios] /\ DOMAIN BasePrio = Task /\ Prios \subseteq Nat
      /\ Pip \in Prios /\ \A t \in Task : BasePrio[t] # Pip
      /\ \A t, u \in Task : BasePrio[t] = BasePrio[u] => t = u
  BY KernelAssumption, PipIsApart
<1>2. P \in SUBSET Prios /\ P \in SUBSET Nat /\ P # {}
  <2>1. \A t \in Task : BasePrio[t] \in Prios
    BY <1>1
  <2>2. P \subseteq Prios
    BY <2>1
  <2>3. BasePrio[Idle] \in P
    BY CoreAssumption
  <2> HIDE DEF P
  <2> QED
    BY <1>1, <2>2, <2>3
<1>3. Highest(P) \in P
  BY <1>2, HighestIs
<1>4. c \in Task /\ BasePrio[c] = Highest(P)
  BY <1>3
<1>5. ev \in [Event -> ECB(Ptrs)]
  BY FirstEvents
<1>6. \A t \in Task : NewTCB(BasePrio[t]) \in TCB(Ptrs)
  BY <1>1 DEF NewTCB, TCB, Ptrs, Stats
<1> DEFINE T == [t \in Task |-> NewTCB(BasePrio[t])]
           F == [p \in Prios |-> IF \E t \in Task : BasePrio[t] = p
                                 THEN CHOOSE t \in Task : BasePrio[t] = p ELSE None]
<1>7. r = [tcb |-> T, PrioTbl |-> F, Rdy |-> P, ev |-> ev, Cur |-> c, PrioCur |-> Highest(P),
           IntNesting |-> 0, LockNesting |-> 0]
  BY <1>1 DEF OSStart
<1>8. T \in [Task -> TCB(Ptrs)] /\ \A t \in Task : T[t] = NewTCB(BasePrio[t])
  BY <1>6
<1>9. F \in [Prios -> Task \cup {None, Reserved}] /\ F[Pip] = None /\ \A t \in Task : F[BasePrio[t]] = t
  <2>1. ASSUME NEW p \in Prios, \E t \in Task : BasePrio[t] = p
        PROVE  F[p] \in Task /\ BasePrio[F[p]] = p
    BY <2>1
  <2>2. ASSUME NEW p \in Prios, ~ \E t \in Task : BasePrio[t] = p
        PROVE  F[p] = None
    BY <2>2
  <2>3. F \in [Prios -> Task \cup {None, Reserved}]
    <3>1. \A p \in Prios : F[p] \in Task \cup {None, Reserved}
      BY <2>1, <2>2
    <3> QED
      BY <3>1
  <2>4. F[Pip] = None
    BY <1>1, <2>2
  <2>5. ASSUME NEW t \in Task PROVE F[BasePrio[t]] = t
    <3>1. F[BasePrio[t]] \in Task /\ BasePrio[F[BasePrio[t]]] = BasePrio[t]
      BY <1>1, <2>1
    <3> QED
      BY <1>1, <3>1
  <2> QED
    BY <2>3, <2>4, <2>5
<1> HIDE DEF P, c, T, F, ev, r
<1>10. r \in KernelState(Ptrs)
  BY <1>2, <1>3, <1>4, <1>5, <1>7, <1>8, <1>9 DEF KernelState
<1>11. /\ r.tcb = T /\ r.PrioTbl = F /\ r.Rdy = P /\ r.ev = ev /\ r.Cur = c /\ r.PrioCur = Highest(P)
       /\ r.IntNesting = 0 /\ r.LockNesting = 0
  BY <1>7
<1> QED
  BY <1>4, <1>8, <1>9, <1>10, <1>11 DEF r, ev, P

\* The invariant holds when the tasks start, and no message is due.
LEMMA InitIInv == Init => IInv /\ DueIn(os) = {}
<1> SUFFICES ASSUME Init PROVE IInv /\ DueIn(os) = {}
  OBVIOUS
<1> DEFINE ev == [e \in Event |-> Created(e)]
           k == OSStart(BasePrio, ev)
           k1 == WithPrio(k, Pip, Reserved)
<1>1. /\ k \in KernelState(Ptrs) /\ k.ev = ev
      /\ \A t \in Task : k.tcb[t] = NewTCB(BasePrio[t]) /\ k.PrioTbl[BasePrio[t]] = t
      /\ k.PrioTbl[Pip] = None /\ k.Rdy = {BasePrio[t] : t \in Task}
      /\ k.PrioCur = BasePrio[k.Cur] /\ k.PrioCur = Highest(k.Rdy)
      /\ k.IntNesting = 0 /\ k.LockNesting = 0
  BY Started
<1>2. /\ ev \in [Event -> ECB(Ptrs)] /\ \A e \in Event : ev[e].Tbl = {}
      /\ ev[M] = OSMutexCreated /\ ev[B].Ptr = None /\ ev[S].Cnt = 0
  BY FirstEvents
<1>3. os = OSMutexCreate(k, M, Pip) /\ got = None /\ late = FALSE
  BY DEF Init
<1> HIDE DEF k, ev
<1>4. os = WithEvent(k1, M, OSMutexCreated)
  BY <1>1, <1>3 DEF OSMutexCreate, WithEvent, WithPrio
<1>5. M \in Event /\ B \in Event /\ S \in Event /\ M # B /\ B # S /\ S # M /\ OSMutexCreated \in ECB(Ptrs)
  BY <1>2, KernelAssumption
<1>6. /\ k1 \in KernelState(Ptrs) /\ k1.PrioTbl = [k.PrioTbl EXCEPT ![Pip] = Reserved]
      /\ k1.tcb = k.tcb /\ k1.Rdy = k.Rdy /\ k1.ev = k.ev /\ SameRunning(k1, k)
  BY <1>1, PipIsApart, SetPrio
<1> HIDE DEF k1
<1>7. /\ os \in KernelState(Ptrs) /\ os.ev = [k1.ev EXCEPT ![M] = OSMutexCreated]
      /\ os.tcb = k1.tcb /\ os.PrioTbl = k1.PrioTbl /\ os.Rdy = k1.Rdy /\ SameRunning(os, k1)
  <2>1. k1 \in KernelState(Ptrs)
    BY <1>6
  <2> QED
    BY <1>4, <1>5, <2>1, SetEvent
<1>8. /\ \A e \in Event : os.ev[e].Tbl = {}
      /\ os.ev[M] = OSMutexCreated /\ os.ev[B].Ptr = None /\ os.ev[S].Cnt = 0
  BY <1>1, <1>2, <1>5, <1>6, <1>7
<1>9. os.ev[M].Ptr = None /\ os.ev[M].Cnt = OS_MUTEX_AVAILABLE
  BY <1>8 DEF OSMutexCreated
<1>10. ASSUME NEW t \in Task
       PROVE  /\ os.tcb[t].Prio = BasePrio[t] /\ os.tcb[t].Stat = {} /\ os.tcb[t].StatPend = "OK"
              /\ os.tcb[t].Dly = 0 /\ os.tcb[t].EventPtr = None /\ os.tcb[t].Msg = None
  <2>1. os.tcb[t] = NewTCB(BasePrio[t])
    BY <1>1, <1>6, <1>7
  <2> QED
    BY <2>1 DEF NewTCB
<1>11. \A t \in Task : os.PrioTbl[BasePrio[t]] = t /\ BasePrio[t] # Pip
  BY <1>1, <1>6, <1>7, PipIsApart DEF KernelState
<1>12. os.Rdy = {BasePrio[t] : t \in Task}
  BY <1>1, <1>6, <1>7
<1>13. None \notin Task /\ None \notin Event /\ Idle \in Task /\ None \notin Message
  BY CoreAssumption, KernelAssumption
<1>14. \A t \in Task : ~Waiting(os, t)
  BY <1>10 DEF Waiting
<1>15. Prioritized(os) /\ Listed(os)
  BY <1>9, <1>10, <1>11, <1>12, <1>13 DEF Prioritized, Listed
<1>16. Queued(os)
  BY <1>8, <1>14 DEF Queued
<1>17. InOnePend(os)
  BY <1>5, <1>9, <1>10, <1>13, <1>14 DEF InOnePend, OnePend
<1>18. OneHolder(os)
  BY <1>8, <1>10 DEF OneHolder
<1>19. Counted(os)
  BY <1>8, <1>9, <1>13, <1>14, SemAssumption DEF Counted, Missing
<1>20. Owed(os)
  BY <1>14 DEF Owed
<1>21. Sound(os)
  BY <1>7, <1>15, <1>16, <1>17, <1>18, <1>19, <1>20 DEF Sound
<1>22. /\ os.Cur = k.Cur /\ os.PrioCur = k.PrioCur /\ os.IntNesting = 0 /\ os.LockNesting = 0
       /\ os.PrioCur = Highest(os.Rdy)
  BY <1>1, <1>6, <1>7 DEF SameRunning, SameNesting
<1>23. os.Cur \in Task /\ os.tcb[os.Cur].Prio = os.PrioCur /\ os.PrioCur \in os.Rdy
  <2>1. os.Cur \in Task
    BY <1>7 DEF KernelState
  <2>2. os.PrioCur = BasePrio[os.Cur]
    BY <1>1, <1>22
  <2> QED
    BY <2>1, <2>2, <1>10, <1>12
<1>24. DueIn(os) = {}
  BY <1>8, <1>10, <1>13 DEF DueIn
<1> QED
  BY <1>3, <1>21, <1>22, <1>23, <1>24 DEF IInv, Steady, Settled

\* Every step keeps the invariant, the answers and the messages.
LEMMA NextKeeps ==
    ASSUME Careful, IInv, Next
    PROVE  Kept
<1>1. CASE MutexPend BY <1>1, MutexPendStep
<1>2. CASE MutexAccept BY <1>2, MutexAcceptStep
<1>3. CASE MutexPost BY <1>3, MutexPostStep
<1>4. CASE MboxPend BY <1>4, MboxPendStep
<1>5. CASE MboxAccept BY <1>5, MboxAcceptStep
<1>6. CASE MboxPost BY <1>6, MboxPostStep
<1>7. CASE MboxPendAbort BY <1>7, MboxPendAbortStep
<1>8. CASE SemPend BY <1>8, SemPendStep
<1>9. CASE SemPost BY <1>9, SemPostStep
<1>10. CASE SemPendAbort BY <1>10, SemPendAbortStep
<1>11. CASE SemSet BY <1>11, SemSetStep
<1>12. CASE TimeDly BY <1>12, TimeDlyStep
<1>13. CASE TimeDlyResume BY <1>13, TimeDlyResumeStep
<1>14. CASE SchedLock BY <1>14, SchedLockStep
<1>15. CASE SchedUnlock BY <1>15, SchedUnlockStep
<1>16. CASE Suspend BY <1>16, SuspendStep
<1>17. CASE Resume BY <1>17, ResumeStep
<1>18. CASE Tail BY <1>18, TailStep
<1>19. CASE Tick BY <1>19, TickStep
<1>20. CASE IsrMboxPost BY <1>20, IsrMboxPostStep
<1>21. CASE IsrSemPost BY <1>21, IsrSemPostStep
<1> QED
  BY <1>1, <1>2, <1>3, <1>4, <1>5, <1>6, <1>7, <1>8, <1>9, <1>10, <1>11, <1>12, <1>13, <1>14,
     <1>15, <1>16, <1>17, <1>18, <1>19, <1>20, <1>21 DEF Next

\* A step that changes nothing keeps the invariant.
LEMMA StutterKeeps ==
    ASSUME IInv, UNCHANGED vars
    PROVE  IInv'
  BY DEF IInv, vars, Steady, Settled, Sound, Prioritized, Listed, Queued, InOnePend, OnePend,
         OneHolder, Counted, Missing, Owed, Waiting

\* With careful tasks the kernel is steady between any two steps.
THEOREM KernelSteady ==
    ASSUME Careful
    PROVE  Spec => []IInv
<1>1. Init => IInv
  BY InitIInv
<1>2. IInv /\ [Next]_vars => IInv'
  BY NextKeeps, StutterKeeps DEF Kept
<1> QED
  BY <1>1, <1>2, PTL DEF Spec

-----------------------------------------------------------------------------
(* What the invariant says.                                                   *)

\* The parts of the invariant.
LEMMA SteadyFields ==
    ASSUME IInv
    PROVE  /\ Steady(os) /\ Settled(os) /\ Sound(os) /\ os \in KernelState(Ptrs)
           /\ Prioritized(os) /\ Listed(os) /\ Queued(os) /\ InOnePend(os) /\ OneHolder(os)
           /\ Counted(os) /\ Owed(os)
           /\ os.PrioCur \in os.Rdy /\ os.tcb[os.Cur].Prio = os.PrioCur
           /\ os.IntNesting = 0 /\ os.LockNesting \in {0, 1}
  BY DEF IInv, Steady, Settled, Sound

\* The invariant implies the type invariant.
LEMMA InRange == ASSUME IInv PROVE TypeOK
<1>1. /\ os \in KernelState(Ptrs)
      /\ Prioritized(os) /\ Listed(os) /\ Queued(os) /\ OneHolder(os) /\ Counted(os)
      /\ os.PrioCur \in os.Rdy /\ os.tcb[os.Cur].Prio = os.PrioCur
      /\ os.IntNesting = 0 /\ os.LockNesting \in {0, 1}
  BY SteadyFields
<1>2. DOMAIN os.tcb = Task /\ os.Cur \in Task
  BY <1>1 DEF KernelState
<1>3. ASSUME NEW t \in Task
      PROVE  /\ os.tcb[t].Prio \in {BasePrio[t], Pip} /\ os.PrioTbl[os.tcb[t].Prio] = t
             /\ os.tcb[t].Stat \subseteq Stats /\ os.tcb[t].StatPend \in {"OK", "TO", "ABORT"}
             /\ os.tcb[t].Dly \in Nat /\ os.tcb[t].EventPtr \in Event \cup {None}
             /\ os.tcb[t].Msg \in Message \cup {None}
  <2>1. os.tcb[t] \in TCB(Ptrs)
    BY <1>1 DEF KernelState
  <2> QED
    BY <1>1, <2>1 DEF TCB, Prioritized, OneHolder
<1>4. os.PrioTbl[os.PrioCur] = os.Cur
  BY <1>1, <1>2 DEF Prioritized
<1>5. OS_TASK_IDLE_PRIO \in os.Rdy
  <2>1. Idle \in Task /\ os.tcb[Idle].Prio \in os.Rdy
    BY <1>1, CoreAssumption DEF Listed
  <2>2. os.tcb[Idle].Prio # Pip
    BY <1>1, <2>1, CoreAssumption DEF Prioritized, Counted, User
  <2> QED
    BY <1>1, <2>1, <2>2, KernelAssumption DEF Prioritized
<1>6. \A p \in os.Rdy \cup UNION {os.ev[e].Tbl : e \in Event} : os.PrioTbl[p] \in Task
  <2>1. \A p \in os.Rdy : os.PrioTbl[p] \in Task
    BY <1>1 DEF Listed, Prioritized
  <2>2. \A e \in Event : \A p \in os.ev[e].Tbl : os.PrioTbl[p] \in Task
    BY <1>1 DEF Queued, Prioritized
  <2> QED
    BY <2>1, <2>2
<1>7. /\ os.ev[B].Ptr \in Message \cup {None} /\ os.ev[S].Cnt \in 0 .. SemMax
      /\ os.ev[M].Ptr \in User \cup {None}
  BY <1>1 DEF OneHolder, Counted
<1>8. got \in Message \cup {None} /\ late \in BOOLEAN
  BY DEF IInv
<1> QED
  BY <1>1, <1>2, <1>3, <1>4, <1>5, <1>6, <1>7, <1>8 DEF TypeOK

\* The wait lists name tasks that wait, and all of them.
LEMMA InLists == ASSUME IInv PROVE ListsAreWaiters
<1>1. Prioritized(os) /\ Queued(os)
  BY SteadyFields
<1>2. ASSUME NEW e \in Event, NEW p \in os.ev[e].Tbl
      PROVE  LET t == os.PrioTbl[p] IN os.tcb[t].Prio = p /\ os.tcb[t].EventPtr = e
  BY <1>1 DEF Queued, Prioritized
<1>3. ASSUME NEW e \in Event, NEW t \in Task, Waits(t, e)
      PROVE  os.tcb[t].Prio \in os.ev[e].Tbl
  BY <1>1, <1>3 DEF Queued, Waits, Waiting
<1> QED
  BY <1>2, <1>3 DEF ListsAreWaiters

\* With careful tasks the kernel's tables agree with one another, whatever the
\* tasks call and whenever an interrupt comes (os_core.c).
THEOREM KernelConsistent ==
    ASSUME Careful
    PROVE  Spec => []Consistent
<1>1. ASSUME IInv PROVE Consistent
  <2>1. TypeOK /\ ListsAreWaiters
    BY <1>1, InRange, InLists
  <2>2. HighestRuns
    BY <1>1, SteadyFields DEF IInv, HighestRuns, Listed
  <2> QED
    BY <1>1, <2>1, <2>2, SteadyFields DEF Consistent, Running
<1> QED
  BY <1>1, KernelSteady, PTL

\* No task sleeps for a message, a count or a mutex that is there: every call
\* that makes one available takes the first waiter out of the list.
THEOREM KernelNoLostWakeup ==
    ASSUME Careful
    PROVE  Spec => []NoLostWakeup
<1>1. ASSUME IInv PROVE NoLostWakeup
  <2>1. Counted(os) /\ (Available(os, M) <=> os.ev[M].Ptr = None)
    BY <1>1, SteadyFields, MutexFree
  <2> QED
    BY <2>1 DEF NoLostWakeup, Waits, Counted, Missing, Waiting
<1> QED
  BY <1>1, KernelSteady, PTL

\* Priority inheritance (os_mutex.c): the owner of the mutex runs at Pip while
\* a task more urgent than itself waits for it, and nobody else does.
THEOREM KernelInherits ==
    ASSUME Careful
    PROVE  Spec => []Inherits
<1>1. ASSUME IInv PROVE Inherits
  <2>1. /\ os \in KernelState(Ptrs) /\ Prioritized(os) /\ Counted(os) /\ Owed(os)
    BY <1>1, SteadyFields
  <2>2. \A t \in Task : os.tcb[t].Prio = Pip => t = Owner
    BY <2>1 DEF Prioritized, Owner
  <2>3. ASSUME Owner # None
        PROVE  /\ Owner \in Task /\ os.ev[M].Cnt = BasePrio[Owner]
               /\ os.tcb[Owner].Stat \subseteq Stats
    BY <2>1, <2>3 DEF Counted, Owner, User, KernelState, TCB
  <2>4. ASSUME Owner # None, NEW t \in Task, Waits(t, M), BasePrio[t] < BasePrio[Owner]
        PROVE  os.tcb[Owner].Prio = Pip
    BY <2>1, <2>3, <2>4 DEF Owed, Owner, Waits, Waiting
  <2>5. ASSUME Owner # None, os.tcb[Owner].EventPtr = M
        PROVE  os.tcb[Owner].StatPend = "OK" /\ os.tcb[Owner].Stat \subseteq {"SUSPEND"}
    <3>1. os.tcb[Owner].StatPend = "OK" /\ ~Waiting(os, Owner)
      BY <2>1, <2>3, <2>5 DEF Counted, Missing, Owner
    <3> QED
      BY <2>3, <2>5, <3>1 DEF Waiting, Stats
  <2> QED
    BY <2>2, <2>3, <2>4, <2>5 DEF Inherits
<1> QED
  BY <1>1, KernelSteady, PTL

\* The kernel implements Delivery (os_mbox.c): a message a post accepted is
\* returned by one call, whatever time-outs, aborts and promotions come between;
\* and a task that was handed something does not report a time-out for it.
THEOREM KernelNothingLost ==
    ASSUME Careful
    PROVE  Spec => NothingLost
<1>1. Init => Mailbox!DInit
  <2> SUFFICES ASSUME Init PROVE Mailbox!DInit
    OBVIOUS
  <2>1. Due = DueIn(os) /\ got = None /\ DueIn(os) = {}
    BY DueIs, InitIInv DEF Init
  <2> QED
    BY <2>1 DEF Mailbox!DInit
<1>2. ASSUME IInv, [Next]_vars
      PROVE  [Mailbox!DNext]_Mailbox!dvars
  <2>1. CASE Next
    <3>1. Delivered
      BY <1>2, <2>1, NextKeeps DEF Kept
    <3>2. Due = DueIn(os) /\ Due' = DueIn(os') /\ DueIn(os) \subseteq Message
      BY DEF Due, Handed, DueIn
    <3> QED
      BY <3>1, <3>2 DEF Delivered, Mailbox!DNext, Mailbox!DOther, Mailbox!DPost, Mailbox!DTake
  <2>2. CASE UNCHANGED vars
    <3>1. Due' = Due /\ got' = got
      BY <2>2 DEF vars, Due, Handed
    <3> QED
      BY <3>1 DEF Mailbox!dvars
  <2> QED
    BY <1>2, <2>1, <2>2
<1>3. ASSUME IInv, [Next]_vars
      PROVE  [\A t \in Task :
                 /\ os.tcb[t].EventPtr # None /\ os.tcb[t].EventPtr = os'.tcb[t].EventPtr
                 /\ os.tcb[t].Stat \cap PendAny = {} /\ os.tcb[t].StatPend = "OK"
                 => os'.tcb[t].StatPend = "OK"]_vars
  <2>1. CASE Next
    <3>1. AnswersKept(os, os')
      BY <1>3, <2>1, NextKeeps DEF Kept
    <3> QED
      BY <3>1 DEF AnswersKept, Waiting
  <2> QED
    BY <1>3, <2>1
<1> QED
  BY <1>1, <1>2, <1>3, KernelSteady, PTL
     DEF Spec, NothingLost, KeepsMessages, HandedStays, Mailbox!DSpec
================================================================================
