------------------------------ MODULE Sensors_proofs ------------------------------
(* Neither sensor task spoils a measurement of the other, for every priority,  *)
(* time-out, delay, length of echo and answer, and number of foreign edges:   *)
(* the kernel's tables say what the two tasks and their handlers are about,   *)
(* and on that rest the age of a distance and the count of the edges.         *)
EXTENDS Sensors, OSCore_proofs

-----------------------------------------------------------------------------
(* The inductive invariant.                                                   *)

Vals == {None, PP}

\* A task that pends on e alone: it is in the wait list while it waits, and, once
\* it has timed out, until it returns.
PendOf(b, tbl, p, e, msk) ==
    /\ b.EventPtr \in {None, e} /\ b.Stat \subseteq {msk, "SUSPEND"} /\ tbl \subseteq {p}
    /\ p \in tbl <=> (b.EventPtr = e /\ (msk \in b.Stat \/ b.StatPend = "TO"))
    /\ msk \in b.Stat => b.EventPtr = e
    /\ b.EventPtr = e /\ msk \notin b.Stat => b.Dly = 0

PendS(k) == PendOf(k.tcb[SR04Task], k.ev[SR04CommMbox].Tbl, TASK_SR04_PRIO, SR04CommMbox, "MBOX")
PendA(k) == PendOf(k.tcb[AM2305Task], k.ev[AM2305Sem].Tbl, TASK_AM2305_PRIO, AM2305Sem, "SEM")

\* The ready list and the priority table say what the control blocks say.
Listed(k) ==
    /\ \A t \in Task : /\ k.tcb[t].Prio = Prio[t] /\ k.PrioTbl[Prio[t]] = t
                       /\ Prio[t] \in k.Rdy <=> (k.tcb[t].Stat = {} /\ k.tcb[t].Dly = 0)
    /\ k.Rdy \subseteq {Prio[t] : t \in Task} /\ Prio[Idle] \in k.Rdy
    /\ k.PrioCur = Prio[k.Cur]

Sound(k) ==
    /\ k \in KernelState(Vals) /\ Listed(k) /\ PendS(k) /\ PendA(k)
    /\ k.tcb[Idle].EventPtr = None /\ "SUSPEND" \notin k.tcb[SR04Task].Stat

\* Between two steps the most urgent ready task runs.
Runner(k) == k.PrioCur \in k.Rdy /\ \A q \in k.Rdy : k.PrioCur <= q
Steady(k) == Sound(k) /\ MayPend(k) /\ Runner(k)

\* Where vTaskSR04 is, and what the kernel knows of it.
Asked == {"trigger", "pend", "pended", "resumeOk", "resumeErr"}
Ranging ==
    /\ pcS \in Asked \cup {"suspend", "read", "delay"}
    /\ pcS = "pended" <=> InPend(os, SR04Task)
    /\ pcS \notin {"pended", "suspend"} => os.tcb[SR04Task].Stat = {} /\ os.tcb[SR04Task].Dly = 0
    /\ "MBOX" \in os.tcb[SR04Task].Stat => os.tcb[SR04Task].Dly > 0
    /\ HeldWhileMeasuring

\* The handler's flag follows the edges of the sensor.
SonarRight ==
    /\ EXTI_LINE7_FLAG \in 0 .. 2 /\ fSR04Distance \in 0 .. 255
    /\ sonar \in {"quiet", "armed", "high"} /\ (TIM2 = None \/ TIM2 \in Nat) /\ echo \in Nat
    /\ pulse \in [ticks : Nat, age : 0 .. 2] /\ age \in 0 .. 2 /\ queued \in BOOLEAN
    /\ sonar = "armed" => EXTI_LINE7_FLAG = 2
    /\ EXTI_LINE7_FLAG = 1 => TIM2 \in Nat
    /\ sonar = "high" => EXTI_LINE7_FLAG = 1
    /\ pulse.age = 0 => EXTI_LINE7_FLAG = 0
    /\ EXTI_LINE7_FLAG = 0 => sonar = "quiet"

Posted == os.ev[SR04CommMbox].Ptr # None

\* What is left of the time-out bounds the time an echo takes.
WaitsInTime ==
    /\ os.tcb[SR04Task].Dly <= SR04Ticks
    /\ EXTI_LINE7_FLAG = 1 => TIM2 + os.tcb[SR04Task].Dly <= SR04Ticks + 1
WokenInTime ==
    EXTI_LINE7_FLAG # 0 => ticked /\ (EXTI_LINE7_FLAG = 1 => TIM2 <= SR04Ticks + 1)
InTime ==
    /\ ticked \in BOOLEAN
    /\ pcS = "pend" /\ EXTI_LINE7_FLAG = 1 => TIM2 <= 1 /\ (~ticked => TIM2 <= 0)
    /\ pcS = "pended" /\ "MBOX" \in os.tcb[SR04Task].Stat => WaitsInTime
    /\ pcS = "pended" /\ "MBOX" \notin os.tcb[SR04Task].Stat => WokenInTime

\* Whose trigger a message is of.
Fresh ==
    /\ Posted => pulse.age = 0 \/ (pcS = "pend" /\ queued /\ pulse.age <= 1)
    /\ pcS = "pend" /\ queued => Posted
    /\ pcS = "pended" => ~queued /\ ~Posted
    /\ pcS = "pended" /\ os.ev[SR04CommMbox].Tbl = {} => pulse.age = 0
    /\ pcS \in {"pend", "pended"} /\ pulse.age = 0 => pulse.ticks <= SR04Ticks + 1
    /\ pcS \in {"resumeOk", "read"} =>
        IF queued THEN pulse.age <= 1 ELSE pulse.age = 0 /\ pulse.ticks <= SR04Ticks + 1

\* Where vTask2305 is, and how many edges it has counted.
Unmasked == {"boot", "pend", "pended", "check", "reset", "mask"}
GoneOf(a) == IF a = 0 THEN Edges ELSE a - 1
Gone == GoneOf(answer)
Switches == EXTI0 \in BOOLEAN /\ (EXTI0 <=> pcA \in Unmasked) /\ TIM3 \in BOOLEAN
Counting ==
    /\ pcA \in Unmasked \cup {"start", "delay"} /\ Switches
    /\ pcA = "pended" <=> InPend(os, AM2305Task)
    /\ EXTI_LINE0_FLAG \in Nat /\ answer \in 0 .. Edges /\ noise \in Nat /\ carried \in Nat
    /\ THBuff \in [1 .. BuffLen - 1 -> 0 .. Foreign]
    /\ pcA = "boot" => answer = 0 /\ EXTI_LINE0_FLAG <= noise
    /\ pcA = "start" => EXTI_LINE0_FLAG <= 1 \/ EXTI_LINE0_FLAG <= noise
    /\ pcA \in {"mask", "delay"} => EXTI_LINE0_FLAG <= 1
    /\ pcA \in {"pend", "pended", "check", "reset"} => EXTI_LINE0_FLAG <= carried + noise + Gone

\* The last edge, and no other, posts the semaphore.
Cnt == os.ev[AM2305Sem].Cnt
Counted ==
    /\ Cnt \in 0 .. SemMax /\ Cnt <= 1
    /\ pcA = "pended" => Cnt = 0
    /\ pcA = "pended" /\ os.ev[AM2305Sem].Tbl = {} => EXTI_LINE0_FLAG >= Edges
    /\ pcA \in {"boot", "check", "reset"} /\ Cnt = 1 => EXTI_LINE0_FLAG >= Edges
    /\ pcA \in {"check", "reset"} /\ ended = "posted" => EXTI_LINE0_FLAG >= Edges
    /\ pcA = "boot" => ended # "posted"
    /\ pcA # "pended" /\ Cnt = 1 => ended # "posted"

\* Of an answer nothing disturbed, each stamp is that of its edge.
Undisturbing ==
    /\ answer > 0 => EXTI_LINE0_FLAG = answer - 1
    /\ answer = 0 => EXTI_LINE0_FLAG \in {0, Edges}
    /\ EXTI_LINE0_FLAG \in 1 .. Edges - 1 => TIM3
    /\ \A i \in 1 .. EXTI_LINE0_FLAG : THBuff[i] = i
Clean ==
    pcA \in {"pend", "pended", "check"} =>
        reading = "none" /\ (carried = 0 /\ noise = 0 => Undisturbing)

Ranger == Ranging /\ SonarRight /\ InTime /\ Fresh
Thermometer == Counting /\ Counted /\ Clean
IInv == Steady(os) /\ Ranger /\ Thermometer
-----------------------------------------------------------------------------
(* The kernel's tables.                                                       *)

\* The priorities of the three tasks.
LEMMA Priorities ==
    /\ SR04Task \in Task /\ AM2305Task \in Task /\ Idle \in Task
    /\ SR04Task # AM2305Task /\ SR04Task # Idle /\ AM2305Task # Idle
    /\ \A t \in Task : t \in {SR04Task, AM2305Task, Idle}
    /\ Prio[SR04Task] = TASK_SR04_PRIO /\ Prio[AM2305Task] = TASK_AM2305_PRIO
    /\ Prio[Idle] = OS_TASK_IDLE_PRIO
    /\ TASK_SR04_PRIO \in Nat /\ TASK_AM2305_PRIO \in Nat /\ OS_TASK_IDLE_PRIO \in Nat
    /\ TASK_AM2305_PRIO < TASK_SR04_PRIO /\ TASK_SR04_PRIO < OS_TASK_IDLE_PRIO
    /\ \A t \in Task : Prio[t] \in Prios
    /\ \A t, u \in Task : Prio[t] = Prio[u] => t = u
    /\ SR04CommMbox \in Event /\ AM2305Sem \in Event /\ SR04CommMbox # AM2305Sem
    /\ \A e \in Event : e \in {SR04CommMbox, AM2305Sem}
<1>1. /\ SR04Task \in Task /\ AM2305Task \in Task /\ Idle \in Task
      /\ SR04Task # AM2305Task /\ SR04Task # Idle /\ AM2305Task # Idle
      /\ \A t \in Task : t \in {SR04Task, AM2305Task, Idle}
      /\ SR04CommMbox \in Event /\ AM2305Sem \in Event /\ SR04CommMbox # AM2305Sem
      /\ \A e \in Event : e \in {SR04CommMbox, AM2305Sem}
  BY SensorsAssumption, CoreAssumption
<1>2. /\ TASK_SR04_PRIO \in Nat /\ TASK_AM2305_PRIO \in Nat /\ OS_TASK_IDLE_PRIO \in Nat
      /\ TASK_AM2305_PRIO < TASK_SR04_PRIO /\ TASK_SR04_PRIO < OS_TASK_IDLE_PRIO
  BY SensorsAssumption, CoreAssumption, SR04Assumption DEF Prios
<1>3. /\ Prio[SR04Task] = TASK_SR04_PRIO /\ Prio[AM2305Task] = TASK_AM2305_PRIO
      /\ Prio[Idle] = OS_TASK_IDLE_PRIO
  BY <1>1 DEF Prio
<1>4. \A t \in Task : Prio[t] \in Prios
  BY <1>1, <1>2, <1>3 DEF Prios
<1>5. \A t, u \in Task : Prio[t] = Prio[u] => t = u
  BY <1>1, <1>2, <1>3
<1> QED
  BY <1>1, <1>2, <1>3, <1>4, <1>5

\* The most urgent ready task is one of the three.
LEMMA HighestReady ==
    ASSUME NEW k, Sound(k)
    PROVE  /\ Highest(k.Rdy) \in k.Rdy /\ Highest(k.Rdy) \in Prios
           /\ \A q \in k.Rdy : Highest(k.Rdy) <= q
           /\ k.PrioTbl[Highest(k.Rdy)] \in Task
           /\ Prio[k.PrioTbl[Highest(k.Rdy)]] = Highest(k.Rdy)
<1>1. k.Rdy \in SUBSET Nat /\ k.Rdy # {}
  BY DEF Sound, Listed, KernelState, Prios
<1>2. Highest(k.Rdy) \in k.Rdy /\ \A q \in k.Rdy : Highest(k.Rdy) <= q
  BY <1>1, HighestIs
<1>3. PICK t \in Task : Prio[t] = Highest(k.Rdy)
  BY <1>2 DEF Sound, Listed
<1>4. k.PrioTbl[Highest(k.Rdy)] = t
  BY <1>3 DEF Sound, Listed
<1> QED
  BY <1>2, <1>3, <1>4, Priorities

\* Soundness is about the tables.
LEMMA SoundSame ==
    ASSUME NEW k, NEW r \in KernelState(Vals), Sound(k), SameTables(r, k), r.PrioCur = Prio[r.Cur]
    PROVE  Sound(r)
  BY DEF Sound, Listed, PendS, PendA, SameTables

\* The scheduler makes a sound state a steady one.
LEMMA SchedSteady ==
    ASSUME NEW k, Sound(k), MayPend(k)
    PROVE  LET r == OS_Sched(k) IN Steady(r) /\ SameTables(r, k)
<1> DEFINE r == OS_Sched(k)
<1>1. /\ Highest(k.Rdy) \in k.Rdy /\ Highest(k.Rdy) \in Prios
      /\ \A q \in k.Rdy : Highest(k.Rdy) <= q
      /\ k.PrioTbl[Highest(k.Rdy)] \in Task
      /\ Prio[k.PrioTbl[Highest(k.Rdy)]] = Highest(k.Rdy)
  BY HighestReady
<1>2. k \in KernelState(Vals)
  BY DEF Sound
<1>3. /\ r \in KernelState(Vals) /\ SameTables(r, k) /\ SameNesting(r, k)
      /\ r.PrioCur = Highest(k.Rdy)
      /\ r.Cur = IF r.PrioCur = k.PrioCur THEN k.Cur ELSE k.PrioTbl[r.PrioCur]
  BY <1>1, <1>2, SchedFields
<1> HIDE DEF r
<1>4. r.PrioCur = Prio[r.Cur]
  BY <1>1, <1>3 DEF Sound, Listed
<1>5. Sound(r)
  BY <1>3, <1>4, SoundSame
<1>6. MayPend(r)
  BY <1>3 DEF MayPend, SameNesting
<1>7. Runner(r)
  BY <1>1, <1>3 DEF Runner, SameTables
<1> QED
  BY <1>3, <1>5, <1>6, <1>7 DEF Steady, r

\* An interrupt begins, and ends.
InISR(k) == k.IntNesting = 1 /\ k.LockNesting = 0
\* It finds the tables as they are.
LEMMA EnterSound ==
    ASSUME NEW k, Steady(k)
    PROVE  LET r == OSIntEnter(k) IN Sound(r) /\ InISR(r) /\ SameTables(r, k)
<1> DEFINE r == OSIntEnter(k)
<1>1. k \in KernelState(Vals) /\ k.IntNesting = 0 /\ k.LockNesting = 0 /\ k.PrioCur = Prio[k.Cur]
  BY DEF Steady, Sound, MayPend, Listed
<1>2. /\ r \in KernelState(Vals) /\ SameTables(r, k) /\ r.IntNesting = k.IntNesting + 1
      /\ r.LockNesting = k.LockNesting /\ r.Cur = k.Cur /\ r.PrioCur = k.PrioCur
  BY <1>1, IntEnterFields
<1> HIDE DEF r
<1>3. Sound(r)
  BY <1>1, <1>2, SoundSame DEF Steady
<1> QED
  BY <1>1, <1>2, <1>3 DEF InISR, r

\* And leaves the processor to the most urgent task.
LEMMA ExitSteady ==
    ASSUME NEW k, Sound(k), InISR(k)
    PROVE  LET r == OSIntExit(k) IN Steady(r) /\ SameTables(r, k)
<1> DEFINE k1 == [k EXCEPT !.IntNesting = @ - 1]
<1>1. /\ k1 \in KernelState(Vals) /\ SameTables(k1, k) /\ MayPend(k1)
      /\ k1.Cur = k.Cur /\ k1.PrioCur = k.PrioCur
  BY DEF Sound, InISR, KernelState, SameTables, MayPend
<1>2. OSIntExit(k) = OS_Sched(k1)
  BY DEF OSIntExit
<1> HIDE DEF k1
<1>3. Sound(k1)
  BY <1>1, SoundSame DEF Sound, Listed
<1>4. Steady(OS_Sched(k1)) /\ SameTables(OS_Sched(k1), k1)
  BY <1>1, <1>3, SchedSteady
<1> QED
  BY <1>1, <1>2, <1>4 DEF SameTables

\* The running task is ready.
LEMMA RunningTask ==
    ASSUME NEW k, Steady(k)
    PROVE  /\ k.Cur \in Task /\ k.tcb[k.Cur] \in TCB(Vals) /\ k.tcb[k.Cur].Prio = Prio[k.Cur]
           /\ k.tcb[k.Cur].Stat = {} /\ k.tcb[k.Cur].Dly = 0
  BY DEF Steady, Sound, Listed, Runner, KernelState

\* A task is ready or not as its control block says.
ReadyRight(k, r, t) ==
    r.Rdy = IF r.tcb[t].Stat = {} /\ r.tcb[t].Dly = 0
            THEN k.Rdy \cup {Prio[t]} ELSE k.Rdy \ {Prio[t]}

\* A step that changes one task alone, and its event.
Changes(k, r, t, e) ==
    /\ r \in KernelState(Vals) /\ SameRunning(r, k) /\ r.PrioTbl = k.PrioTbl
    /\ \A u \in Task \ {t} : r.tcb[u] = k.tcb[u]
    /\ \A f \in Event \ {e} : r.ev[f] = k.ev[f]
    /\ r.tcb[t].Prio = k.tcb[t].Prio /\ ReadyRight(k, r, t)

\* It keeps the ready list right.
LEMMA ChangesListed ==
    ASSUME NEW k, NEW r, NEW t \in Task \ {Idle}, NEW e, Sound(k), Changes(k, r, t, e)
    PROVE  Listed(r)
<1>1. ASSUME NEW u \in Task
      PROVE  /\ r.tcb[u].Prio = Prio[u] /\ r.PrioTbl[Prio[u]] = u
             /\ Prio[u] \in r.Rdy <=> (r.tcb[u].Stat = {} /\ r.tcb[u].Dly = 0)
  <2>1. CASE u = t
    BY <2>1 DEF Sound, Listed, Changes, ReadyRight
  <2>2. CASE u # t
    <3>1. Prio[u] # Prio[t]
      BY <2>2, Priorities
    <3>2. Prio[u] \in r.Rdy <=> Prio[u] \in k.Rdy
      BY <3>1 DEF Changes, ReadyRight
    <3>3. r.tcb[u] = k.tcb[u] /\ r.PrioTbl = k.PrioTbl
      BY <2>2 DEF Changes
    <3> QED
      BY <3>2, <3>3 DEF Sound, Listed
  <2> QED
    BY <2>1, <2>2
<1>2. r.Rdy \subseteq {Prio[u] : u \in Task}
  BY DEF Sound, Listed, Changes, ReadyRight
<1>3. Prio[Idle] \in r.Rdy
  <2>1. Prio[Idle] # Prio[t]
    BY Priorities
  <2> QED
    BY <2>1 DEF Sound, Listed, Changes, ReadyRight
<1>4. r.PrioCur = Prio[r.Cur]
  BY DEF Sound, Listed, Changes, SameRunning
<1> QED
  BY <1>1, <1>2, <1>3, <1>4 DEF Listed

\* A step that changes vTaskSR04 and the mailbox.
LEMMA RangerChanges ==
    ASSUME NEW k, NEW r, Sound(k), Changes(k, r, SR04Task, SR04CommMbox), PendS(r),
           "SUSPEND" \notin r.tcb[SR04Task].Stat
    PROVE  Sound(r)
<1>1. Listed(r)
  BY ChangesListed, Priorities
<1>2. PendA(r)
  BY Priorities DEF Sound, PendA, Changes
<1>3. r.tcb[Idle].EventPtr = None
  BY Priorities DEF Sound, Changes
<1> QED
  BY <1>1, <1>2, <1>3 DEF Sound, Changes

\* A step that changes vTask2305 and the semaphore.
LEMMA ThermometerChanges ==
    ASSUME NEW k, NEW r, Sound(k), Changes(k, r, AM2305Task, AM2305Sem), PendA(r)
    PROVE  Sound(r)
<1>1. Listed(r)
  BY ChangesListed, Priorities
<1>2. PendS(r)
  BY Priorities DEF Sound, PendS, Changes
<1>3. r.tcb[Idle].EventPtr = None /\ "SUSPEND" \notin r.tcb[SR04Task].Stat
  BY Priorities DEF Sound, Changes
<1> QED
  BY <1>1, <1>2, <1>3 DEF Sound, Changes

-----------------------------------------------------------------------------
(* The calls of the two tasks.                                                *)

\* What a call leaves behind: a steady kernel, task t as b, the events ev.
Leaves(r, k, t, b, ev) == Steady(r) /\ r.tcb = [k.tcb EXCEPT ![t] = b] /\ r.ev = ev

Suspended(b) == [b EXCEPT !.Stat = @ \cup {"SUSPEND"}]
Resumed(b) == [b EXCEPT !.Stat = @ \ {"SUSPEND"}]

\* The entry of vTask2305 in the priority table.
LEMMA ThermometerFound ==
    ASSUME NEW k, Sound(k)
    PROVE  /\ k.PrioTbl[TASK_AM2305_PRIO] = AM2305Task /\ AM2305Task \notin {None, Reserved}
           /\ k.tcb[AM2305Task] \in TCB(Vals)
  BY Priorities, CoreAssumption DEF Sound, Listed, KernelState

\* vTaskSR04 suspends vTask2305, which does not run.
LEMMA SuspendSteady ==
    ASSUME NEW k, Steady(k), k.Cur = SR04Task
    PROVE  Leaves(OSTaskSuspend(k, TASK_AM2305_PRIO), k, AM2305Task,
                  Suspended(k.tcb[AM2305Task]), k.ev)
<1> DEFINE t == AM2305Task
           b == Suspended(k.tcb[t])
           r == NotReady(WithTcb(k, t, b), t)
<1>1. k \in KernelState(Vals) /\ Sound(k) /\ t \in Task /\ k.tcb[t] \in TCB(Vals)
  BY Priorities, ThermometerFound DEF Steady, Sound
<1>2. b \in TCB(Vals) /\ b.Prio = k.tcb[t].Prio /\ "SUSPEND" \in b.Stat
  BY <1>1 DEF Suspended, TCB, Stats
<1>3. OSTaskSuspend(k, TASK_AM2305_PRIO) = r
  <2>1. k.PrioTbl[TASK_AM2305_PRIO] = t /\ t \notin {None, Reserved}
    BY <1>1, ThermometerFound
  <2>2. TASK_AM2305_PRIO # k.tcb[k.Cur].Prio
    <3>1. k.tcb[k.Cur].Prio = TASK_SR04_PRIO
      BY <1>1, Priorities DEF Sound, Listed
    <3> QED
      BY <3>1, Priorities
  <2>3. WithTcb(k, t, b) = [k EXCEPT !.tcb[t].Stat = @ \cup {"SUSPEND"}]
    BY <1>1 DEF WithTcb, Suspended, KernelState
  <2> HIDE DEF b
  <2> QED
    BY <2>1, <2>2, <2>3 DEF OSTaskSuspend
<1> HIDE DEF b
<1>4. /\ r \in KernelState(Vals)
      /\ r.tcb = [k.tcb EXCEPT ![t] = b] /\ r.Rdy = k.Rdy \ {k.tcb[t].Prio}
      /\ r.PrioTbl = k.PrioTbl /\ r.ev = k.ev /\ SameRunning(r, k)
  BY <1>1, <1>2, HoldFields
<1> HIDE DEF r
<1>5. k.tcb[t].Prio = Prio[t] /\ r.tcb[t] = b /\ \A u \in Task \ {t} : r.tcb[u] = k.tcb[u]
  BY <1>1, <1>4 DEF Sound, Listed, KernelState
<1>6. Changes(k, r, t, AM2305Sem)
  BY <1>2, <1>4, <1>5 DEF Changes, ReadyRight
<1>7. PendA(r)
  <2>1. b.Stat = k.tcb[t].Stat \cup {"SUSPEND"} /\ b.EventPtr = k.tcb[t].EventPtr
        /\ b.StatPend = k.tcb[t].StatPend
    BY <1>1 DEF b, Suspended, TCB
  <2>2. b.Dly = k.tcb[t].Dly
    BY <1>1 DEF b, Suspended, TCB
  <2> QED
    BY <1>1, <1>4, <1>5, <2>1, <2>2 DEF Sound, PendA, PendOf
<1>8. Sound(r)
  BY <1>1, <1>6, <1>7, ThermometerChanges
<1>9. Prio[t] \notin r.Rdy /\ k.PrioCur \in r.Rdy /\ r.PrioCur = k.PrioCur
  <2>1. k.PrioCur = Prio[SR04Task] /\ Prio[SR04Task] # Prio[t]
    BY <1>1, Priorities DEF Sound, Listed
  <2> QED
    BY <1>4, <1>5, <2>1 DEF Steady, Runner, SameRunning
<1>10. Runner(r) /\ MayPend(r)
  BY <1>4, <1>9 DEF Steady, Runner, MayPend, SameRunning, SameNesting
<1> QED
  BY <1>3, <1>4, <1>8, <1>10 DEF Leaves, Steady, b

\* It resumes vTask2305, which may be ready at once, or be waiting still.
LEMMA ResumeSteady ==
    ASSUME NEW k, Steady(k), "SUSPEND" \in k.tcb[AM2305Task].Stat
    PROVE  Leaves(OSTaskResume(k, TASK_AM2305_PRIO), k, AM2305Task,
                  Resumed(k.tcb[AM2305Task]), k.ev)
<1> DEFINE t == AM2305Task
           b == Resumed(k.tcb[t])
           k1 == WithTcb(k, t, b)
           r == Ready(k1, t)
<1>1. k \in KernelState(Vals) /\ Sound(k) /\ t \in Task /\ k.tcb[t] \in TCB(Vals)
  BY Priorities, ThermometerFound DEF Steady, Sound
<1>2. /\ b \in TCB(Vals) /\ b.Prio = k.tcb[t].Prio /\ b.Stat = k.tcb[t].Stat \ {"SUSPEND"}
      /\ b.Dly = k.tcb[t].Dly /\ b.EventPtr = k.tcb[t].EventPtr /\ b.StatPend = k.tcb[t].StatPend
  BY <1>1 DEF Resumed, TCB, Stats
<1>3. /\ b.Stat = {} /\ b.Dly = 0 => OSTaskResume(k, TASK_AM2305_PRIO) = OS_Sched(r)
      /\ ~(b.Stat = {} /\ b.Dly = 0) => OSTaskResume(k, TASK_AM2305_PRIO) = k1
  <2>1. k.PrioTbl[TASK_AM2305_PRIO] = t /\ t \notin {None, Reserved}
    BY <1>1, ThermometerFound
  <2>2. k1 = [k EXCEPT !.tcb[t].Stat = @ \ {"SUSPEND"}]
    BY <1>1 DEF WithTcb, Resumed, KernelState
  <2>3. k1.tcb[t] = b
    BY <1>1 DEF WithTcb, KernelState
  <2> HIDE DEF k1, b
  <2> QED
    BY <2>1, <2>2, <2>3 DEF OSTaskResume
<1> HIDE DEF b
<1>4. /\ r \in KernelState(Vals)
      /\ r.tcb = [k.tcb EXCEPT ![t] = b] /\ r.Rdy = k.Rdy \cup {k.tcb[t].Prio}
      /\ r.PrioTbl = k.PrioTbl /\ r.ev = k.ev /\ SameRunning(r, k)
  BY <1>1, <1>2, FreeFields
<1>5. /\ k1 \in KernelState(Vals)
      /\ k1.tcb = [k.tcb EXCEPT ![t] = b] /\ k1.Rdy = k.Rdy
      /\ k1.PrioTbl = k.PrioTbl /\ k1.ev = k.ev /\ SameRunning(k1, k)
  BY <1>1, <1>2, SetTcb
<1> HIDE DEF r, k1
<1>6. /\ k.tcb[t].Prio = Prio[t] /\ r.tcb[t] = b /\ \A u \in Task \ {t} : r.tcb[u] = k.tcb[u]
      /\ k1.tcb[t] = b /\ \A u \in Task \ {t} : k1.tcb[u] = k.tcb[u]
      /\ Prio[t] \notin k.Rdy
  BY <1>1, <1>4, <1>5 DEF Sound, Listed, KernelState
<1>7. CASE b.Stat = {} /\ b.Dly = 0
  <2>1. Changes(k, r, t, AM2305Sem)
    BY <1>2, <1>4, <1>6, <1>7 DEF Changes, ReadyRight
  <2>2. PendA(r)
    BY <1>1, <1>2, <1>4, <1>6 DEF Sound, PendA, PendOf
  <2>3. Sound(r)
    BY <1>1, <2>1, <2>2, ThermometerChanges
  <2>4. MayPend(r)
    BY <1>4 DEF Steady, MayPend, SameRunning, SameNesting
  <2>5. Steady(OS_Sched(r)) /\ SameTables(OS_Sched(r), r)
    BY <2>3, <2>4, SchedSteady
  <2> QED
    BY <1>3, <1>4, <1>7, <2>5 DEF Leaves, SameTables, b
<1>8. CASE ~(b.Stat = {} /\ b.Dly = 0)
  <2>1. Changes(k, k1, t, AM2305Sem)
    BY <1>2, <1>5, <1>6, <1>8 DEF Changes, ReadyRight
  <2>2. PendA(k1)
    BY <1>1, <1>2, <1>5, <1>6 DEF Sound, PendA, PendOf
  <2>3. Sound(k1)
    BY <1>1, <2>1, <2>2, ThermometerChanges
  <2>4. MayPend(k1) /\ Runner(k1)
    BY <1>5 DEF Steady, MayPend, Runner, SameRunning, SameNesting
  <2> QED
    BY <1>3, <1>5, <1>8, <2>3, <2>4 DEF Leaves, Steady, b
<1> QED
  BY <1>7, <1>8

\* An event whose Ptr, or Cnt, alone changes.
WithPtr(c, p) == [c EXCEPT !.Ptr = p]
WithCnt(c, n) == [c EXCEPT !.Cnt = n]

\* The state stays sound, and steady.
LEMMA EventSound ==
    ASSUME NEW k, Sound(k), NEW e \in Event, NEW c \in ECB(Vals), c.Tbl = k.ev[e].Tbl
    PROVE  LET r == WithEvent(k, e, c)
           IN  /\ Sound(r) /\ r.tcb = k.tcb /\ r.ev = [k.ev EXCEPT ![e] = c]
               /\ SameRunning(r, k) /\ (Runner(k) => Runner(r))
<1> DEFINE r == WithEvent(k, e, c)
<1>1. /\ r \in KernelState(Vals) /\ r.ev = [k.ev EXCEPT ![e] = c]
      /\ r.tcb = k.tcb /\ r.PrioTbl = k.PrioTbl /\ r.Rdy = k.Rdy /\ SameRunning(r, k)
  BY SetEvent DEF Sound
<1> HIDE DEF r
<1>2. \A f \in Event : r.ev[f].Tbl = k.ev[f].Tbl
  BY <1>1 DEF Sound, KernelState
<1>3. Sound(r)
  BY <1>1, <1>2, Priorities DEF Sound, Listed, PendS, PendA, SameRunning
<1> QED
  BY <1>1, <1>3 DEF Runner, SameRunning, r

\* The running task takes the message that is there.
LEMMA TakeMboxSteady ==
    ASSUME NEW k, Steady(k), k.ev[SR04CommMbox].Ptr # None, NEW n
    PROVE  Leaves(OSMboxPend(k, SR04CommMbox, n), k, SR04Task, k.tcb[SR04Task],
                  [k.ev EXCEPT ![SR04CommMbox] = WithPtr(k.ev[SR04CommMbox], None)])
<1> DEFINE e == SR04CommMbox
           c == WithPtr(k.ev[e], None)
           r == WithEvent(k, e, c)
<1>1. k \in KernelState(Vals) /\ Sound(k) /\ e \in Event /\ k.ev[e] \in ECB(Vals)
  BY Priorities DEF Steady, Sound, KernelState
<1>2. c \in ECB(Vals) /\ c.Tbl = k.ev[e].Tbl
  BY <1>1 DEF WithPtr, ECB, Vals
<1>3. OSMboxPend(k, e, n) = r
  BY <1>1 DEF OSMboxPend, TakeMbox, WithEvent, WithPtr, KernelState
<1> HIDE DEF c
<1>4. /\ Sound(r) /\ r.tcb = k.tcb /\ r.ev = [k.ev EXCEPT ![e] = c]
      /\ SameRunning(r, k) /\ (Runner(k) => Runner(r))
  BY <1>1, <1>2, EventSound
<1>5. k.tcb = [k.tcb EXCEPT ![SR04Task] = k.tcb[SR04Task]]
  BY <1>1 DEF KernelState
<1> QED
  BY <1>3, <1>4, <1>5 DEF Leaves, Steady, MayPend, SameRunning, SameNesting, c

\* It takes the count that is there.
LEMMA TakeSemSteady ==
    ASSUME NEW k, Steady(k), k.ev[AM2305Sem].Cnt > 0, NEW n
    PROVE  Leaves(OSSemPend(k, AM2305Sem, n), k, AM2305Task, k.tcb[AM2305Task],
                  [k.ev EXCEPT ![AM2305Sem] = WithCnt(k.ev[AM2305Sem], k.ev[AM2305Sem].Cnt - 1)])
<1> DEFINE e == AM2305Sem
           c == WithCnt(k.ev[e], k.ev[e].Cnt - 1)
           r == WithEvent(k, e, c)
<1>1. k \in KernelState(Vals) /\ Sound(k) /\ e \in Event /\ k.ev[e] \in ECB(Vals)
  BY Priorities DEF Steady, Sound, KernelState
<1>2. c \in ECB(Vals) /\ c.Tbl = k.ev[e].Tbl
  BY <1>1 DEF WithCnt, ECB
<1>3. OSSemPend(k, e, n) = r
  BY <1>1 DEF OSSemPend, WithEvent, WithCnt, KernelState
<1> HIDE DEF c
<1>4. /\ Sound(r) /\ r.tcb = k.tcb /\ r.ev = [k.ev EXCEPT ![e] = c]
      /\ SameRunning(r, k) /\ (Runner(k) => Runner(r))
  BY <1>1, <1>2, EventSound
<1>5. k.tcb = [k.tcb EXCEPT ![AM2305Task] = k.tcb[AM2305Task]]
  BY <1>1 DEF KernelState
<1> QED
  BY <1>3, <1>4, <1>5 DEF Leaves, Steady, MayPend, SameRunning, SameNesting, c

\* A wait list with a task more, or less.
Joined(c, p) == [c EXCEPT !.Tbl = c.Tbl \cup {p}]
Left(c, p) == [c EXCEPT !.Tbl = c.Tbl \ {p}]

\* The running task is put to sleep.
LEMMA AsleepChanges ==
    ASSUME NEW k, Steady(k), k.Cur # Idle, NEW e \in Event, NEW msk \in PendAny, NEW n \in Nat
    PROVE  LET r == Asleep(k, e, msk, n)
               t == k.Cur
           IN  /\ Changes(k, r, t, e) /\ t \in Task
               /\ r.tcb = [k.tcb EXCEPT ![t] = Waiter(k.tcb[t], e, msk, n)]
               /\ r.ev = [k.ev EXCEPT ![e] = Joined(k.ev[e], Prio[t])]
<1> DEFINE t == k.Cur
           b == Waiter(k.tcb[t], e, msk, n)
           r == Asleep(k, e, msk, n)
<1>1. k \in KernelState(Vals) /\ t \in Task /\ k.tcb[t] \in TCB(Vals) /\ k.tcb[t].Prio = Prio[t]
  BY RunningTask DEF Steady, Sound
<1>2. msk \in Stats
  BY DEF Stats
<1>3. /\ r \in KernelState(Vals) /\ r.tcb = [k.tcb EXCEPT ![t] = b]
      /\ r.Rdy = k.Rdy \ {k.tcb[t].Prio}
      /\ r.ev = [k.ev EXCEPT ![e] = [k.ev[e] EXCEPT !.Tbl = k.ev[e].Tbl \cup {k.tcb[t].Prio}]]
      /\ r.PrioTbl = k.PrioTbl /\ SameRunning(r, k)
  BY <1>1, <1>2, AsleepFields
<1>4. b.Stat # {} /\ b.Prio = k.tcb[t].Prio
  BY <1>1, <1>2 DEF Waiter, TCB
<1> HIDE DEF r, b
<1>5. /\ r.tcb[t] = b /\ \A u \in Task \ {t} : r.tcb[u] = k.tcb[u]
      /\ \A f \in Event \ {e} : r.ev[f] = k.ev[f]
  BY <1>1, <1>3 DEF KernelState
<1>6. Changes(k, r, t, e)
  BY <1>1, <1>3, <1>4, <1>5 DEF Changes, ReadyRight
<1> QED
  BY <1>1, <1>3, <1>6 DEF Joined, r, b

\* vTaskSR04 sleeps in its pend.
LEMMA MboxSleepSteady ==
    ASSUME NEW k, Steady(k), k.Cur = SR04Task, k.ev[SR04CommMbox].Ptr = None, NEW n \in Nat
    PROVE  Leaves(OSMboxPend(k, SR04CommMbox, n), k, SR04Task,
                  Waiter(k.tcb[SR04Task], SR04CommMbox, "MBOX", n),
                  [k.ev EXCEPT ![SR04CommMbox] = Joined(k.ev[SR04CommMbox], TASK_SR04_PRIO)])
<1> DEFINE t == SR04Task
           e == SR04CommMbox
           b == Waiter(k.tcb[t], e, "MBOX", n)
           r == Asleep(k, e, "MBOX", n)
<1>1. /\ k \in KernelState(Vals) /\ Sound(k) /\ MayPend(k) /\ e \in Event /\ t # Idle /\ t \in Task
      /\ k.tcb[t] \in TCB(Vals) /\ k.ev[e] \in ECB(Vals) /\ Prio[t] = TASK_SR04_PRIO
  BY Priorities DEF Steady, Sound, KernelState
<1>2. OSMboxPend(k, e, n) = OS_Sched(r)
  BY DEF OSMboxPend, Sleep, Asleep
<1>3. /\ Changes(k, r, t, e) /\ r.tcb = [k.tcb EXCEPT ![t] = b]
      /\ r.ev = [k.ev EXCEPT ![e] = Joined(k.ev[e], Prio[t])]
  <2>1. "MBOX" \in PendAny
    BY DEF PendAny
  <2> QED
    BY <1>1, <2>1, AsleepChanges
<1> HIDE DEF r
<1>4. /\ b.EventPtr = e /\ b.Stat = {"MBOX"} /\ r.tcb[t] = b
      /\ r.ev[e].Tbl = {Prio[t]}
  <2>1. k.tcb[t].Stat = {}
    BY RunningTask
  <2>2. b.EventPtr = e /\ b.Stat = k.tcb[t].Stat \cup {"MBOX"}
    BY <1>1 DEF Waiter, TCB
  <2>3. r.ev[e] = Joined(k.ev[e], Prio[t]) /\ r.tcb[t] = b
    BY <1>1, <1>3 DEF KernelState
  <2>4. k.ev[e].Tbl \subseteq {Prio[t]}
    BY <1>1 DEF Sound, PendS, PendOf
  <2>5. r.ev[e].Tbl = k.ev[e].Tbl \cup {Prio[t]}
    BY <1>1, <2>3 DEF Joined, ECB
  <2> QED
    BY <2>1, <2>2, <2>3, <2>4, <2>5
<1> HIDE DEF b
<1>5. PendS(r) /\ "SUSPEND" \notin r.tcb[t].Stat
  BY <1>1, <1>4 DEF PendS, PendOf
<1>6. Sound(r) /\ MayPend(r)
  BY <1>1, <1>3, <1>5, RangerChanges DEF Changes, MayPend, SameRunning, SameNesting
<1>7. Steady(OS_Sched(r)) /\ SameTables(OS_Sched(r), r)
  BY <1>6, SchedSteady
<1> QED
  BY <1>1, <1>2, <1>3, <1>7 DEF Leaves, SameTables, b

\* vTask2305 sleeps in its pend.
LEMMA SemSleepSteady ==
    ASSUME NEW k, Steady(k), k.Cur = AM2305Task, ~(k.ev[AM2305Sem].Cnt > 0), NEW n \in Nat
    PROVE  Leaves(OSSemPend(k, AM2305Sem, n), k, AM2305Task,
                  Waiter(k.tcb[AM2305Task], AM2305Sem, "SEM", n),
                  [k.ev EXCEPT ![AM2305Sem] = Joined(k.ev[AM2305Sem], TASK_AM2305_PRIO)])
<1> DEFINE t == AM2305Task
           e == AM2305Sem
           b == Waiter(k.tcb[t], e, "SEM", n)
           r == Asleep(k, e, "SEM", n)
<1>1. /\ k \in KernelState(Vals) /\ Sound(k) /\ MayPend(k) /\ e \in Event /\ t # Idle /\ t \in Task
      /\ k.tcb[t] \in TCB(Vals) /\ k.ev[e] \in ECB(Vals) /\ Prio[t] = TASK_AM2305_PRIO
  BY Priorities DEF Steady, Sound, KernelState
<1>2. OSSemPend(k, e, n) = OS_Sched(r)
  BY DEF OSSemPend, Sleep, Asleep
<1>3. /\ Changes(k, r, t, e) /\ r.tcb = [k.tcb EXCEPT ![t] = b]
      /\ r.ev = [k.ev EXCEPT ![e] = Joined(k.ev[e], Prio[t])]
  <2>1. "SEM" \in PendAny
    BY DEF PendAny
  <2> QED
    BY <1>1, <2>1, AsleepChanges
<1> HIDE DEF r
<1>4. /\ b.EventPtr = e /\ b.Stat = {"SEM"} /\ r.tcb[t] = b
      /\ r.ev[e].Tbl = {Prio[t]}
  <2>1. k.tcb[t].Stat = {}
    BY RunningTask
  <2>2. b.EventPtr = e /\ b.Stat = k.tcb[t].Stat \cup {"SEM"}
    BY <1>1 DEF Waiter, TCB
  <2>3. r.ev[e] = Joined(k.ev[e], Prio[t]) /\ r.tcb[t] = b
    BY <1>1, <1>3 DEF KernelState
  <2>4. k.ev[e].Tbl \subseteq {Prio[t]}
    BY <1>1 DEF Sound, PendA, PendOf
  <2>5. r.ev[e].Tbl = k.ev[e].Tbl \cup {Prio[t]}
    BY <1>1, <2>3 DEF Joined, ECB
  <2> QED
    BY <2>1, <2>2, <2>3, <2>4, <2>5
<1> HIDE DEF b
<1>5. PendA(r)
  BY <1>1, <1>4 DEF PendA, PendOf
<1>6. Sound(r) /\ MayPend(r)
  BY <1>1, <1>3, <1>5, ThermometerChanges DEF Changes, MayPend, SameRunning, SameNesting
<1>7. Steady(OS_Sched(r)) /\ SameTables(OS_Sched(r), r)
  BY <1>6, SchedSteady
<1> QED
  BY <1>1, <1>2, <1>3, <1>7 DEF Leaves, SameTables, b

\* A task delays itself.
Delayed(b, n) == [b EXCEPT !.Dly = n]
\* Either task, once it runs.
LEMMA DelaySteady ==
    ASSUME NEW k, Steady(k), k.Cur \in {SR04Task, AM2305Task}, ~InPend(k, k.Cur),
           NEW n \in Nat \ {0}
    PROVE  Leaves(OSTimeDly(k, n), k, k.Cur, Delayed(k.tcb[k.Cur], n), k.ev)
<1> DEFINE t == k.Cur
           b == Delayed(k.tcb[t], n)
           r == NotReady(WithTcb(k, t, b), t)
<1>1. /\ k \in KernelState(Vals) /\ Sound(k) /\ MayPend(k) /\ t \in Task /\ t # Idle
      /\ k.tcb[t] \in TCB(Vals) /\ k.tcb[t].Prio = Prio[t]
  BY RunningTask, Priorities DEF Steady, Sound
<1>2. /\ b \in TCB(Vals) /\ b.Prio = k.tcb[t].Prio /\ b.Dly # 0 /\ b.Stat = k.tcb[t].Stat
      /\ b.EventPtr = k.tcb[t].EventPtr /\ b.StatPend = k.tcb[t].StatPend
  BY <1>1 DEF Delayed, TCB
<1>3. OSTimeDly(k, n) = OS_Sched(r)
  <2>1. WithTcb(k, t, b) = [k EXCEPT !.tcb[t].Dly = n]
    BY <1>1 DEF WithTcb, Delayed, KernelState
  <2> HIDE DEF b
  <2> QED
    BY <1>1, <2>1 DEF OSTimeDly
<1> HIDE DEF b
<1>4. /\ r \in KernelState(Vals)
      /\ r.tcb = [k.tcb EXCEPT ![t] = b] /\ r.Rdy = k.Rdy \ {k.tcb[t].Prio}
      /\ r.PrioTbl = k.PrioTbl /\ r.ev = k.ev /\ SameRunning(r, k)
  BY <1>1, <1>2, HoldFields
<1> HIDE DEF r
<1>5. r.tcb[t] = b /\ \A u \in Task \ {t} : r.tcb[u] = k.tcb[u]
  BY <1>1, <1>4 DEF KernelState
<1>6. \A e : Changes(k, r, t, e)
  BY <1>1, <1>2, <1>4, <1>5 DEF Changes, ReadyRight
<1>7. PendS(r) /\ PendA(r) /\ "SUSPEND" \notin r.tcb[SR04Task].Stat
  <2>1. b.EventPtr = None /\ SR04CommMbox # None /\ AM2305Sem # None
    BY <1>2, CoreAssumption, Priorities DEF InPend
  <2>2. PendS(k) /\ PendA(k) /\ "SUSPEND" \notin k.tcb[SR04Task].Stat
    BY <1>1 DEF Sound
  <2>3. CASE t = SR04Task
    <3>1. r.tcb[SR04Task] = b /\ r.tcb[AM2305Task] = k.tcb[AM2305Task]
      BY <1>5, <2>3, Priorities
    <3>2. PendS(r)
      BY <1>2, <1>4, <2>1, <2>2, <2>3, <3>1 DEF PendS, PendOf
    <3> QED
      BY <1>2, <1>4, <2>2, <2>3, <3>1, <3>2 DEF PendA
  <2>4. CASE t = AM2305Task
    <3>1. r.tcb[AM2305Task] = b /\ r.tcb[SR04Task] = k.tcb[SR04Task]
      BY <1>5, <2>4, Priorities
    <3>2. PendA(r)
      BY <1>2, <1>4, <2>1, <2>2, <2>4, <3>1 DEF PendA, PendOf
    <3> QED
      BY <1>4, <2>2, <3>1, <3>2 DEF PendS
  <2> QED
    BY <1>1, <2>3, <2>4
<1>8. Sound(r)
  <2>1. CASE t = SR04Task
    BY <1>1, <1>6, <1>7, <2>1, RangerChanges
  <2>2. CASE t = AM2305Task
    BY <1>1, <1>6, <1>7, <2>2, ThermometerChanges
  <2> QED
    BY <2>1, <2>2
<1>9. MayPend(r)
  BY <1>1, <1>4 DEF MayPend, SameRunning, SameNesting
<1>10. Steady(OS_Sched(r)) /\ SameTables(OS_Sched(r), r)
  BY <1>8, <1>9, SchedSteady
<1> QED
  BY <1>3, <1>4, <1>10 DEF Leaves, SameTables, b

\* What the end of a pend leaves: of the event, a wait list with nobody in it.
TailLeaves(k, r, t, e) ==
    \E c \in ECB(Vals) :
        /\ Leaves(r, k, t, Returned(k.tcb[t]), [k.ev EXCEPT ![e] = c])
        /\ c.Tbl = {} /\ c.Ptr = k.ev[e].Ptr /\ c.Cnt = k.ev[e].Cnt

\* The end of a pend, of either task: it leaves the wait list if it has timed out.
LEMMA TailSteady ==
    ASSUME NEW k, Steady(k), NEW t \in {SR04Task, AM2305Task}, k.Cur = t, InPend(k, t),
           NEW e \in Event, e = IF t = SR04Task THEN SR04CommMbox ELSE AM2305Sem
    PROVE  TailLeaves(k, PendTail(k), t, e)
<1> DEFINE b == Returned(k.tcb[t])
           c == IF k.tcb[t].StatPend = "TO" THEN Left(k.ev[e], Prio[t]) ELSE k.ev[e]
           r == PendTail(k)
<1>1. /\ k \in KernelState(Vals) /\ Sound(k) /\ MayPend(k) /\ t \in Task /\ t # Idle
      /\ k.tcb[t] \in TCB(Vals) /\ k.tcb[t].Prio = Prio[t] /\ k.ev[e] \in ECB(Vals)
      /\ k.tcb[t].Stat = {} /\ k.tcb[t].Dly = 0
  BY RunningTask, Priorities DEF Steady, Sound, KernelState
<1>2. k.tcb[t].EventPtr = e
  BY <1>1, Priorities DEF Sound, PendS, PendA, PendOf, InPend
<1>3. /\ r \in KernelState(Vals) /\ r.tcb = [k.tcb EXCEPT ![t] = b]
      /\ k.tcb[t].StatPend = "TO" =>
           r.ev = [k.ev EXCEPT ![e] = [k.ev[e] EXCEPT !.Tbl = k.ev[e].Tbl \ {k.tcb[t].Prio}]]
      /\ k.tcb[t].StatPend # "TO" => r.ev = k.ev
      /\ r.Rdy = k.Rdy /\ r.PrioTbl = k.PrioTbl /\ SameRunning(r, k)
  <2>1. None \in Vals
    BY DEF Vals
  <2> QED
    BY <1>1, <1>2, <2>1, PendTailFields
<1> HIDE DEF r
<1>4. r.ev = [k.ev EXCEPT ![e] = c]
  <2>1. k.ev = [k.ev EXCEPT ![e] = k.ev[e]]
    BY <1>1 DEF KernelState
  <2> QED
    BY <1>1, <1>3, <2>1 DEF Left
<1>5. c \in ECB(Vals) /\ c.Tbl = {} /\ c.Ptr = k.ev[e].Ptr /\ c.Cnt = k.ev[e].Cnt
  <2>1. k.ev[e].Tbl \subseteq {Prio[t]} /\ (k.tcb[t].StatPend # "TO" => k.ev[e].Tbl = {})
    BY <1>1, <1>2, Priorities DEF Sound, PendS, PendA, PendOf
  <2> QED
    BY <1>1, <2>1 DEF Left, ECB
<1>6. /\ b.Prio = k.tcb[t].Prio /\ b.Stat = {} /\ b.Dly = 0 /\ b.EventPtr = None
  BY <1>1 DEF Returned, TCB
<1> HIDE DEF b, c
<1>7. /\ r.tcb[t] = b /\ \A u \in Task \ {t} : r.tcb[u] = k.tcb[u]
      /\ r.ev[e] = c /\ \A f \in Event \ {e} : r.ev[f] = k.ev[f]
  BY <1>1, <1>3, <1>4 DEF KernelState
<1>8. Changes(k, r, t, e)
  <2>1. Prio[t] \in k.Rdy
    BY <1>1 DEF Sound, Listed
  <2> QED
    BY <1>1, <1>3, <1>6, <1>7, <2>1 DEF Changes, ReadyRight
<1>9. PendOf(b, c.Tbl, Prio[t], e, "MBOX") /\ PendOf(b, c.Tbl, Prio[t], e, "SEM")
  <2>1. e # None
    BY CoreAssumption
  <2> QED
    BY <1>5, <1>6, <2>1 DEF PendOf
<1>10. Sound(r)
  <2>1. CASE t = SR04Task
    <3>1. PendS(r) /\ "SUSPEND" \notin r.tcb[SR04Task].Stat
      BY <1>6, <1>7, <1>9, <2>1, Priorities DEF PendS
    <3> QED
      BY <1>1, <1>8, <2>1, <3>1, RangerChanges
  <2>2. CASE t = AM2305Task
    <3>1. PendA(r)
      BY <1>7, <1>9, <2>2, Priorities DEF PendA
    <3> QED
      BY <1>1, <1>8, <2>2, <3>1, Priorities, ThermometerChanges
  <2> QED
    BY <2>1, <2>2
<1>11. MayPend(r) /\ Runner(r)
  BY <1>1, <1>3 DEF Steady, Runner, MayPend, SameRunning, SameNesting
<1>12. Leaves(r, k, t, b, [k.ev EXCEPT ![e] = c])
  BY <1>3, <1>4, <1>10, <1>11 DEF Leaves, Steady
<1> QED
  BY <1>5, <1>12 DEF TailLeaves, b, r

-----------------------------------------------------------------------------
(* What the handlers post.                                                    *)

\* The tables after an interrupt handler that did r to them.
Handled(r, k, t, b, ev) ==
    Sound(r) /\ InISR(r) /\ r.tcb = [k.tcb EXCEPT ![t] = b] /\ r.ev = ev

\* An interrupt whose handler leaves them so.
LEMMA HandledLeaves ==
    ASSUME NEW k, NEW r, NEW t, NEW b, NEW ev, Handled(r, k, t, b, ev)
    PROVE  Leaves(OSIntExit(r), k, t, b, ev)
<1>1. Steady(OSIntExit(r)) /\ SameTables(OSIntExit(r), r)
  BY ExitSteady DEF Handled
<1> QED
  BY <1>1 DEF Handled, Leaves, SameTables

\* A handler that calls nothing of the kernel.
LEMMA NothingHandled ==
    ASSUME NEW k, Steady(k), NEW t \in Task
    PROVE  Leaves(OSIntExit(OSIntEnter(k)), k, t, k.tcb[t], k.ev)
<1>1. Sound(OSIntEnter(k)) /\ InISR(OSIntEnter(k)) /\ SameTables(OSIntEnter(k), k)
  BY EnterSound
<1>2. k.tcb = [k.tcb EXCEPT ![t] = k.tcb[t]]
  BY DEF Steady, Sound, KernelState
<1>3. Handled(OSIntEnter(k), k, t, k.tcb[t], k.ev)
  BY <1>1, <1>2 DEF Handled, SameTables
<1> QED
  BY <1>3, HandledLeaves

\* The one task in a wait list is answered.
LEMMA AnswerSound ==
    ASSUME NEW k, Sound(k), InISR(k), NEW t \in {SR04Task, AM2305Task},
           NEW e \in Event, e = IF t = SR04Task THEN SR04CommMbox ELSE AM2305Sem,
           NEW msk, msk = IF t = SR04Task THEN "MBOX" ELSE "SEM",
           k.ev[e].Tbl # {}, NEW msg \in Vals
    PROVE  Handled(OS_Sched(OS_EventTaskRdy(k, e, msg, msk, "OK")), k, t,
                   Answered(k.tcb[t], msg, msk, "OK"),
                   [k.ev EXCEPT ![e] = Left(k.ev[e], Prio[t])])
<1> DEFINE b == Answered(k.tcb[t], msg, msk, "OK")
           c == Left(k.ev[e], Prio[t])
           r == OS_EventTaskRdy(k, e, msg, msk, "OK")
<1>1. /\ k \in KernelState(Vals) /\ t \in Task /\ t # Idle
      /\ k.tcb[t] \in TCB(Vals) /\ k.tcb[t].Prio = Prio[t] /\ k.ev[e] \in ECB(Vals)
      /\ k.PrioTbl[Prio[t]] = t
  BY Priorities DEF Sound, Listed, KernelState
<1>2. k.ev[e].Tbl = {Prio[t]}
  BY Priorities DEF Sound, PendS, PendA, PendOf
<1>3. t = HighestWaiter(k, e)
  <2>1. {Prio[t]} \in SUBSET Nat /\ {Prio[t]} # {}
    BY <1>1, Priorities DEF Prios
  <2>2. Highest({Prio[t]}) = Prio[t]
    BY <2>1, HighestIs
  <2> QED
    BY <1>1, <1>2, <2>2 DEF HighestWaiter
<1>4. /\ r \in KernelState(Vals) /\ r.tcb = [k.tcb EXCEPT ![t] = b]
      /\ "SUSPEND" \in k.tcb[t].Stat \ {msk} => r.Rdy = k.Rdy
      /\ "SUSPEND" \notin k.tcb[t].Stat \ {msk} => r.Rdy = k.Rdy \cup {k.tcb[t].Prio}
      /\ r.ev = [k.ev EXCEPT ![e] = [k.ev[e] EXCEPT !.Tbl = k.ev[e].Tbl \ {k.tcb[t].Prio}]]
      /\ r.PrioTbl = k.PrioTbl /\ SameRunning(r, k)
  <2>1. "OK" \in {"OK", "TO", "ABORT"}
    OBVIOUS
  <2> QED
    BY <1>1, <1>3, <2>1, TaskRdyFields
<1>5. /\ b.Prio = k.tcb[t].Prio /\ b.EventPtr = k.tcb[t].EventPtr
      /\ b.Stat = k.tcb[t].Stat \ {msk} /\ b.StatPend = "OK" /\ b.Dly = 0
  BY <1>1 DEF Answered, TCB
<1>6. c.Tbl = {} /\ r.ev = [k.ev EXCEPT ![e] = c]
  BY <1>1, <1>2, <1>4 DEF Left, ECB
<1>7. OS_Sched(r) = r
  BY <1>4 DEF OS_Sched, InISR, SameRunning, SameNesting
<1> HIDE DEF b, c, r
<1>8. /\ r.tcb[t] = b /\ \A u \in Task \ {t} : r.tcb[u] = k.tcb[u]
      /\ r.ev[e] = c /\ \A f \in Event \ {e} : r.ev[f] = k.ev[f]
  BY <1>1, <1>4, <1>6 DEF KernelState
<1>9. b.Stat \subseteq {"SUSPEND"} /\ k.tcb[t].EventPtr \in {None, e}
  BY <1>5, Priorities DEF Sound, PendS, PendA, PendOf
<1>10. Changes(k, r, t, e)
  <2>1. "SUSPEND" \in k.tcb[t].Stat \ {msk} <=> "SUSPEND" \in b.Stat
    BY <1>5
  <2>2. ReadyRight(k, r, t)
    <3>1. CASE "SUSPEND" \in b.Stat
      <4>1. Prio[t] \notin k.Rdy
        BY <1>1, <1>5, <3>1 DEF Sound, Listed
      <4> QED
        BY <1>4, <1>8, <2>1, <3>1, <4>1 DEF ReadyRight
    <3>2. CASE "SUSPEND" \notin b.Stat
      <4>1. b.Stat = {} /\ b.Dly = 0
        BY <1>5, <1>9, <3>2
      <4> QED
        BY <1>1, <1>4, <1>8, <2>1, <3>2, <4>1 DEF ReadyRight
    <3> QED
      BY <3>1, <3>2
  <2> QED
    BY <1>4, <1>5, <1>8, <2>2 DEF Changes
<1>11. PendOf(b, c.Tbl, Prio[t], e, msk)
  BY <1>5, <1>6, <1>9 DEF PendOf
<1>12. Sound(r)
  <2>1. CASE t = SR04Task
    <3>1. PendS(r) /\ "SUSPEND" \notin r.tcb[SR04Task].Stat
      BY <1>5, <1>8, <1>11, <2>1, Priorities DEF PendS, Sound
    <3> QED
      BY <1>10, <2>1, <3>1, RangerChanges
  <2>2. CASE t = AM2305Task
    <3>1. PendA(r)
      BY <1>8, <1>11, <2>2, Priorities DEF PendA
    <3> QED
      BY <1>10, <2>2, <3>1, Priorities, ThermometerChanges
  <2> QED
    BY <2>1, <2>2
<1>13. Handled(r, k, t, b, [k.ev EXCEPT ![e] = c])
  BY <1>4, <1>6, <1>12 DEF Handled, InISR, SameRunning, SameNesting
<1> QED
  BY <1>7, <1>13 DEF r, b, c

\* The echo's end: the pointer goes to the waiting task, into the box, or nowhere.
EchoPost(k) == OSIntExit(OSMboxPost(OSIntEnter(k), SR04CommMbox, PP))
Boxed(k) == WithPtr(k.ev[SR04CommMbox], PP)
\* Each outcome.
LEMMA EchoPosted ==
    ASSUME NEW k, Steady(k)
    PROVE  /\ k.ev[SR04CommMbox].Tbl # {} =>
                Leaves(EchoPost(k), k, SR04Task, Answered(k.tcb[SR04Task], PP, "MBOX", "OK"),
                       [k.ev EXCEPT ![SR04CommMbox] = Left(k.ev[SR04CommMbox], TASK_SR04_PRIO)])
           /\ k.ev[SR04CommMbox].Tbl = {} /\ k.ev[SR04CommMbox].Ptr # None =>
                Leaves(EchoPost(k), k, SR04Task, k.tcb[SR04Task], k.ev)
           /\ k.ev[SR04CommMbox].Tbl = {} /\ k.ev[SR04CommMbox].Ptr = None =>
                Leaves(EchoPost(k), k, SR04Task, k.tcb[SR04Task],
                       [k.ev EXCEPT ![SR04CommMbox] = Boxed(k)])
<1> DEFINE t == SR04Task
           e == SR04CommMbox
           h == OSIntEnter(k)
<1>1. Sound(h) /\ InISR(h) /\ h.tcb = k.tcb /\ h.ev = k.ev
  BY EnterSound DEF SameTables
<1>2. /\ t \in Task /\ e \in Event /\ k.tcb = [k.tcb EXCEPT ![t] = k.tcb[t]]
      /\ k.ev[e] \in ECB(Vals) /\ PP \in Vals /\ Prio[t] = TASK_SR04_PRIO
  BY Priorities DEF Steady, Sound, KernelState, Vals
<1> HIDE DEF h
<1>3. ASSUME k.ev[e].Tbl # {}
      PROVE  Leaves(EchoPost(k), k, t, Answered(k.tcb[t], PP, "MBOX", "OK"),
                    [k.ev EXCEPT ![e] = Left(k.ev[e], TASK_SR04_PRIO)])
  <2> DEFINE r == OS_Sched(OS_EventTaskRdy(h, e, PP, "MBOX", "OK"))
  <2>1. Handled(r, h, t, Answered(h.tcb[t], PP, "MBOX", "OK"),
                [h.ev EXCEPT ![e] = Left(h.ev[e], Prio[t])])
    BY <1>1, <1>2, <1>3, AnswerSound
  <2>2. EchoPost(k) = OSIntExit(r)
    BY <1>1, <1>3 DEF EchoPost, OSMboxPost, h
  <2> HIDE DEF r
  <2>3. Handled(r, k, t, Answered(k.tcb[t], PP, "MBOX", "OK"),
                [k.ev EXCEPT ![e] = Left(k.ev[e], TASK_SR04_PRIO)])
    BY <1>1, <1>2, <2>1 DEF Handled
  <2> QED
    BY <2>2, <2>3, HandledLeaves
<1>4. ASSUME k.ev[e].Tbl = {}, k.ev[e].Ptr # None
      PROVE  Leaves(EchoPost(k), k, t, k.tcb[t], k.ev)
  <2>1. EchoPost(k) = OSIntExit(h)
    BY <1>1, <1>4 DEF EchoPost, OSMboxPost, MboxFull, h
  <2> QED
    BY <1>2, <2>1, NothingHandled DEF h
<1>5. ASSUME k.ev[e].Tbl = {}, k.ev[e].Ptr = None
      PROVE  Leaves(EchoPost(k), k, t, k.tcb[t], [k.ev EXCEPT ![e] = Boxed(k)])
  <2> DEFINE r == WithEvent(h, e, Boxed(k))
  <2>1. Boxed(k) \in ECB(Vals) /\ Boxed(k).Tbl = h.ev[e].Tbl
    BY <1>1, <1>2 DEF Boxed, WithPtr, ECB
  <2>2. Sound(r) /\ r.tcb = h.tcb /\ r.ev = [h.ev EXCEPT ![e] = Boxed(k)] /\ SameRunning(r, h)
    BY <1>1, <1>2, <2>1, EventSound
  <2>3. EchoPost(k) = OSIntExit(r)
    <3>1. OSMboxPost(h, e, PP) = [h EXCEPT !.ev[e].Ptr = PP]
      BY <1>1, <1>5 DEF OSMboxPost, MboxFull
    <3>2. r = [h EXCEPT !.ev[e].Ptr = PP]
      BY <1>1, <1>2 DEF WithEvent, WithPtr, Boxed, Sound, KernelState
    <3> QED
      BY <3>1, <3>2 DEF EchoPost, h
  <2> HIDE DEF r
  <2>4. Handled(r, k, t, k.tcb[t], [k.ev EXCEPT ![e] = Boxed(k)])
    BY <1>1, <1>2, <2>2 DEF Handled, InISR, SameRunning, SameNesting
  <2> QED
    BY <2>3, <2>4, HandledLeaves
<1> QED
  BY <1>3, <1>4, <1>5

\* The last edge: the count goes to the waiting task, to the semaphore, or nowhere.
EdgePost(k) == OSIntExit(OSSemPost(OSIntEnter(k), AM2305Sem))
OneMore(k) == WithCnt(k.ev[AM2305Sem], k.ev[AM2305Sem].Cnt + 1)
\* Each outcome.
LEMMA EdgePosted ==
    ASSUME NEW k, Steady(k)
    PROVE  /\ k.ev[AM2305Sem].Tbl # {} =>
                Leaves(EdgePost(k), k, AM2305Task, Answered(k.tcb[AM2305Task], None, "SEM", "OK"),
                       [k.ev EXCEPT ![AM2305Sem] = Left(k.ev[AM2305Sem], TASK_AM2305_PRIO)])
           /\ k.ev[AM2305Sem].Tbl = {} /\ k.ev[AM2305Sem].Cnt >= SemMax =>
                Leaves(EdgePost(k), k, AM2305Task, k.tcb[AM2305Task], k.ev)
           /\ k.ev[AM2305Sem].Tbl = {} /\ ~(k.ev[AM2305Sem].Cnt >= SemMax) =>
                Leaves(EdgePost(k), k, AM2305Task, k.tcb[AM2305Task],
                       [k.ev EXCEPT ![AM2305Sem] = OneMore(k)])
<1> DEFINE t == AM2305Task
           e == AM2305Sem
           h == OSIntEnter(k)
<1>1. Sound(h) /\ InISR(h) /\ h.tcb = k.tcb /\ h.ev = k.ev
  BY EnterSound DEF SameTables
<1>2. /\ t \in Task /\ t # SR04Task /\ e \in Event /\ k.tcb = [k.tcb EXCEPT ![t] = k.tcb[t]]
      /\ k.ev[e] \in ECB(Vals) /\ None \in Vals /\ Prio[t] = TASK_AM2305_PRIO
  BY Priorities DEF Steady, Sound, KernelState, Vals
<1> HIDE DEF h
<1>3. ASSUME k.ev[e].Tbl # {}
      PROVE  Leaves(EdgePost(k), k, t, Answered(k.tcb[t], None, "SEM", "OK"),
                    [k.ev EXCEPT ![e] = Left(k.ev[e], TASK_AM2305_PRIO)])
  <2> DEFINE r == OS_Sched(OS_EventTaskRdy(h, e, None, "SEM", "OK"))
  <2>1. Handled(r, h, t, Answered(h.tcb[t], None, "SEM", "OK"),
                [h.ev EXCEPT ![e] = Left(h.ev[e], Prio[t])])
    BY <1>1, <1>2, <1>3, AnswerSound
  <2>2. EdgePost(k) = OSIntExit(r)
    BY <1>1, <1>3 DEF EdgePost, OSSemPost, h
  <2> HIDE DEF r
  <2>3. Handled(r, k, t, Answered(k.tcb[t], None, "SEM", "OK"),
                [k.ev EXCEPT ![e] = Left(k.ev[e], TASK_AM2305_PRIO)])
    BY <1>1, <1>2, <2>1 DEF Handled
  <2> QED
    BY <2>2, <2>3, HandledLeaves
<1>4. ASSUME k.ev[e].Tbl = {}, k.ev[e].Cnt >= SemMax
      PROVE  Leaves(EdgePost(k), k, t, k.tcb[t], k.ev)
  <2>1. EdgePost(k) = OSIntExit(h)
    BY <1>1, <1>4 DEF EdgePost, OSSemPost, SemFull, h
  <2> QED
    BY <1>2, <2>1, NothingHandled DEF h
<1>5. ASSUME k.ev[e].Tbl = {}, ~(k.ev[e].Cnt >= SemMax)
      PROVE  Leaves(EdgePost(k), k, t, k.tcb[t], [k.ev EXCEPT ![e] = OneMore(k)])
  <2> DEFINE r == WithEvent(h, e, OneMore(k))
  <2>1. OneMore(k) \in ECB(Vals) /\ OneMore(k).Tbl = h.ev[e].Tbl
    BY <1>1, <1>2 DEF OneMore, WithCnt, ECB
  <2>2. Sound(r) /\ r.tcb = h.tcb /\ r.ev = [h.ev EXCEPT ![e] = OneMore(k)] /\ SameRunning(r, h)
    BY <1>1, <1>2, <2>1, EventSound
  <2>3. EdgePost(k) = OSIntExit(r)
    <3>1. OSSemPost(h, e) = [h EXCEPT !.ev[e].Cnt = @ + 1]
      BY <1>1, <1>5 DEF OSSemPost, SemFull
    <3>2. r = [h EXCEPT !.ev[e].Cnt = @ + 1]
      BY <1>1, <1>2 DEF WithEvent, WithCnt, OneMore, Sound, KernelState
    <3> QED
      BY <3>1, <3>2 DEF EdgePost, h
  <2> HIDE DEF r
  <2>4. Handled(r, k, t, k.tcb[t], [k.ev EXCEPT ![e] = OneMore(k)])
    BY <1>1, <1>2, <2>2 DEF Handled, InISR, SameRunning, SameNesting
  <2> QED
    BY <2>3, <2>4, HandledLeaves
<1> QED
  BY <1>3, <1>4, <1>5

\* A tick: every delay counts down, and who was suspended stays so.
LEMMA TickSound ==
    ASSUME NEW k, Sound(k), InISR(k)
    PROVE  LET r == OSTimeTick(k)
           IN  /\ Sound(r) /\ InISR(r)
               /\ r.tcb = [t \in Task |-> Ticked(k.tcb[t])] /\ r.ev = k.ev
<1> DEFINE r == OSTimeTick(k)
           over == {u \in Task : k.tcb[u].Dly = 1 /\ "SUSPEND" \notin k.tcb[u].Stat}
<1>1. k \in KernelState(Vals) /\ \A t \in Task : k.tcb[t] \in TCB(Vals)
  BY DEF Sound, KernelState
<1>2. /\ r \in KernelState(Vals) /\ r.tcb = [t \in Task |-> Ticked(k.tcb[t])]
      /\ r.Rdy = k.Rdy \cup {k.tcb[t].Prio : t \in over}
      /\ r.PrioTbl = k.PrioTbl /\ r.ev = k.ev /\ SameRunning(r, k)
  BY <1>1, TickFields
<1> HIDE DEF r
<1>3. \A t \in Task :
        LET b == k.tcb[t]
            x == r.tcb[t]
        IN  /\ x.Prio = b.Prio /\ x.EventPtr = b.EventPtr
            /\ b.Dly # 1 => x.Stat = b.Stat /\ x.StatPend = b.StatPend
            /\ b.Dly = 1 => x.Stat = b.Stat \ PendAny
            /\ b.Dly = 1 /\ b.Stat \cap PendAny # {} => x.StatPend = "TO"
            /\ b.Dly = 1 /\ b.Stat \cap PendAny = {} => x.StatPend = "OK"
            /\ x.Dly = 0 <=> b.Dly \in {0, 1}
  BY <1>1, <1>2, TickedType
<1>4. ASSUME NEW t \in Task
      PROVE  k.tcb[t].Stat \subseteq {"MBOX", "SEM", "SUSPEND"} /\ k.tcb[t].Dly \in Nat
  <2>1. k.tcb[Idle].Stat = {}
    BY Priorities DEF Sound, Listed
  <2> QED
    BY <1>1, <2>1, Priorities DEF Sound, PendS, PendA, PendOf, TCB
<1>5. ASSUME NEW t \in Task
      PROVE  Prio[t] \in r.Rdy <=> (r.tcb[t].Stat = {} /\ r.tcb[t].Dly = 0)
  <2>1. Prio[t] \in r.Rdy <=> Prio[t] \in k.Rdy \/ t \in over
    BY <1>2, Priorities DEF Sound, Listed
  <2>2. Prio[t] \in k.Rdy <=> (k.tcb[t].Stat = {} /\ k.tcb[t].Dly = 0)
    BY DEF Sound, Listed
  <2>3. CASE k.tcb[t].Dly = 1
    <3>1. r.tcb[t].Stat = k.tcb[t].Stat \ PendAny /\ r.tcb[t].Dly = 0
      BY <1>3, <2>3
    <3>2. k.tcb[t].Stat \ PendAny = {} <=> "SUSPEND" \notin k.tcb[t].Stat
      BY <1>4 DEF PendAny
    <3> QED
      BY <2>1, <2>2, <2>3, <3>1, <3>2
  <2>4. CASE k.tcb[t].Dly # 1
    BY <1>3, <2>1, <2>2, <2>4
  <2> QED
    BY <2>3, <2>4
<1>6. Listed(r)
  <2>1. r.Rdy \subseteq {Prio[t] : t \in Task} /\ Prio[Idle] \in r.Rdy
    BY <1>2 DEF Sound, Listed
  <2>2. r.PrioCur = Prio[r.Cur]
    BY <1>2 DEF Sound, Listed, SameRunning
  <2>3. \A t \in Task : r.tcb[t].Prio = Prio[t] /\ r.PrioTbl[Prio[t]] = t
    BY <1>2, <1>3 DEF Sound, Listed
  <2> QED
    BY <1>5, <2>1, <2>2, <2>3 DEF Listed
<1>7. ASSUME NEW t \in Task, NEW tbl, NEW p, NEW e \in Event, NEW msk \in PendAny,
             PendOf(k.tcb[t], tbl, p, e, msk)
      PROVE  PendOf(r.tcb[t], tbl, p, e, msk)
  <2>1. k.tcb[t].Stat \cap PendAny = {} <=> msk \notin k.tcb[t].Stat
    BY <1>7 DEF PendOf, PendAny
  <2>2. CASE k.tcb[t].Dly # 1
    BY <1>3, <1>7, <2>2 DEF PendOf
  <2>3. CASE k.tcb[t].Dly = 1
    <3>1. /\ r.tcb[t].EventPtr = k.tcb[t].EventPtr /\ r.tcb[t].Stat = k.tcb[t].Stat \ PendAny
          /\ r.tcb[t].Dly = 0
      BY <1>3, <2>3
    <3>2. msk \notin r.tcb[t].Stat
      BY <3>1
    <3>3. CASE msk \in k.tcb[t].Stat
      <4>1. r.tcb[t].StatPend = "TO"
        BY <1>3, <2>1, <2>3, <3>3
      <4> QED
        BY <1>7, <3>1, <3>2, <3>3, <4>1 DEF PendOf
    <3>4. CASE msk \notin k.tcb[t].Stat /\ k.tcb[t].EventPtr # e
      BY <1>7, <3>1, <3>2, <3>4 DEF PendOf
    <3>5. CASE msk \notin k.tcb[t].Stat /\ k.tcb[t].EventPtr = e
      BY <1>3, <1>7, <2>1, <2>3, <3>1, <3>2, <3>5 DEF PendOf
    <3> QED
      BY <3>3, <3>4, <3>5
  <2> QED
    BY <2>2, <2>3
<1>8. PendS(r) /\ PendA(r)
  BY <1>2, <1>7, Priorities DEF Sound, PendS, PendA, PendAny
<1>9. r.tcb[Idle].EventPtr = None /\ "SUSPEND" \notin r.tcb[SR04Task].Stat
  <2>1. k.tcb[Idle].EventPtr = None /\ "SUSPEND" \notin k.tcb[SR04Task].Stat
    BY DEF Sound
  <2> QED
    BY <1>3, <2>1, Priorities
<1>10. Sound(r) /\ InISR(r)
  BY <1>2, <1>6, <1>8, <1>9 DEF Sound, InISR, SameRunning, SameNesting
<1> QED
  BY <1>2, <1>10 DEF r

\* And the interrupt that counts it.
LEMMA TickSteady ==
    ASSUME NEW k, Steady(k)
    PROVE  LET r == OSIntExit(OSTimeTick(OSIntEnter(k)))
           IN  Steady(r) /\ r.tcb = [t \in Task |-> Ticked(k.tcb[t])] /\ r.ev = k.ev
<1> DEFINE h == OSIntEnter(k)
           m == OSTimeTick(h)
<1>1. Sound(h) /\ InISR(h) /\ h.tcb = k.tcb /\ h.ev = k.ev
  BY EnterSound DEF SameTables
<1> HIDE DEF h
<1>2. Sound(m) /\ InISR(m) /\ m.tcb = [t \in Task |-> Ticked(h.tcb[t])] /\ m.ev = h.ev
  BY <1>1, TickSound
<1> HIDE DEF m
<1>3. Steady(OSIntExit(m)) /\ SameTables(OSIntExit(m), m)
  BY <1>2, ExitSteady
<1> QED
  BY <1>1, <1>2, <1>3 DEF SameTables, m, h

-----------------------------------------------------------------------------
(* What a step leaves of the other part.                                      *)

\* The control blocks after a call.
LEMMA LeavesTask ==
    ASSUME NEW k, NEW r, NEW t \in Task, NEW b, NEW ev, Steady(k), Leaves(r, k, t, b, ev)
    PROVE  r.tcb[t] = b /\ \A u \in Task \ {t} : r.tcb[u] = k.tcb[u]
  BY DEF Steady, Sound, KernelState, Leaves

\* The events after one that changes an event.
LEMMA LeavesEvent ==
    ASSUME NEW k, NEW r, NEW t, NEW b, NEW e \in Event, NEW c, Steady(k),
           Leaves(r, k, t, b, [k.ev EXCEPT ![e] = c])
    PROVE  r.ev[e] = c /\ \A f \in Event \ {e} : r.ev[f] = k.ev[f]
  BY DEF Steady, Sound, KernelState, Leaves

\* vTask2305 is as it was.
LEMMA ThermometerSame ==
    ASSUME Thermometer, UNCHANGED vA,
           os'.tcb[AM2305Task].EventPtr = os.tcb[AM2305Task].EventPtr,
           os'.ev[AM2305Sem] = os.ev[AM2305Sem]
    PROVE  Thermometer'
<1>1. Counting'
  BY DEF Thermometer, Counting, Switches, vA, InPend, Gone, GoneOf
<1>2. Counted'
  BY DEF Thermometer, Counted, Cnt, vA
<1>3. Clean'
  BY DEF Thermometer, Clean, Undisturbing, vA
<1> QED
  BY <1>1, <1>2, <1>3 DEF Thermometer

\* vTaskSR04 is as it was.
LEMMA RangerSame ==
    ASSUME Ranger, UNCHANGED vS, os'.tcb[SR04Task] = os.tcb[SR04Task],
           os'.ev[SR04CommMbox] = os.ev[SR04CommMbox],
           "SUSPEND" \in os'.tcb[AM2305Task].Stat <=> "SUSPEND" \in os.tcb[AM2305Task].Stat,
           ticked' = ticked \/ (ticked' \in BOOLEAN /\ pcS \notin Asked)
    PROVE  Ranger'
<1>1. Ranging'
  BY DEF Ranger, Ranging, HeldWhileMeasuring, vS, InPend
<1>2. SonarRight'
  BY DEF Ranger, SonarRight, vS
<1>3. InTime'
  BY DEF Ranger, InTime, WaitsInTime, WokenInTime, Asked, vS
<1>4. Fresh'
  BY DEF Ranger, Fresh, Posted, vS
<1> QED
  BY <1>1, <1>2, <1>3, <1>4 DEF Ranger

\* While vTask2305 runs, vTaskSR04 does not measure.
LEMMA NotMeasuring ==
    ASSUME Steady(os), Ranging, os.Cur = AM2305Task
    PROVE  pcS \notin Asked /\ "SUSPEND" \notin os.tcb[AM2305Task].Stat
<1>1. os.tcb[AM2305Task].Stat = {}
  BY RunningTask
<1> QED
  BY <1>1 DEF Ranging, HeldWhileMeasuring, Asked

\* While it measures, outside its pend, it runs.
LEMMA MeasuringRuns ==
    ASSUME Steady(os), Ranging, pcS \in Asked \ {"pended"}
    PROVE  os.Cur = SR04Task
<1>1. Prio[SR04Task] \in os.Rdy /\ Prio[AM2305Task] \notin os.Rdy
  <2>1. os.tcb[SR04Task].Stat = {} /\ os.tcb[SR04Task].Dly = 0
    BY DEF Ranging, Asked
  <2>2. "SUSPEND" \in os.tcb[AM2305Task].Stat
    BY DEF Ranging, HeldWhileMeasuring, Asked
  <2> QED
    BY <2>1, <2>2, Priorities DEF Steady, Sound, Listed
<1>2. os.PrioCur <= Prio[SR04Task] /\ os.PrioCur \in os.Rdy
  BY <1>1 DEF Steady, Runner
<1>3. os.PrioCur = Prio[os.Cur] /\ os.Cur \in Task
  BY DEF Steady, Sound, Listed, KernelState
<1>4. os.Cur # AM2305Task /\ os.Cur # Idle
  BY <1>1, <1>2, <1>3, Priorities
<1> QED
  BY <1>3, <1>4, Priorities

-----------------------------------------------------------------------------
(* The statements of vTaskSR04.                                               *)

LEMMA SR04SuspendKeeps ==
    ASSUME IInv, SR04Suspend, UNCHANGED vA, ticked' = FALSE
    PROVE  IInv'
<1> DEFINE b == Suspended(os.tcb[AM2305Task])
<1>1. /\ Steady(os) /\ os.Cur = SR04Task /\ ~InPend(os, SR04Task)
      /\ os.tcb[SR04Task].Stat = {} /\ os.tcb[SR04Task].Dly = 0
  BY RunningTask DEF IInv, SR04Suspend, Runs
<1>2. Leaves(os', os, AM2305Task, b, os.ev)
  BY <1>1, SuspendSteady DEF SR04Suspend
<1>3. b.EventPtr = os.tcb[AM2305Task].EventPtr /\ "SUSPEND" \in b.Stat
  BY <1>1, ThermometerFound DEF Suspended, TCB, Steady
<1> HIDE DEF b
<1>4. os'.tcb[AM2305Task] = b /\ os'.tcb[SR04Task] = os.tcb[SR04Task] /\ os'.ev = os.ev
  BY <1>1, <1>2, LeavesTask, Priorities DEF Leaves
<1>5. Thermometer'
  BY <1>3, <1>4, ThermometerSame DEF IInv
<1>6. Ranging'
  BY <1>1, <1>3, <1>4 DEF SR04Suspend, Ranging, HeldWhileMeasuring, InPend, Asked
<1>7. SonarRight'
  BY DEF SR04Suspend, IInv, Ranger, SonarRight
<1>8. InTime' /\ Fresh'
  BY <1>4 DEF SR04Suspend, IInv, Ranger, InTime, Fresh, Posted
<1> QED
  BY <1>2, <1>5, <1>6, <1>7, <1>8 DEF IInv, Ranger, Leaves

LEMMA SR04TriggerKeeps ==
    ASSUME IInv, SR04Trigger, UNCHANGED vA, ticked' = FALSE
    PROVE  IInv'
<1>1. Steady(os)' /\ Thermometer'
  BY ThermometerSame DEF IInv, SR04Trigger
<1>2. Ranging'
  BY DEF IInv, Ranger, Ranging, SR04Trigger, HeldWhileMeasuring, Asked
<1>3. pulse'.ticks = pulse.ticks /\ pulse' \in [ticks : Nat, age : 0 .. 2] /\ pulse'.age \in 1 .. 2
      /\ (pulse.age = 0 => pulse'.age = 1) /\ age' \in 0 .. 2
  BY DEF IInv, Ranger, SonarRight, SR04Trigger, Older
<1>4. SonarRight'
  BY <1>3 DEF IInv, Ranger, SonarRight, SR04Trigger
<1>5. InTime'
  <2>1. ticked' = FALSE /\ pcS' = "pend" /\ EXTI_LINE7_FLAG' = 2
    BY DEF SR04Trigger
  <2>2. ticked' \in BOOLEAN
    OBVIOUS
  <2>3. EXTI_LINE7_FLAG' # 1 /\ pcS' # "pended"
    BY <2>1
  <2> QED
    BY <2>2, <2>3 DEF InTime
<1>6. Fresh'
  <2>1. pcS = "trigger" /\ pcS' = "pend" /\ Posted' = Posted /\ queued' = Posted
    BY DEF SR04Trigger, Posted
  <2>2. Posted => pulse.age = 0
    BY <2>1 DEF IInv, Ranger, Fresh
  <2>3. Posted' => queued' /\ pulse'.age <= 1
    BY <1>3, <2>1, <2>2
  <2> QED
    BY <1>3, <2>1, <2>3 DEF Fresh
<1> QED
  BY <1>1, <1>2, <1>4, <1>5, <1>6 DEF IInv, Ranger

LEMMA SR04PendKeeps ==
    ASSUME IInv, SR04Pend, UNCHANGED vA, ticked' = FALSE
    PROVE  IInv'
<1> DEFINE e == SR04CommMbox
           b == Waiter(os.tcb[SR04Task], e, "MBOX", SR04Ticks)
<1>1. /\ Steady(os) /\ os.Cur = SR04Task /\ ~InPend(os, SR04Task) /\ pcS = "pend"
      /\ os.tcb[SR04Task].Stat = {} /\ os.tcb[SR04Task].Dly = 0
      /\ os.tcb[SR04Task] \in TCB(Vals) /\ os.ev[e] \in ECB(Vals)
      /\ SR04Task \in Task /\ e \in Event /\ SR04Ticks \in Nat \ {0}
  BY RunningTask, Priorities, SR04Assumption DEF IInv, SR04Pend, Runs, Steady, Sound, KernelState
<1>2. CASE Posted
  <2>1. os.ev[e].Ptr # None
    BY <1>2 DEF Posted
  <2>2. Leaves(os', os, SR04Task, os.tcb[SR04Task], [os.ev EXCEPT ![e] = WithPtr(os.ev[e], None)])
    BY <1>1, <2>1, TakeMboxSteady DEF SR04Pend
  <2>3. /\ os'.tcb[SR04Task] = os.tcb[SR04Task] /\ os'.tcb[AM2305Task] = os.tcb[AM2305Task]
        /\ os'.ev[e] = WithPtr(os.ev[e], None) /\ os'.ev[AM2305Sem] = os.ev[AM2305Sem]
    <3>1. AM2305Task \in Task \ {SR04Task} /\ AM2305Sem \in Event \ {e}
      BY Priorities
    <3>2. os'.tcb[SR04Task] = os.tcb[SR04Task] /\ os'.tcb[AM2305Task] = os.tcb[AM2305Task]
      BY <1>1, <2>2, <3>1 DEF Leaves, Steady, Sound, KernelState
    <3>3. os'.ev[e] = WithPtr(os.ev[e], None) /\ os'.ev[AM2305Sem] = os.ev[AM2305Sem]
      BY <1>1, <2>2, <3>1 DEF Leaves, Steady, Sound, KernelState
    <3> QED
      BY <3>2, <3>3
  <2>4. pcS' = "resumeOk" /\ os'.ev[e].Ptr = None
    BY <1>1, <2>1, <2>3 DEF SR04Pend, WithPtr, ECB
  <2>5. Thermometer'
    BY <2>3, ThermometerSame DEF IInv
  <2>6. Ranging'
    BY <1>1, <2>3, <2>4 DEF SR04Pend, IInv, Ranger, Ranging, HeldWhileMeasuring, InPend, Asked
  <2>7. SonarRight'
    BY DEF SR04Pend, IInv, Ranger, SonarRight
  <2>8. InTime'
    BY <2>4 DEF InTime
  <2>9. Fresh'
    BY <1>1, <1>2, <2>4 DEF SR04Pend, IInv, Ranger, Fresh, Posted
  <2> QED
    BY <2>2, <2>5, <2>6, <2>7, <2>8, <2>9 DEF IInv, Ranger, Leaves
<1>3. CASE ~Posted
  <2>1. os.ev[e].Ptr = None
    BY <1>3 DEF Posted
  <2>2. Leaves(os', os, SR04Task, b, [os.ev EXCEPT ![e] = Joined(os.ev[e], TASK_SR04_PRIO)])
    BY <1>1, <2>1, MboxSleepSteady DEF SR04Pend
  <2>3. b.EventPtr = e /\ b.Stat = {"MBOX"} /\ b.Dly = SR04Ticks
    BY <1>1 DEF Waiter, TCB
  <2> HIDE DEF b
  <2>4. /\ os'.tcb[SR04Task] = b /\ os'.tcb[AM2305Task] = os.tcb[AM2305Task]
        /\ os'.ev[e] = Joined(os.ev[e], TASK_SR04_PRIO) /\ os'.ev[AM2305Sem] = os.ev[AM2305Sem]
    <3>1. AM2305Task \in Task \ {SR04Task} /\ AM2305Sem \in Event \ {e}
      BY Priorities
    <3>2. os'.tcb[SR04Task] = b /\ os'.tcb[AM2305Task] = os.tcb[AM2305Task]
      BY <1>1, <2>2, <3>1 DEF Leaves, Steady, Sound, KernelState
    <3>3. /\ os'.ev[e] = Joined(os.ev[e], TASK_SR04_PRIO)
          /\ os'.ev[AM2305Sem] = os.ev[AM2305Sem]
      BY <1>1, <2>2, <3>1 DEF Leaves, Steady, Sound, KernelState
    <3> QED
      BY <3>2, <3>3
  <2>5. pcS' = "pended" /\ os'.ev[e].Ptr = None /\ os'.ev[e].Tbl # {}
    BY <1>1, <2>1, <2>4 DEF SR04Pend, Joined, ECB
  <2>6. Thermometer'
    BY <2>4, ThermometerSame DEF IInv
  <2>7. Ranging'
    <3>1. e # None
      BY <1>1, CoreAssumption
    <3> QED
      BY <1>1, <2>3, <2>4, <2>5, <3>1
         DEF SR04Pend, IInv, Ranger, Ranging, HeldWhileMeasuring, InPend, Asked
  <2>8. SonarRight'
    BY DEF SR04Pend, IInv, Ranger, SonarRight
  <2>9. InTime'
    <3>1. "MBOX" \in os'.tcb[SR04Task].Stat /\ os'.tcb[SR04Task].Dly = SR04Ticks
      BY <2>3, <2>4
    <3>2. EXTI_LINE7_FLAG = 1 => TIM2 \in Nat /\ TIM2 <= 1
      BY <1>1 DEF IInv, Ranger, InTime, SonarRight
    <3>3. UNCHANGED <<EXTI_LINE7_FLAG, TIM2>>
      BY DEF SR04Pend
    <3>4. WaitsInTime'
      BY <1>1, <3>1, <3>2, <3>3 DEF WaitsInTime
    <3> QED
      BY <2>5, <3>1, <3>4 DEF InTime
  <2>10. Fresh'
    BY <1>1, <1>3, <2>5 DEF SR04Pend, IInv, Ranger, Fresh, Posted
  <2> QED
    BY <2>2, <2>6, <2>7, <2>8, <2>9, <2>10 DEF IInv, Ranger, Leaves
<1> QED
  BY <1>2, <1>3

LEMMA SR04PendReturnsKeeps ==
    ASSUME IInv, SR04PendReturns, UNCHANGED vA, ticked' = FALSE
    PROVE  IInv'
<1> DEFINE e == SR04CommMbox
           t == SR04Task
           b == Returned(os.tcb[t])
<1>1. /\ Steady(os) /\ os.Cur = t /\ InPend(os, t) /\ pcS = "pended"
      /\ os.tcb[t].Stat = {} /\ os.tcb[t].Dly = 0
      /\ os.tcb[t] \in TCB(Vals) /\ t \in Task /\ e \in Event
      /\ AM2305Task \in Task \ {t} /\ AM2305Sem \in Event \ {e}
  BY RunningTask, Priorities DEF IInv, SR04PendReturns, Returns, Ranger, Ranging
<1>2. PICK c \in ECB(Vals) :
        /\ Leaves(os', os, t, b, [os.ev EXCEPT ![e] = c])
        /\ c.Tbl = {} /\ c.Ptr = os.ev[e].Ptr
  <2>1. os' = PendTail(os)
    BY DEF SR04PendReturns
  <2>2. e = (IF t = SR04Task THEN SR04CommMbox ELSE AM2305Sem) /\ t \in {SR04Task, AM2305Task}
    OBVIOUS
  <2> HIDE DEF b, e, t
  <2>3. TailLeaves(os, PendTail(os), t, e)
    BY <1>1, <2>2, TailSteady
  <2> QED
    BY <2>1, <2>3 DEF TailLeaves, b
<1>3. b.EventPtr = None /\ b.Stat = {} /\ b.Dly = 0
  BY <1>1 DEF Returned, TCB
<1> HIDE DEF b
<1>4. /\ os'.tcb[t] = b /\ os'.tcb[AM2305Task] = os.tcb[AM2305Task]
      /\ os'.ev[e] = c /\ os'.ev[AM2305Sem] = os.ev[AM2305Sem]
  BY <1>1, <1>2 DEF Leaves, Steady, Sound, KernelState
<1>5. pcS' = (IF os.tcb[t].StatPend = "OK" THEN "resumeOk" ELSE "resumeErr")
      /\ UNCHANGED <<EXTI_LINE7_FLAG, pulse, TIM2, sonar, echo, fSR04Distance, age, queued>>
  BY DEF SR04PendReturns
<1>6. pcS' \in {"resumeOk", "resumeErr"}
  BY <1>5
<1>7. Thermometer'
  BY <1>4, ThermometerSame DEF IInv
<1>8. Ranging'
  <2>1. ~InPend(os, t)'
    BY <1>3, <1>4 DEF InPend
  <2>2. HeldWhileMeasuring'
    BY <1>1, <1>4, <1>6 DEF IInv, Ranger, Ranging, HeldWhileMeasuring
  <2> QED
    BY <1>3, <1>4, <1>6, <2>1, <2>2 DEF Ranging, Asked
<1>9. SonarRight'
  BY <1>5 DEF IInv, Ranger, SonarRight
<1>10. InTime'
  BY <1>6 DEF InTime
<1>11. Fresh'
  <2>1. ~queued /\ ~Posted /\ (os.ev[e].Tbl = {} => pulse.age = 0)
        /\ (pulse.age = 0 => pulse.ticks <= SR04Ticks + 1)
    BY <1>1 DEF IInv, Ranger, Fresh
  <2>2. ~queued' /\ ~Posted'
    BY <1>2, <1>4, <1>5, <2>1 DEF Posted
  <2>3. pcS' = "resumeOk" => pulse.age = 0
    <3>1. SUFFICES ASSUME os.tcb[t].StatPend = "OK" PROVE os.ev[e].Tbl = {}
      BY <1>5, <2>1
    <3> QED
      BY <1>1, <3>1 DEF Steady, Sound, PendS, PendOf
  <2> QED
    BY <1>5, <1>6, <2>1, <2>2, <2>3 DEF Fresh
<1> QED
  BY <1>2, <1>7, <1>8, <1>9, <1>10, <1>11 DEF IInv, Ranger, Leaves

LEMMA SR04ResumeKeeps ==
    ASSUME IInv, SR04Resume, UNCHANGED vA, ticked' = FALSE
    PROVE  IInv'
<1> DEFINE a == AM2305Task
           b == Resumed(os.tcb[a])
<1>1. /\ Steady(os) /\ os.Cur = SR04Task /\ ~InPend(os, SR04Task)
      /\ pcS \in {"resumeOk", "resumeErr"} /\ SR04Task \in Task \ {a} /\ a \in Task
      /\ "SUSPEND" \in os.tcb[a].Stat /\ os.tcb[a] \in TCB(Vals)
  BY Priorities, ThermometerFound
     DEF IInv, SR04Resume, Runs, Ranger, Ranging, HeldWhileMeasuring, Steady
<1>2. Leaves(os', os, a, b, os.ev)
  BY <1>1, ResumeSteady DEF SR04Resume
<1>3. b.EventPtr = os.tcb[a].EventPtr /\ "SUSPEND" \notin b.Stat
  BY <1>1 DEF Resumed, TCB
<1> HIDE DEF b
<1>4. os'.tcb[a] = b /\ os'.tcb[SR04Task] = os.tcb[SR04Task] /\ os'.ev = os.ev
  BY <1>1, <1>2 DEF Leaves, Steady, Sound, KernelState
<1>5. pcS' = (IF pcS = "resumeOk" THEN "read" ELSE "delay")
      /\ UNCHANGED <<EXTI_LINE7_FLAG, pulse, TIM2, sonar, echo, fSR04Distance, age, queued>>
  BY DEF SR04Resume
<1>6. pcS' \in {"read", "delay"}
  BY <1>5
<1>7. Thermometer'
  BY <1>3, <1>4, ThermometerSame DEF IInv
<1>8. Ranging'
  <2>1. ~InPend(os, SR04Task)'
    BY <1>1, <1>4 DEF InPend
  <2>2. os.tcb[SR04Task].Stat = {} /\ os.tcb[SR04Task].Dly = 0
    BY <1>1, RunningTask
  <2> QED
    BY <1>3, <1>4, <1>6, <2>1, <2>2 DEF Ranging, Asked, HeldWhileMeasuring
<1>9. SonarRight'
  BY <1>5 DEF IInv, Ranger, SonarRight
<1>10. InTime'
  BY <1>6 DEF InTime
<1>11. Fresh'
  <2>1. Posted' = Posted
    BY <1>4 DEF Posted
  <2> QED
    BY <1>1, <1>5, <1>6, <2>1 DEF IInv, Ranger, Fresh
<1> QED
  BY <1>2, <1>7, <1>8, <1>9, <1>10, <1>11 DEF IInv, Ranger, Leaves

LEMMA SR04ReadKeeps ==
    ASSUME IInv, SR04Read, UNCHANGED vA, ticked' = FALSE
    PROVE  IInv'
<1>1. Steady(os)' /\ Thermometer'
  BY ThermometerSame DEF IInv, SR04Read
<1>2. Ranging'
  BY DEF IInv, Ranger, Ranging, SR04Read, HeldWhileMeasuring, Asked
<1>3. SonarRight'
  <2>1. Distance(pulse.ticks) \in 0 .. 255
    BY SR04Assumption DEF IInv, Ranger, SonarRight, Distance, Centimetres
  <2> QED
    BY <2>1 DEF IInv, Ranger, SonarRight, SR04Read
<1>4. InTime'
  BY DEF InTime, SR04Read
<1>5. Fresh'
  BY DEF IInv, Ranger, Fresh, Posted, SR04Read
<1> QED
  BY <1>1, <1>2, <1>3, <1>4, <1>5 DEF IInv, Ranger

LEMMA SR04SleepKeeps ==
    ASSUME IInv, SR04Sleep, UNCHANGED vA, ticked' = FALSE
    PROVE  IInv'
<1> DEFINE b == Delayed(os.tcb[SR04Task], SR04Delay)
<1>1. /\ Steady(os) /\ os.Cur = SR04Task /\ ~InPend(os, SR04Task) /\ pcS = "delay"
      /\ os.tcb[SR04Task] \in TCB(Vals) /\ os.tcb[SR04Task].Stat = {}
      /\ SR04Task \in Task /\ AM2305Task \in Task \ {SR04Task}
  BY RunningTask, Priorities DEF IInv, SR04Sleep, Runs
<1>2. Leaves(os', os, SR04Task, b, os.ev)
  BY <1>1, DelaySteady, SR04Assumption DEF SR04Sleep
<1>3. b.EventPtr = os.tcb[SR04Task].EventPtr /\ b.Stat = {}
  BY <1>1 DEF Delayed, TCB
<1> HIDE DEF b
<1>4. os'.tcb[SR04Task] = b /\ os'.tcb[AM2305Task] = os.tcb[AM2305Task] /\ os'.ev = os.ev
  BY <1>1, <1>2 DEF Leaves, Steady, Sound, KernelState
<1>5. Thermometer'
  BY <1>4, ThermometerSame DEF IInv
<1>6. Ranging'
  BY <1>1, <1>3, <1>4 DEF SR04Sleep, IInv, Ranger, Ranging, HeldWhileMeasuring, InPend, Asked
<1>7. SonarRight'
  BY DEF SR04Sleep, IInv, Ranger, SonarRight
<1>8. InTime' /\ Fresh'
  BY <1>4 DEF SR04Sleep, IInv, Ranger, InTime, Fresh, Posted
<1> QED
  BY <1>2, <1>5, <1>6, <1>7, <1>8 DEF IInv, Ranger, Leaves

-----------------------------------------------------------------------------
(* The edges of the echo.                                                     *)

LEMMA EchoRisesKeeps ==
    ASSUME IInv, EchoRises, UNCHANGED <<vA, ticked>>
    PROVE  IInv'
<1>1. /\ Steady(os) /\ SR04Task \in Task /\ sonar = "armed" /\ EXTI_LINE7_FLAG = 2
      /\ pulse.age # 0
  BY Priorities DEF IInv, EchoRises, Ranger, SonarRight
<1>2. /\ os' = OSIntExit(OSIntEnter(os)) /\ TIM2' = 0 /\ EXTI_LINE7_FLAG' = 1 /\ sonar' = "high"
      /\ echo' \in Nat /\ UNCHANGED <<pulse, pcS, fSR04Distance, age, queued, ticked, vA>>
  BY <1>1, SR04Assumption DEF EchoRises, vtaskSR04Handle, Leave
<1>3. Leaves(os', os, SR04Task, os.tcb[SR04Task], os.ev)
  BY <1>1, <1>2, NothingHandled
<1>4. os'.tcb = os.tcb /\ os'.ev = os.ev
  BY <1>1, <1>3 DEF Leaves, Steady, Sound, KernelState
<1>5. Thermometer'
  BY <1>2, <1>4, ThermometerSame DEF IInv
<1>6. Ranging'
  BY <1>2, <1>4 DEF IInv, Ranger, Ranging, HeldWhileMeasuring, InPend
<1>7. SonarRight'
  BY <1>1, <1>2 DEF IInv, Ranger, SonarRight
<1>8. InTime'
  <2>1. SR04Ticks \in Nat /\ os.tcb[SR04Task].Dly \in Nat
    BY <1>1, SR04Assumption DEF Steady, Sound, KernelState, TCB
  <2>2. WaitsInTime => WaitsInTime'
    BY <1>2, <1>4, <2>1 DEF WaitsInTime
  <2>3. WokenInTime => WokenInTime'
    BY <1>1, <1>2, <2>1 DEF WokenInTime
  <2> QED
    BY <1>2, <1>4, <2>2, <2>3 DEF IInv, Ranger, InTime
<1>9. Fresh'
  <2>1. Posted' = Posted
    BY <1>4 DEF Posted
  <2> QED
    BY <1>2, <1>4, <2>1 DEF IInv, Ranger, Fresh
<1> QED
  BY <1>3, <1>5, <1>6, <1>7, <1>8, <1>9 DEF IInv, Ranger, Leaves

LEMMA EchoFallsKeeps ==
    ASSUME IInv, EchoFalls, UNCHANGED <<vA, ticked>>
    PROVE  IInv'
<1> DEFINE t == SR04Task
           e == SR04CommMbox
           b == Answered(os.tcb[t], PP, "MBOX", "OK")
<1>1. /\ Steady(os) /\ t \in Task /\ e \in Event /\ sonar = "high" /\ EXTI_LINE7_FLAG = 1
      /\ pulse.age # 0 /\ TIM2 \in Nat /\ AM2305Task \in Task \ {t} /\ AM2305Sem \in Event \ {e}
      /\ os.tcb[t] \in TCB(Vals) /\ os.ev[e] \in ECB(Vals) /\ PP # None
  BY Priorities, SR04Assumption
     DEF IInv, EchoFalls, Ranger, SonarRight, Steady, Sound, KernelState
<1>2. /\ os' = EchoPost(os) /\ TIM2' = None /\ EXTI_LINE7_FLAG' = 0 /\ sonar' = "quiet"
      /\ pulse' = [ticks |-> TIM2, age |-> 0]
      /\ UNCHANGED <<echo, pcS, fSR04Distance, age, queued, ticked, vA>>
  BY <1>1 DEF EchoFalls, vtaskSR04Handle, Leave, EchoPost
<1>3. os.ev[e].Tbl # {} => pcS = "pended"
  BY <1>1, CoreAssumption DEF IInv, Ranger, Ranging, InPend, Steady, Sound, PendS, PendOf
<1>4. os.ev[e].Tbl = {} => pcS # "pended"
  BY <1>1 DEF IInv, Ranger, Fresh
<1>5. /\ Steady(os') /\ os'.tcb[AM2305Task] = os.tcb[AM2305Task]
      /\ os'.ev[AM2305Sem] = os.ev[AM2305Sem] /\ os'.tcb[t].EventPtr = os.tcb[t].EventPtr
      /\ (pcS = "pended" => os'.tcb[t] = b /\ os'.ev[e].Ptr = os.ev[e].Ptr)
      /\ (pcS # "pended" => os'.tcb[t] = os.tcb[t] /\ os'.ev[e].Ptr # None)
  <2>1. CASE os.ev[e].Tbl # {}
    <3>1. Leaves(os', os, t, b, [os.ev EXCEPT ![e] = Left(os.ev[e], TASK_SR04_PRIO)])
      BY <1>1, <1>2, <2>1, EchoPosted
    <3>2. b.EventPtr = os.tcb[t].EventPtr
      BY <1>1 DEF Answered, TCB
    <3> HIDE DEF b
    <3>3. Left(os.ev[e], TASK_SR04_PRIO).Ptr = os.ev[e].Ptr
      BY <1>1 DEF Left, ECB
    <3>4. os'.tcb[t] = b /\ os'.tcb[AM2305Task] = os.tcb[AM2305Task]
      BY <1>1, <3>1 DEF Leaves, Steady, Sound, KernelState
    <3>5. /\ os'.ev[e] = Left(os.ev[e], TASK_SR04_PRIO)
          /\ os'.ev[AM2305Sem] = os.ev[AM2305Sem]
      BY <1>1, <3>1 DEF Leaves, Steady, Sound, KernelState
    <3>6. Steady(os')
      BY <3>1 DEF Leaves
    <3> QED
      BY <1>3, <2>1, <3>2, <3>3, <3>4, <3>5, <3>6
  <2>2. CASE os.ev[e].Tbl = {} /\ os.ev[e].Ptr # None
    <3>1. Leaves(os', os, t, os.tcb[t], os.ev)
      BY <1>1, <1>2, <2>2, EchoPosted
    <3>2. os'.tcb = os.tcb /\ os'.ev = os.ev /\ Steady(os')
      BY <1>1, <3>1 DEF Leaves, Steady, Sound, KernelState
    <3> QED
      BY <1>4, <2>2, <3>2
  <2>3. CASE os.ev[e].Tbl = {} /\ os.ev[e].Ptr = None
    <3>1. Leaves(os', os, t, os.tcb[t], [os.ev EXCEPT ![e] = Boxed(os)])
      BY <1>1, <1>2, <2>3, EchoPosted
    <3>2. Boxed(os).Ptr = PP
      BY <1>1 DEF Boxed, WithPtr, ECB
    <3>3. os'.tcb = os.tcb /\ Steady(os')
      BY <1>1, <3>1 DEF Leaves, Steady, Sound, KernelState
    <3>4. os'.ev[e] = Boxed(os) /\ os'.ev[AM2305Sem] = os.ev[AM2305Sem]
      BY <1>1, <3>1 DEF Leaves, Steady, Sound, KernelState
    <3> QED
      BY <1>1, <1>4, <2>3, <3>2, <3>3, <3>4
  <2> QED
    BY <2>1, <2>2, <2>3
<1>6. "MBOX" \notin b.Stat
  BY <1>1 DEF Answered, TCB
<1> HIDE DEF b
<1>7. Thermometer'
  BY <1>2, <1>5, ThermometerSame DEF IInv
<1>8. Ranging'
  BY <1>2, <1>5, <1>6 DEF IInv, Ranger, Ranging, HeldWhileMeasuring, InPend
<1>9. SonarRight'
  BY <1>1, <1>2 DEF IInv, Ranger, SonarRight
<1>10. InTime'
  <2>1. EXTI_LINE7_FLAG' # 1 /\ EXTI_LINE7_FLAG' = 0
    BY <1>2
  <2>2. WokenInTime'
    BY <2>1 DEF WokenInTime
  <2>3. pcS' = "pended" => "MBOX" \notin os'.tcb[t].Stat
    BY <1>2, <1>5, <1>6
  <2> QED
    BY <1>2, <2>1, <2>2, <2>3 DEF IInv, Ranger, InTime
<1>11. Fresh'
  <2>1. pulse'.age = 0 /\ pulse'.ticks = TIM2
    BY <1>2
  <2>2. pcS \in {"pend", "pended"} => TIM2 <= SR04Ticks + 1
    <3>1. SR04Ticks \in Nat /\ os.tcb[t].Dly \in Nat
      BY <1>1, SR04Assumption DEF TCB
    <3> QED
      BY <1>1, <3>1 DEF IInv, Ranger, InTime, WaitsInTime, WokenInTime
  <2>3. pcS = "pend" /\ queued => Posted'
    BY <1>5 DEF Posted
  <2>4. pcS = "pended" => ~queued /\ ~Posted'
    BY <1>5 DEF IInv, Ranger, Fresh, Posted
  <2>5. pcS \in {"resumeOk", "read"} => queued
    BY <1>1 DEF IInv, Ranger, Fresh
  <2> QED
    BY <1>2, <2>1, <2>2, <2>3, <2>4, <2>5 DEF Fresh
<1> QED
  BY <1>5, <1>7, <1>8, <1>9, <1>10, <1>11 DEF IInv, Ranger

-----------------------------------------------------------------------------
(* The statements of vTask2305.                                               *)

\* It runs only while vTaskSR04 does not measure, and leaves it alone.
LEMMA RangerKept ==
    ASSUME IInv, os.Cur = AM2305Task, UNCHANGED vS, ticked' = FALSE,
           os'.tcb[SR04Task] = os.tcb[SR04Task],
           os'.ev[SR04CommMbox] = os.ev[SR04CommMbox],
           "SUSPEND" \notin os'.tcb[AM2305Task].Stat
    PROVE  Ranger'
<1>1. pcS \notin Asked /\ "SUSPEND" \notin os.tcb[AM2305Task].Stat
  BY NotMeasuring DEF IInv, Ranger
<1>2. ticked' \in BOOLEAN
  OBVIOUS
<1> QED
  BY <1>1, <1>2, RangerSame DEF IInv

\* And when it calls nothing of the kernel.
LEMMA RangerKeptToo ==
    ASSUME IInv, os.Cur = AM2305Task, UNCHANGED <<vS, os>>, ticked' = FALSE
    PROVE  Steady(os)' /\ Ranger'
<1>1. "SUSPEND" \notin os.tcb[AM2305Task].Stat
  BY NotMeasuring DEF IInv, Ranger
<1> QED
  BY <1>1, RangerKept DEF IInv

LEMMA AM2305BootKeeps ==
    ASSUME IInv, AM2305Boot, UNCHANGED vS, ticked' = FALSE
    PROVE  IInv'
<1>1. Steady(os)' /\ Ranger'
  BY RangerKeptToo DEF AM2305Boot, Runs
<1>2. Switches'
  <2>1. ~EXTI0' /\ EXTI0' \in BOOLEAN /\ TIM3' \in BOOLEAN
    BY Zenon DEF AM2305Boot, IInv, Thermometer, Counting, Switches
  <2>2. pcA' \notin Unmasked
    BY DEF AM2305Boot, Unmasked
  <2> QED
    BY <2>1, <2>2 DEF Switches
<1>3. Counting'
  BY <1>2 DEF AM2305Boot, IInv, Thermometer, Counting, Unmasked
<1>4. Counted' /\ Clean'
  BY DEF AM2305Boot, IInv, Thermometer, Counted, Cnt, Clean
<1> QED
  BY <1>1, <1>3, <1>4 DEF IInv, Thermometer

LEMMA AM2305StartKeeps ==
    ASSUME IInv, AM2305Start, UNCHANGED vS, ticked' = FALSE
    PROVE  IInv'
<1>1. Steady(os)' /\ Ranger'
  BY RangerKeptToo DEF AM2305Start, Runs
<1>2. Switches'
  BY DEF AM2305Start, IInv, Thermometer, Counting, Switches, Unmasked
<1>3. answer' \in {0, 1} /\ noise' = 0 /\ carried' = EXTI_LINE0_FLAG /\ pcA' = "pend"
      /\ UNCHANGED <<EXTI_LINE0_FLAG, THBuff, os>> /\ reading' = "none"
  BY DEF AM2305Start
<1>4. Counting'
  <2>1. Gone' \in Nat
    <3>1. answer' = 0 \/ answer' = 1
      BY <1>3
    <3> QED
      BY <3>1, AM2305Assumption DEF Gone, GoneOf
  <2>2. ~InPend(os, AM2305Task)'
    BY <1>3 DEF AM2305Start, Runs, InPend
  <2>3. /\ EXTI_LINE0_FLAG \in Nat /\ THBuff \in [1 .. BuffLen - 1 -> 0 .. Foreign]
    BY DEF IInv, Thermometer, Counting
  <2>4. answer' \in 0 .. Edges
    BY <1>3, AM2305Assumption
  <2>5. EXTI_LINE0_FLAG' <= carried' + noise' + Gone'
    <3>1. noise' = 0 /\ carried' = EXTI_LINE0_FLAG /\ EXTI_LINE0_FLAG' = EXTI_LINE0_FLAG
      BY <1>3
    <3> DEFINE g == Gone'
    <3>2. g \in Nat
      BY <2>1
    <3> HIDE DEF g
    <3>3. EXTI_LINE0_FLAG' <= carried' + noise' + g
      BY <2>3, <3>1, <3>2
    <3> QED
      BY <3>3 DEF g
  <2> QED
    BY <1>2, <1>3, <2>2, <2>3, <2>4, <2>5 DEF Counting, Unmasked
<1>5. Counted'
  BY DEF AM2305Start, IInv, Thermometer, Counted, Cnt
<1>6. Clean'
  <2>1. ASSUME EXTI_LINE0_FLAG = 0 PROVE Undisturbing'
    BY <1>3, <2>1, AM2305Assumption DEF Undisturbing
  <2> QED
    BY <1>3, <2>1 DEF Clean
<1> QED
  BY <1>1, <1>4, <1>5, <1>6 DEF IInv, Thermometer

LEMMA AM2305PendKeeps ==
    ASSUME IInv, AM2305Pend, UNCHANGED vS, ticked' = FALSE
    PROVE  IInv'
<1> DEFINE t == AM2305Task
           e == AM2305Sem
           b == Waiter(os.tcb[t], e, "SEM", AM2305Ticks)
<1>1. /\ Steady(os) /\ os.Cur = t /\ ~InPend(os, t) /\ pcA = "pend"
      /\ os.tcb[t].Stat = {} /\ os.tcb[t].Dly = 0
      /\ os.tcb[t] \in TCB(Vals) /\ os.ev[e] \in ECB(Vals)
      /\ t \in Task /\ e \in Event /\ AM2305Ticks \in Nat
      /\ SR04Task \in Task \ {t} /\ SR04CommMbox \in Event \ {e}
  BY RunningTask, Priorities, AM2305Assumption
     DEF IInv, AM2305Pend, Runs, Steady, Sound, KernelState
<1>2. Cnt \in {0, 1}
  BY DEF IInv, Thermometer, Counted
<1>3. CASE Cnt = 1
  <2>1. os.ev[e].Cnt > 0
    BY <1>3 DEF Cnt
  <2>2. Leaves(os', os, t, os.tcb[t], [os.ev EXCEPT ![e] = WithCnt(os.ev[e], os.ev[e].Cnt - 1)])
    BY <1>1, <2>1, TakeSemSteady DEF AM2305Pend
  <2>3. /\ os'.tcb[t] = os.tcb[t] /\ os'.tcb[SR04Task] = os.tcb[SR04Task]
        /\ os'.ev[SR04CommMbox] = os.ev[SR04CommMbox]
        /\ os'.ev[e] = WithCnt(os.ev[e], os.ev[e].Cnt - 1)
    BY <1>1, <2>2 DEF Leaves, Steady, Sound, KernelState
  <2>4. Cnt' = 0 /\ pcA' = "check" /\ ended' = "atOnce"
    BY <1>1, <1>3, <2>1, <2>3 DEF Cnt, WithCnt, ECB, AM2305Pend
  <2>5. Ranger'
    BY <1>1, <2>3, RangerKept
  <2>6. Counting'
    BY <1>1, <2>3, <2>4 DEF AM2305Pend, IInv, Thermometer, Counting, Switches, Unmasked, InPend, Gone, GoneOf
  <2>7. Counted'
    BY <2>4, SemAssumption, <1>2, <1>3 DEF IInv, Thermometer, Counted
  <2>8. Clean'
    BY <1>1 DEF AM2305Pend, IInv, Thermometer, Clean, Undisturbing
  <2> QED
    BY <2>2, <2>5, <2>6, <2>7, <2>8 DEF IInv, Thermometer, Leaves
<1>4. CASE Cnt = 0
  <2>1. ~(os.ev[e].Cnt > 0)
    BY <1>4 DEF Cnt
  <2>2. Leaves(os', os, t, b, [os.ev EXCEPT ![e] = Joined(os.ev[e], TASK_AM2305_PRIO)])
    BY <1>1, <2>1, SemSleepSteady DEF AM2305Pend
  <2>3. b.EventPtr = e /\ b.Stat = {"SEM"}
    BY <1>1 DEF Waiter, TCB
  <2> HIDE DEF b
  <2>4. /\ os'.tcb[t] = b /\ os'.tcb[SR04Task] = os.tcb[SR04Task]
        /\ os'.ev[SR04CommMbox] = os.ev[SR04CommMbox]
        /\ os'.ev[e] = Joined(os.ev[e], TASK_AM2305_PRIO)
    BY <1>1, <2>2 DEF Leaves, Steady, Sound, KernelState
  <2>5. Cnt' = 0 /\ pcA' = "pended" /\ os'.ev[e].Tbl # {}
    BY <1>1, <1>4, <2>1, <2>4 DEF Cnt, Joined, ECB, AM2305Pend
  <2>6. Ranger'
    <3>1. "SUSPEND" \notin os'.tcb[t].Stat
      BY <2>3, <2>4
    <3> QED
      BY <1>1, <2>4, <3>1, RangerKept
  <2>7. Counting'
    <3>1. e # None
      BY <1>1, CoreAssumption
    <3> QED
      BY <1>1, <2>3, <2>4, <2>5, <3>1
         DEF AM2305Pend, IInv, Thermometer, Counting, Switches, Unmasked, InPend, Gone, GoneOf
  <2>8. Counted'
    BY <1>4, <2>5 DEF IInv, Thermometer, Counted
  <2>9. Clean'
    BY <1>1 DEF AM2305Pend, IInv, Thermometer, Clean, Undisturbing
  <2> QED
    BY <2>2, <2>6, <2>7, <2>8, <2>9 DEF IInv, Thermometer, Leaves
<1> QED
  BY <1>2, <1>3, <1>4

LEMMA AM2305PendReturnsKeeps ==
    ASSUME IInv, AM2305PendReturns, UNCHANGED vS, ticked' = FALSE
    PROVE  IInv'
<1> DEFINE e == AM2305Sem
           t == AM2305Task
           b == Returned(os.tcb[t])
<1>1. /\ Steady(os) /\ os.Cur = t /\ InPend(os, t) /\ pcA = "pended"
      /\ os.tcb[t].Stat = {} /\ os.tcb[t] \in TCB(Vals) /\ t \in Task /\ e \in Event
      /\ SR04Task \in Task \ {t} /\ SR04CommMbox \in Event \ {e}
  BY RunningTask, Priorities DEF IInv, AM2305PendReturns, Returns, Thermometer, Counting
<1>2. PICK c \in ECB(Vals) :
        /\ Leaves(os', os, t, b, [os.ev EXCEPT ![e] = c])
        /\ c.Tbl = {} /\ c.Cnt = os.ev[e].Cnt
  <2>1. os' = PendTail(os)
    BY DEF AM2305PendReturns
  <2>2. e = (IF t = SR04Task THEN SR04CommMbox ELSE AM2305Sem) /\ t \in {SR04Task, AM2305Task}
    BY <1>1
  <2> HIDE DEF b, e, t
  <2>3. TailLeaves(os, PendTail(os), t, e)
    BY <1>1, <2>2, TailSteady
  <2> QED
    BY <2>1, <2>3 DEF TailLeaves, b
<1>3. b.EventPtr = None /\ b.Stat = {}
  BY <1>1 DEF Returned, TCB
<1> HIDE DEF b
<1>4. /\ os'.tcb[t] = b /\ os'.tcb[SR04Task] = os.tcb[SR04Task]
      /\ os'.ev[e] = c /\ os'.ev[SR04CommMbox] = os.ev[SR04CommMbox]
  BY <1>1, <1>2 DEF Leaves, Steady, Sound, KernelState
<1>5. Ranger'
  BY <1>1, <1>3, <1>4, RangerKept
<1>6. Counting'
  BY <1>1, <1>3, <1>4 DEF AM2305PendReturns, IInv, Thermometer, Counting, Switches, Unmasked, InPend, Gone, GoneOf
<1>7. Counted'
  <2>1. Cnt = 0 /\ Cnt' = 0
    BY <1>1, <1>2, <1>4 DEF IInv, Thermometer, Counted, Cnt
  <2>2. ended' = "posted" => EXTI_LINE0_FLAG' >= Edges
    <3>1. SUFFICES ASSUME os.tcb[t].StatPend = "OK" PROVE EXTI_LINE0_FLAG >= Edges
      BY DEF AM2305PendReturns
    <3>2. os.ev[e].Tbl = {}
      BY <1>1, <3>1 DEF Steady, Sound, PendA, PendOf
    <3> QED
      BY <1>1, <3>2 DEF IInv, Thermometer, Counted
  <2>3. pcA' = "check"
    BY DEF AM2305PendReturns
  <2> QED
    BY <2>1, <2>2, <2>3 DEF IInv, Thermometer, Counted
<1>8. Clean'
  BY <1>1 DEF AM2305PendReturns, IInv, Thermometer, Clean, Undisturbing
<1> QED
  BY <1>2, <1>5, <1>6, <1>7, <1>8 DEF IInv, Thermometer, Leaves

LEMMA AM2305CheckKeeps ==
    ASSUME IInv, AM2305Check, UNCHANGED vS, ticked' = FALSE
    PROVE  IInv'
<1>1. Steady(os)' /\ Ranger'
  BY RangerKeptToo DEF AM2305Check, Runs
<1>2. Counting'
  BY DEF AM2305Check, IInv, Thermometer, Counting, Switches, Unmasked, Gone, GoneOf
<1>3. Counted' /\ Clean'
  BY DEF AM2305Check, IInv, Thermometer, Counted, Cnt, Clean
<1> QED
  BY <1>1, <1>2, <1>3 DEF IInv, Thermometer

LEMMA AM2305ResetKeeps ==
    ASSUME IInv, AM2305Reset, UNCHANGED vS, ticked' = FALSE
    PROVE  IInv'
<1>1. Steady(os)' /\ Ranger'
  BY RangerKeptToo DEF AM2305Reset, Runs
<1>2. Counting'
  BY AM2305Assumption
     DEF AM2305Reset, IInv, Thermometer, Counting, Switches, Unmasked, BuffLen, Foreign, Frozen
<1>3. Counted' /\ Clean'
  BY DEF AM2305Reset, IInv, Thermometer, Counted, Cnt, Clean
<1> QED
  BY <1>1, <1>2, <1>3 DEF IInv, Thermometer

LEMMA AM2305MaskKeeps ==
    ASSUME IInv, AM2305Mask, UNCHANGED vS, ticked' = FALSE
    PROVE  IInv'
<1>1. Steady(os)' /\ Ranger'
  BY RangerKeptToo DEF AM2305Mask, Runs
<1>2. Switches'
  <2>1. ~EXTI0' /\ EXTI0' \in BOOLEAN /\ TIM3' \in BOOLEAN
    BY Zenon DEF AM2305Mask, IInv, Thermometer, Counting, Switches
  <2>2. pcA' \notin Unmasked
    BY DEF AM2305Mask, Unmasked
  <2> QED
    BY <2>1, <2>2 DEF Switches
<1>3. Counting'
  BY <1>2 DEF AM2305Mask, IInv, Thermometer, Counting, Unmasked
<1>4. Counted' /\ Clean'
  BY DEF AM2305Mask, IInv, Thermometer, Counted, Cnt, Clean
<1> QED
  BY <1>1, <1>3, <1>4 DEF IInv, Thermometer

LEMMA AM2305SleepKeeps ==
    ASSUME IInv, AM2305Sleep, UNCHANGED vS, ticked' = FALSE
    PROVE  IInv'
<1> DEFINE t == AM2305Task
           b == Delayed(os.tcb[t], AM2305Delay)
<1>1. /\ Steady(os) /\ os.Cur = t /\ ~InPend(os, t) /\ pcA = "delay"
      /\ os.tcb[t] \in TCB(Vals) /\ os.tcb[t].Stat = {} /\ t \in Task
      /\ SR04Task \in Task \ {t}
  BY RunningTask, Priorities DEF IInv, AM2305Sleep, Runs
<1>2. Leaves(os', os, t, b, os.ev)
  BY <1>1, DelaySteady, AM2305Assumption DEF AM2305Sleep
<1>3. b.EventPtr = os.tcb[t].EventPtr /\ b.Stat = {}
  BY <1>1 DEF Delayed, TCB
<1> HIDE DEF b
<1>4. os'.tcb[t] = b /\ os'.tcb[SR04Task] = os.tcb[SR04Task] /\ os'.ev = os.ev
  BY <1>1, <1>2 DEF Leaves, Steady, Sound, KernelState
<1>5. Ranger'
  BY <1>1, <1>3, <1>4, RangerKept DEF AM2305Sleep
<1>6. Counting'
  BY <1>1, <1>3, <1>4 DEF AM2305Sleep, IInv, Thermometer, Counting, Switches, Unmasked, InPend
<1>7. Counted' /\ Clean'
  BY <1>4 DEF AM2305Sleep, IInv, Thermometer, Counted, Cnt, Clean
<1> QED
  BY <1>2, <1>5, <1>6, <1>7 DEF IInv, Thermometer, Leaves

-----------------------------------------------------------------------------
(* The edges of the answer, and those of no answer.                           *)

\* What an edge that is counted leaves of the kernel.
EdgeLeaves ==
    /\ Steady(os)' /\ os'.tcb[SR04Task] = os.tcb[SR04Task]
    /\ os'.ev[SR04CommMbox] = os.ev[SR04CommMbox]
    /\ os'.tcb[AM2305Task].EventPtr = os.tcb[AM2305Task].EventPtr
    /\ "SUSPEND" \in os'.tcb[AM2305Task].Stat <=> "SUSPEND" \in os.tcb[AM2305Task].Stat

\* The last edge finds vTask2305 in its pend, or the semaphore empty.
LEMMA LastEdge ==
    ASSUME IInv, EXTI0, Spaced, EXTI_LINE0_FLAG + 1 = Edges, os' = EdgePost(os)
    PROVE  /\ EdgeLeaves /\ pcA \in {"boot", "pended", "check", "reset"}
           /\ (pcA = "pended" => Cnt' = 0)
           /\ (pcA # "pended" => ended # "posted" /\ Cnt' \in 0 .. SemMax /\ Cnt' <= 1)
<1> DEFINE t == AM2305Task
           e == AM2305Sem
           b == Answered(os.tcb[t], None, "SEM", "OK")
<1>1. /\ Steady(os) /\ t \in Task /\ e \in Event /\ SR04Task \in Task \ {t}
      /\ SR04CommMbox \in Event \ {e} /\ os.tcb[t] \in TCB(Vals) /\ os.ev[e] \in ECB(Vals)
  BY Priorities DEF IInv, Steady, Sound, KernelState
<1>2. EXTI_LINE0_FLAG \in Nat /\ Edges \in Nat /\ Edges > 2
  BY AM2305Assumption DEF IInv, Thermometer, Counting
<1>3. pcA \in {"boot", "pended", "check", "reset"}
  <2>1. pcA \in Unmasked
    BY DEF IInv, Thermometer, Counting, Switches
  <2> QED
    BY <1>2, <2>1 DEF Spaced, Unmasked
<1>4. ~(EXTI_LINE0_FLAG >= Edges)
  BY <1>2
<1>5. os.ev[e].Tbl # {} <=> pcA = "pended"
  <2>1. os.ev[e].Tbl # {} => pcA = "pended"
    BY <1>1, CoreAssumption DEF IInv, Thermometer, Counting, InPend, Steady, Sound, PendA, PendOf
  <2>2. pcA = "pended" => os.ev[e].Tbl # {}
    BY <1>4 DEF IInv, Thermometer, Counted
  <2> QED
    BY <2>1, <2>2
<1>6. Cnt = 0
  BY <1>3, <1>4 DEF IInv, Thermometer, Counted
<1>7. CASE pcA = "pended"
  <2>1. Leaves(os', os, t, b, [os.ev EXCEPT ![e] = Left(os.ev[e], TASK_AM2305_PRIO)])
    BY <1>1, <1>5, <1>7, EdgePosted
  <2>2. b.EventPtr = os.tcb[t].EventPtr /\ b.Stat = os.tcb[t].Stat \ {"SEM"}
    BY <1>1 DEF Answered, TCB
  <2> HIDE DEF b
  <2>3. Left(os.ev[e], TASK_AM2305_PRIO).Cnt = os.ev[e].Cnt
    BY <1>1 DEF Left, ECB
  <2>4. os'.tcb[t] = b /\ os'.tcb[SR04Task] = os.tcb[SR04Task] /\ Steady(os')
    BY <1>1, <2>1 DEF Leaves, Steady, Sound, KernelState
  <2>5. /\ os'.ev[e] = Left(os.ev[e], TASK_AM2305_PRIO)
        /\ os'.ev[SR04CommMbox] = os.ev[SR04CommMbox]
    BY <1>1, <2>1 DEF Leaves, Steady, Sound, KernelState
  <2>6. EdgeLeaves
    BY <2>2, <2>4, <2>5 DEF EdgeLeaves
  <2> QED
    BY <1>3, <1>6, <1>7, <2>3, <2>5, <2>6 DEF Cnt
<1>8. CASE pcA # "pended"
  <2>1. ended # "posted"
    BY <1>3, <1>4, <1>8 DEF IInv, Thermometer, Counted
  <2>2. CASE os.ev[e].Cnt >= SemMax
    <3>1. Leaves(os', os, t, os.tcb[t], os.ev)
      BY <1>1, <1>5, <1>8, <2>2, EdgePosted
    <3>2. os'.tcb = os.tcb /\ os'.ev = os.ev /\ Steady(os')
      BY <1>1, <3>1 DEF Leaves, Steady, Sound, KernelState
    <3> QED
      BY <1>3, <1>6, <1>8, <2>1, <3>2, SemAssumption DEF EdgeLeaves, Cnt
  <2>3. CASE ~(os.ev[e].Cnt >= SemMax)
    <3>1. Leaves(os', os, t, os.tcb[t], [os.ev EXCEPT ![e] = OneMore(os)])
      BY <1>1, <1>5, <1>8, <2>3, EdgePosted
    <3>2. OneMore(os).Cnt = 1 /\ 1 \in 0 .. SemMax
      BY <1>1, <1>6, <2>3, SemAssumption DEF OneMore, WithCnt, ECB, Cnt
    <3>3. os'.tcb = os.tcb /\ Steady(os')
      BY <1>1, <3>1 DEF Leaves, Steady, Sound, KernelState
    <3>4. os'.ev[e] = OneMore(os) /\ os'.ev[SR04CommMbox] = os.ev[SR04CommMbox]
      BY <1>1, <3>1 DEF Leaves, Steady, Sound, KernelState
    <3>5. EdgeLeaves
      BY <3>3, <3>4 DEF EdgeLeaves
    <3>6. Cnt' = 1
      BY <3>2, <3>4 DEF Cnt
    <3> QED
      BY <1>3, <1>8, <2>1, <3>2, <3>5, <3>6
  <2> QED
    BY <2>2, <2>3
<1> QED
  BY <1>7, <1>8

\* Any other calls nothing.
LEMMA OtherEdge ==
    ASSUME IInv, os' = OSIntExit(OSIntEnter(os))
    PROVE  EdgeLeaves /\ os'.ev = os.ev
<1>1. Steady(os) /\ AM2305Task \in Task
  BY Priorities DEF IInv
<1>2. Leaves(os', os, AM2305Task, os.tcb[AM2305Task], os.ev)
  BY <1>1, NothingHandled
<1>3. os'.tcb = os.tcb /\ os'.ev = os.ev /\ Steady(os')
  BY <1>1, <1>2 DEF Leaves, Steady, Sound, KernelState
<1> QED
  BY <1>3 DEF EdgeLeaves

\* How many edges of an answer have gone is a number.
LEMMA GoneNat ==
    ASSUME NEW a \in 0 .. Edges
    PROVE  GoneOf(a) \in Nat
  BY AM2305Assumption DEF GoneOf

\* One more edge counted, one more that may be.
LEMMA OneMoreEdge ==
    ASSUME NEW f \in Nat, NEW c \in Nat, NEW m \in Nat, NEW g \in Nat, NEW m2 \in Nat,
           NEW h \in Nat, f <= c + m + g, m2 + h = m + g + 1
    PROVE  f + 1 <= c + m2 + h
  OBVIOUS

\* An edge that is counted, of either kind: one more has gone, or was not sent.
LEMMA EdgeCounted ==
    ASSUME IInv, EXTI0, Spaced, NEW edge \in 0 .. Foreign, vtask2305Handle(edge),
           UNCHANGED <<pcA, EXTI0, reading, ended, carried>>, UNCHANGED <<vS, ticked>>,
           answer' \in 0 .. Edges, noise' \in Nat, noise' + Gone' = noise + Gone + 1,
           pcA = "boot" => answer' = 0 /\ noise' = noise + 1
    PROVE  Steady(os)' /\ Ranger' /\ Counting' /\ Counted'
<1> DEFINE n == EXTI_LINE0_FLAG + 1
<1>1. /\ EXTI_LINE0_FLAG \in Nat /\ Edges \in Nat /\ Edges > 2 /\ noise \in Nat /\ carried \in Nat
      /\ THBuff \in [1 .. BuffLen - 1 -> 0 .. Foreign] /\ n \in Nat \ {0} /\ pcA \in Unmasked
  BY AM2305Assumption DEF IInv, Thermometer, Counting, Switches
<1>2. EXTI_LINE0_FLAG' = n
  BY DEF vtask2305Handle
<1>3. THBuff' \in [1 .. BuffLen - 1 -> 0 .. Foreign]
  <2>1. 0 \in 0 .. Foreign
    BY <1>1 DEF Foreign
  <2> QED
    BY <1>1, <2>1 DEF vtask2305Handle, Frozen
<1>4. n = Edges => os' = EdgePost(os)
  BY DEF vtask2305Handle, Leave, EdgePost
<1>5. n # Edges => os' = OSIntExit(OSIntEnter(os))
  BY DEF vtask2305Handle, Leave
<1>6. EdgeLeaves
  BY <1>4, <1>5, LastEdge, OtherEdge
<1>7. Ranger'
  BY <1>6, RangerSame DEF IInv, EdgeLeaves
<1>8. Switches'
  <2>1. TIM3' \in BOOLEAN
    BY DEF vtask2305Handle
  <2> QED
    BY <2>1 DEF IInv, Thermometer, Counting, Switches
<1>9. Counting'
  <2>1. Gone \in Nat /\ Gone' \in Nat
    <3>1. answer \in 0 .. Edges /\ answer' \in 0 .. Edges
      BY DEF IInv, Thermometer, Counting
    <3>2. Gone \in Nat
      BY <3>1, GoneNat DEF Gone
    <3>3. Gone' \in Nat
      BY <3>1, GoneNat DEF Gone
    <3> QED
      BY <3>2, <3>3
  <2>2. pcA = "boot" => EXTI_LINE0_FLAG <= noise
    BY DEF IInv, Thermometer, Counting
  <2>3. pcA = "boot" => n <= noise'
    BY <1>1, <2>2
  <2>4. pcA = "mask" => n <= 1
    BY <1>1 DEF Spaced
  <2>5. pcA \in {"pend", "pended", "check", "reset"} =>
          EXTI_LINE0_FLAG <= carried + noise + Gone
    BY DEF IInv, Thermometer, Counting
  <2>6. pcA \in {"pend", "pended", "check", "reset"} => n <= carried + noise' + Gone'
    <3> DEFINE g == Gone
               h == Gone'
    <3>1. g \in Nat /\ h \in Nat /\ noise' \in Nat /\ noise' + h = noise + g + 1
      BY <2>1
    <3>2. pcA \in {"pend", "pended", "check", "reset"} => EXTI_LINE0_FLAG <= carried + noise + g
      BY <2>5
    <3> HIDE DEF g, h
    <3>3. EXTI_LINE0_FLAG <= carried + noise + g => n <= carried + noise' + h
      BY <1>1, <3>1, OneMoreEdge
    <3>4. pcA \in {"pend", "pended", "check", "reset"} => n <= carried + noise' + h
      BY <3>2, <3>3
    <3> QED
      BY <3>4 DEF h
  <2>7. pcA' = "pended" <=> InPend(os, AM2305Task)'
    BY <1>6 DEF IInv, Thermometer, Counting, EdgeLeaves, InPend
  <2> QED
    BY <1>1, <1>2, <1>3, <1>8, <2>3, <2>4, <2>6, <2>7 DEF Counting, Unmasked
<1>10. Counted'
  <2>1. CASE n = Edges
    <3>1. /\ pcA \in {"boot", "pended", "check", "reset"} /\ (pcA = "pended" => Cnt' = 0)
          /\ (pcA # "pended" => ended # "posted" /\ Cnt' \in 0 .. SemMax /\ Cnt' <= 1)
      BY <1>4, <2>1, LastEdge
    <3>2. EXTI_LINE0_FLAG' >= Edges /\ 0 \in 0 .. SemMax
      BY <1>1, <1>2, <2>1, SemAssumption
    <3> QED
      BY <3>1, <3>2 DEF Counted
  <2>2. CASE n # Edges
    <3>1. os'.ev = os.ev
      BY <1>5, <2>2, OtherEdge
    <3>2. Cnt' = Cnt
      BY <3>1 DEF Cnt
    <3>3. EXTI_LINE0_FLAG >= Edges => EXTI_LINE0_FLAG' >= Edges
      BY <1>1, <1>2
    <3> QED
      BY <3>1, <3>2, <3>3 DEF IInv, Thermometer, Counted
  <2> QED
    BY <2>1, <2>2
<1> QED
  BY <1>6, <1>7, <1>9, <1>10 DEF EdgeLeaves

LEMMA NoiseEdgeKeeps ==
    ASSUME IInv, NoiseEdge, UNCHANGED <<vS, ticked>>
    PROVE  IInv'
<1>1. /\ answer \in 0 .. Edges /\ noise \in Nat /\ Edges \in Nat /\ Foreign \in 0 .. Foreign
      /\ (pcA = "boot" => answer = 0)
  BY AM2305Assumption DEF IInv, Thermometer, Counting, Foreign
<1>2. answer' = answer /\ noise' = noise + 1 /\ EXTI0 /\ Spaced /\ vtask2305Handle(Foreign)
  BY DEF NoiseEdge
<1>3. Gone' = Gone /\ Gone \in Nat
  BY <1>1, <1>2 DEF Gone, GoneOf
<1>4. noise' \in Nat /\ noise' + Gone' = noise + Gone + 1
  BY <1>1, <1>2, <1>3
<1>5. UNCHANGED <<pcA, EXTI0, reading, ended, carried>>
  BY DEF NoiseEdge
<1>6. Steady(os)' /\ Ranger' /\ Counting' /\ Counted'
  BY <1>1, <1>2, <1>4, <1>5, EdgeCounted
<1>7. Clean'
  <2>1. noise' # 0
    BY <1>1, <1>2
  <2> QED
    BY <1>5, <2>1 DEF IInv, Thermometer, Clean
<1> QED
  BY <1>6, <1>7 DEF IInv, Thermometer

LEMMA SensorEdgeKeeps ==
    ASSUME IInv, SensorEdge, UNCHANGED <<vS, ticked>>
    PROVE  IInv'
<1>1. /\ answer \in 1 .. Edges /\ noise \in Nat /\ Edges \in Nat /\ Edges > 2 /\ pcA # "boot"
      /\ EXTI_LINE0_FLAG \in Nat
  BY AM2305Assumption DEF SensorEdge, IInv, Thermometer, Counting
<1>2. /\ answer' = (IF answer = Edges THEN 0 ELSE answer + 1)
      /\ UNCHANGED <<pcA, EXTI0, reading, ended, noise, carried>>
  BY DEF SensorEdge
<1>3. answer' \in 0 .. Edges /\ Gone = answer - 1 /\ Gone' = answer
  BY <1>1, <1>2 DEF Gone, GoneOf
<1>4. CASE EXTI0
  <2>1. Spaced /\ vtask2305Handle(answer)
    BY <1>4 DEF SensorEdge
  <2>2. noise' \in Nat /\ noise' + Gone' = noise + Gone + 1 /\ answer \in 0 .. Foreign
    BY <1>1, <1>2, <1>3 DEF Foreign
  <2>3. Steady(os)' /\ Ranger' /\ Counting' /\ Counted'
    BY <1>1, <1>2, <1>3, <1>4, <2>1, <2>2, EdgeCounted
  <2>4. Clean'
    <3>1. SUFFICES ASSUME Undisturbing PROVE Undisturbing'
      BY <1>2 DEF IInv, Thermometer, Clean
    <3>2. EXTI_LINE0_FLAG + 1 = answer /\ EXTI_LINE0_FLAG' = answer
      BY <1>1, <2>1, <3>1 DEF Undisturbing, vtask2305Handle
    <3>3. TIM3 \/ EXTI_LINE0_FLAG + 1 = 1
      BY <1>1, <3>1, <3>2 DEF Undisturbing
    <3>4. THBuff' = [THBuff EXCEPT ![answer] = answer]
      <4>1. answer < BuffLen
        BY <1>1 DEF BuffLen
      <4>2. THBuff' = IF answer < BuffLen
                      THEN [THBuff EXCEPT ![answer] = IF TIM3 \/ EXTI_LINE0_FLAG + 1 = 1
                                                      THEN answer ELSE Frozen] ELSE THBuff
        BY <2>1, <3>2 DEF vtask2305Handle
      <4> QED
        BY <3>3, <4>1, <4>2
    <3>5. \A i \in 1 .. EXTI_LINE0_FLAG' : THBuff'[i] = i
      <4>1. \A i \in 1 .. EXTI_LINE0_FLAG : THBuff[i] = i
        BY <3>1 DEF Undisturbing
      <4>2. THBuff \in [1 .. BuffLen - 1 -> 0 .. Foreign]
        BY DEF IInv, Thermometer, Counting
      <4> QED
        BY <1>1, <3>2, <3>4, <4>1, <4>2 DEF BuffLen
    <3>6. EXTI_LINE0_FLAG' \in 1 .. Edges - 1 => TIM3'
      <4>1. TIM3' = ((TIM3 \/ EXTI_LINE0_FLAG + 1 = 1) /\ EXTI_LINE0_FLAG + 1 # Edges)
        BY <2>1 DEF vtask2305Handle
      <4>2. EXTI_LINE0_FLAG' \in 1 .. Edges - 1 => EXTI_LINE0_FLAG + 1 # Edges
        BY <1>1, <3>2
      <4> QED
        BY <3>3, <4>1, <4>2
    <3>7. /\ answer' > 0 => EXTI_LINE0_FLAG' = answer' - 1
          /\ answer' = 0 => EXTI_LINE0_FLAG' \in {0, Edges}
      BY <1>1, <1>2, <3>2
    <3> QED
      BY <3>5, <3>6, <3>7 DEF Undisturbing
  <2> QED
    BY <2>3, <2>4 DEF IInv, Thermometer
<1>5. CASE ~EXTI0
  <2>1. UNCHANGED <<os, EXTI_LINE0_FLAG, THBuff, TIM3>>
    BY <1>5 DEF SensorEdge
  <2>2. pcA \in {"start", "delay"}
    BY <1>5 DEF IInv, Thermometer, Counting, Switches
  <2>3. Steady(os)' /\ Ranger'
    BY <2>1, RangerSame DEF IInv
  <2>4. Switches'
    BY <1>2, <2>1 DEF IInv, Thermometer, Counting, Switches
  <2>5. Counting'
    BY <1>2, <1>3, <2>1, <2>2, <2>4 DEF IInv, Thermometer, Counting, InPend
  <2>6. Counted'
    BY <1>2, <2>1 DEF IInv, Thermometer, Counted, Cnt
  <2>7. Clean'
    BY <1>2, <2>2 DEF Clean
  <2> QED
    BY <2>3, <2>5, <2>6, <2>7 DEF IInv, Thermometer
<1> QED
  BY <1>4, <1>5

-----------------------------------------------------------------------------
(* Time.                                                                      *)

\* A task that is ready runs while vTaskSR04 measures, and the tick waits for it.
LEMMA ReadyRuns ==
    ASSUME Steady(os), Ranging, pcS \in Asked,
           os.tcb[SR04Task].Stat = {}, os.tcb[SR04Task].Dly = 0
    PROVE  Busy
<1>1. "SUSPEND" \in os.tcb[AM2305Task].Stat
  BY DEF Ranging, HeldWhileMeasuring, Asked
<1>2. Prio[SR04Task] \in os.Rdy
  BY Priorities DEF Steady, Sound, Listed
<1>3. os.PrioCur <= Prio[SR04Task] /\ os.PrioCur = Prio[os.Cur]
  BY <1>2 DEF Steady, Sound, Listed, Runner
<1> QED
  BY <1>3, Priorities DEF Busy

\* What a tick makes of a control block.
LEMMA TickedFields ==
    ASSUME NEW b \in TCB(Vals)
    PROVE  LET x == Ticked(b)
           IN  /\ x.EventPtr = b.EventPtr
               /\ b.Dly # 1 => x.Stat = b.Stat
               /\ b.Dly = 1 => x.Stat = b.Stat \ PendAny
               /\ b.Dly > 0 => x.Dly = b.Dly - 1
               /\ b.Dly = 0 => x.Dly = 0
               /\ "SUSPEND" \in x.Stat <=> "SUSPEND" \in b.Stat
<1>1. b.Dly \in Nat
  BY DEF TCB
<1>2. CASE b.Dly = 1
  BY <1>2 DEF Ticked, Expired, TCB, PendAny
<1>3. CASE b.Dly > 1
  BY <1>3 DEF Ticked, TCB
<1>4. CASE b.Dly = 0
  BY <1>4 DEF Ticked, TCB
<1> QED
  BY <1>1, <1>2, <1>3, <1>4

LEMMA TickKeeps ==
    ASSUME IInv, Tick
    PROVE  IInv'
<1> DEFINE t == SR04Task
           b == os.tcb[t]
           x == os'.tcb[t]
<1>1. /\ Steady(os) /\ t \in Task /\ AM2305Task \in Task /\ b \in TCB(Vals)
      /\ SR04Ticks \in Nat /\ os.tcb[AM2305Task] \in TCB(Vals)
  BY Priorities, SR04Assumption DEF IInv, Steady, Sound, KernelState
<1>2. /\ UNCHANGED <<pcS, EXTI_LINE7_FLAG, pulse, sonar, fSR04Distance, age, queued, vA>>
      /\ TIM2' = (IF TIM2 = None THEN None ELSE TIM2 + 1)
      /\ echo' = (IF echo > 0 THEN echo - 1 ELSE 0) /\ ticked' = TRUE
  BY DEF Tick, SR04Time
<1>3. Steady(os') /\ os'.tcb = [u \in Task |-> Ticked(os.tcb[u])] /\ os'.ev = os.ev
  BY <1>1, TickSteady DEF Tick, SysTick, Leave
<1>4. /\ x.EventPtr = b.EventPtr
      /\ b.Dly # 1 => x.Stat = b.Stat
      /\ b.Dly = 1 => x.Stat = b.Stat \ PendAny
      /\ b.Dly > 0 => x.Dly = b.Dly - 1
      /\ b.Dly = 0 => x.Dly = 0
  <2>1. x = Ticked(b)
    BY <1>1, <1>3
  <2> HIDE DEF b, x
  <2> QED
    BY <1>1, <2>1, TickedFields
<1>5. /\ os'.tcb[AM2305Task].EventPtr = os.tcb[AM2305Task].EventPtr
      /\ "SUSPEND" \in os'.tcb[AM2305Task].Stat <=> "SUSPEND" \in os.tcb[AM2305Task].Stat
  <2>1. os'.tcb[AM2305Task] = Ticked(os.tcb[AM2305Task])
    BY <1>1, <1>3
  <2> QED
    BY <1>1, <2>1, TickedFields
<1> HIDE DEF b, x
<1>6. b.Dly \in Nat /\ ("MBOX" \in b.Stat => b.Dly > 0)
  BY <1>1 DEF b, TCB, IInv, Ranger, Ranging
<1>7. "MBOX" \in x.Stat => "MBOX" \in b.Stat /\ b.Dly > 1 /\ x.Dly = b.Dly - 1
  BY <1>4, <1>6 DEF PendAny
<1>8. Thermometer'
  BY <1>2, <1>3, <1>5, ThermometerSame DEF IInv
<1>9. Ranging'
  <2>1. pcS' = "pended" <=> InPend(os, t)'
    BY <1>2, <1>4 DEF b, x, IInv, Ranger, Ranging, InPend
  <2>2. pcS \notin {"pended", "suspend"} => x.Stat = {} /\ x.Dly = 0
    BY <1>4, <1>6 DEF b, IInv, Ranger, Ranging
  <2>3. HeldWhileMeasuring'
    BY <1>2, <1>5 DEF IInv, Ranger, Ranging, HeldWhileMeasuring
  <2>4. "MBOX" \in x.Stat => x.Dly > 0
    BY <1>6, <1>7
  <2> QED
    BY <1>2, <2>1, <2>2, <2>3, <2>4 DEF x, IInv, Ranger, Ranging
<1>10. EXTI_LINE7_FLAG = 1 => TIM2 \in Nat /\ TIM2' \in Nat /\ TIM2' <= TIM2 + 1
  BY <1>2 DEF IInv, Ranger, SonarRight
<1>11. SonarRight'
  <2>1. TIM2' = None \/ TIM2' \in Nat
    BY <1>2 DEF IInv, Ranger, SonarRight
  <2>2. echo' \in Nat
    BY <1>2 DEF IInv, Ranger, SonarRight
  <2> QED
    BY <1>2, <1>10, <2>1, <2>2 DEF IInv, Ranger, SonarRight
<1>12. InTime'
  <2>1. pcS = "pend" /\ EXTI_LINE7_FLAG = 1 => TIM2' <= 1
    <3>1. SUFFICES ASSUME pcS = "pend", EXTI_LINE7_FLAG = 1 PROVE TIM2' <= 1
      OBVIOUS
    <3>2. Busy
      BY <1>1, <3>1, ReadyRuns DEF IInv, Ranger, Ranging, Asked
    <3>3. ~ticked
      BY <3>2 DEF Tick
    <3>4. TIM2 <= 0
      BY <3>1, <3>3 DEF IInv, Ranger, InTime
    <3> QED
      BY <1>10, <3>1, <3>4
  <2>2. pcS = "pended" /\ "MBOX" \in x.Stat => WaitsInTime'
    <3>1. SUFFICES ASSUME pcS = "pended", "MBOX" \in x.Stat PROVE WaitsInTime'
      OBVIOUS
    <3>2. /\ b.Dly <= SR04Ticks
          /\ EXTI_LINE7_FLAG = 1 => TIM2 + b.Dly <= SR04Ticks + 1
      BY <1>7, <3>1 DEF b, IInv, Ranger, InTime, WaitsInTime
    <3>3. /\ x.Dly <= SR04Ticks
          /\ EXTI_LINE7_FLAG = 1 => TIM2' + x.Dly <= SR04Ticks + 1
      BY <1>1, <1>6, <1>7, <1>10, <3>1, <3>2
    <3> QED
      BY <1>2, <3>3 DEF x, WaitsInTime
  <2>3. pcS = "pended" /\ "MBOX" \notin x.Stat => WokenInTime'
    <3>1. SUFFICES ASSUME pcS = "pended", "MBOX" \notin x.Stat PROVE WokenInTime'
      OBVIOUS
    <3>2. ticked'
      BY <1>2
    <3>3. CASE "MBOX" \in b.Stat
      <4>1. b.Dly = 1
        BY <1>4, <3>1, <3>3
      <4>2. EXTI_LINE7_FLAG = 1 => TIM2 + 1 <= SR04Ticks + 1
        BY <3>1, <3>3, <4>1 DEF b, IInv, Ranger, InTime, WaitsInTime
      <4>3. EXTI_LINE7_FLAG = 1 => TIM2' <= SR04Ticks + 1
        BY <1>1, <1>10, <4>2
      <4> QED
        BY <1>2, <3>2, <4>3 DEF WokenInTime
    <3>4. CASE "MBOX" \notin b.Stat
      <4>1. InPend(os, t)
        BY <3>1 DEF IInv, Ranger, Ranging
      <4>2. b.Stat = {} /\ b.Dly = 0
        BY <1>1, <3>4, <4>1 DEF b, Steady, Sound, PendS, PendOf, InPend
      <4>3. Busy
        BY <1>1, <3>1, <4>2, ReadyRuns DEF b, IInv, Ranger, Asked
      <4>4. ~ticked
        BY <4>3 DEF Tick
      <4>5. EXTI_LINE7_FLAG = 0
        BY <3>1, <3>4, <4>4 DEF b, IInv, Ranger, InTime, WokenInTime
      <4>6. EXTI_LINE7_FLAG' = 0
        BY <1>2, <4>5
      <4> QED
        BY <4>6 DEF WokenInTime
    <3> QED
      BY <3>3, <3>4
  <2>4. ticked' /\ ticked' \in BOOLEAN
    BY <1>2
  <2> QED
    BY <1>2, <2>1, <2>2, <2>3, <2>4 DEF x, InTime
<1>13. Fresh'
  BY <1>2, <1>3 DEF IInv, Ranger, Fresh, Posted
<1> QED
  BY <1>3, <1>8, <1>9, <1>11, <1>12, <1>13 DEF IInv, Ranger

-----------------------------------------------------------------------------
(* The initial state, and every step.                                         *)

\* Before the first delay vTask2305, the most urgent task, runs.
LEMMA StartSteady ==
    LET k == OSStart(Prio, Created)
    IN  /\ Steady(k) /\ k.Cur = AM2305Task /\ k.ev = Created
        /\ k.tcb = [t \in Task |-> NewTCB(Prio[t])]
<1> DEFINE k == OSStart(Prio, Created)
           P == {Prio[t] : t \in Task}
<1>1. DOMAIN Prio = Task
  BY DEF Prio
<1>2. P \in SUBSET Nat /\ TASK_AM2305_PRIO \in P /\ \A q \in P : TASK_AM2305_PRIO <= q
  BY Priorities
<1>3. Highest(P) = TASK_AM2305_PRIO
  <2> HIDE DEF P
  <2> DEFINE h == Highest(P)
  <2>1. h \in P /\ \A q \in P : h <= q
    BY <1>2, HighestIs
  <2> HIDE DEF h
  <2>2. h \in Nat /\ TASK_AM2305_PRIO \in Nat /\ h <= TASK_AM2305_PRIO
        /\ TASK_AM2305_PRIO <= h
    BY <1>2, <2>1
  <2>3. h = TASK_AM2305_PRIO
    BY <2>2
  <2> QED
    BY <2>3 DEF h
<1>4. \A t \in Task : (CHOOSE u \in Task : Prio[u] = Prio[t]) = t
  BY Priorities
<1>5. (CHOOSE u \in Task : Prio[u] = TASK_AM2305_PRIO) = AM2305Task
  BY <1>4, Priorities
<1>6. /\ k.tcb = [t \in Task |-> NewTCB(Prio[t])]
      /\ k.PrioTbl = [p \in Prios |-> IF \E t \in Task : Prio[t] = p
                                      THEN CHOOSE t \in Task : Prio[t] = p ELSE None]
      /\ k.Rdy = P /\ k.ev = Created /\ k.Cur = AM2305Task /\ k.PrioCur = TASK_AM2305_PRIO
      /\ k.IntNesting = 0 /\ k.LockNesting = 0
      /\ k = [tcb |-> k.tcb, PrioTbl |-> k.PrioTbl, Rdy |-> k.Rdy, ev |-> k.ev, Cur |-> k.Cur,
              PrioCur |-> k.PrioCur, IntNesting |-> 0, LockNesting |-> 0]
  BY <1>1, <1>3, <1>5 DEF OSStart
<1> HIDE DEF k
<1>7. \A t \in Task : NewTCB(Prio[t]) \in TCB(Vals)
  BY Priorities DEF NewTCB, TCB, Vals, Stats
<1>8. Created \in [Event -> ECB(Vals)]
  BY Priorities DEF Created, OSMboxCreate, OSSemCreate, ECB, Vals
<1>9. k.PrioTbl \in [Prios -> Task \cup {None, Reserved}]
  <2>1. ASSUME NEW p \in Prios
        PROVE  (IF \E t \in Task : Prio[t] = p THEN CHOOSE t \in Task : Prio[t] = p ELSE None)
                 \in Task \cup {None, Reserved}
    OBVIOUS
  <2> QED
    BY <1>6, <2>1
<1>10. P \subseteq Prios
  BY Priorities
<1>11. k \in KernelState(Vals)
  <2>1. k.tcb \in [Task -> TCB(Vals)]
    BY <1>6, <1>7
  <2>2. k.Cur \in Task /\ k.PrioCur \in Prios
    BY <1>6, Priorities
  <2> QED
    BY <1>6, <1>8, <1>9, <1>10, <2>1, <2>2 DEF KernelState
<1>12. Listed(k)
  <2>1. ASSUME NEW t \in Task PROVE k.PrioTbl[Prio[t]] = t
    BY <1>4, <1>6, Priorities
  <2>2. ASSUME NEW t \in Task
        PROVE  /\ k.tcb[t].Prio = Prio[t] /\ k.tcb[t].Stat = {} /\ k.tcb[t].Dly = 0
    BY <1>6 DEF NewTCB
  <2> QED
    BY <1>6, <2>1, <2>2, Priorities DEF Listed
<1>13. \A e \in Event : k.ev[e].Tbl = {}
  BY <1>6 DEF Created, OSMboxCreate, OSSemCreate
<1>14. \A t \in Task : k.tcb[t].Stat = {} /\ k.tcb[t].EventPtr = None
  BY <1>6 DEF NewTCB
<1>15. Sound(k)
  BY <1>11, <1>12, <1>13, <1>14, Priorities, CoreAssumption DEF Sound, PendS, PendA, PendOf
<1>16. MayPend(k) /\ Runner(k)
  BY <1>2, <1>6 DEF MayPend, Runner
<1> QED
  BY <1>6, <1>15, <1>16 DEF Steady, k

LEMMA InitInvariant == Init => IInv
<1> SUFFICES ASSUME Init PROVE IInv
  OBVIOUS
<1> DEFINE k == OSStart(Prio, Created)
           t == AM2305Task
           b == Delayed(k.tcb[t], AM2305Delay)
<1>1. /\ Steady(k) /\ k.Cur = t /\ k.ev = Created
      /\ k.tcb = [u \in Task |-> NewTCB(Prio[u])]
  BY StartSteady
<1>2. os = OSTimeDly(k, AM2305Delay)
  BY DEF Init
<1> HIDE DEF k
<1>3. /\ t \in Task /\ SR04Task \in Task \ {t} /\ k.tcb[t] = NewTCB(Prio[t])
      /\ k.tcb[SR04Task] = NewTCB(Prio[SR04Task]) /\ ~InPend(k, t)
  <2>1. t \in Task /\ SR04Task \in Task \ {t}
    BY Priorities
  <2> QED
    BY <1>1, <2>1 DEF InPend, NewTCB
<1>4. Leaves(os, k, t, b, k.ev)
  BY <1>1, <1>2, <1>3, DelaySteady, AM2305Assumption
<1>5. b.EventPtr = None /\ b.Stat = {}
  BY <1>3 DEF Delayed, NewTCB
<1> HIDE DEF b
<1>6. os.tcb[t] = b /\ os.tcb[SR04Task] = NewTCB(Prio[SR04Task]) /\ os.ev = Created
  BY <1>1, <1>3, <1>4 DEF Leaves
<1>7. os.ev[SR04CommMbox].Ptr = None /\ os.ev[AM2305Sem].Cnt = 0
  BY <1>6, Priorities DEF Created, OSMboxCreate, OSSemCreate
<1>8. SR04Init /\ AM2305Init /\ ticked = FALSE
  BY DEF Init
<1>9. Ranging
  BY <1>5, <1>6, <1>8 DEF Ranging, SR04Init, HeldWhileMeasuring, InPend, NewTCB, Asked
<1>10. SonarRight
  <2>1. queued \in BOOLEAN
    BY <1>8 DEF SR04Init
  <2>2. pulse \in [ticks : Nat, age : 0 .. 2] /\ pulse.age = 2 /\ age = 2
    BY <1>8 DEF SR04Init, NoPulse
  <2> QED
    BY <1>8, <2>1, <2>2 DEF SonarRight, SR04Init
<1>11. InTime
  <2>1. ticked \in BOOLEAN
    BY <1>8
  <2> QED
    BY <1>8, <2>1 DEF InTime, SR04Init
<1>12. Fresh
  BY <1>7, <1>8 DEF Fresh, Posted, SR04Init
<1>13. Counting
  <2>1. Switches
    BY <1>8 DEF Switches, AM2305Init, Unmasked
  <2>2. THBuff \in [1 .. BuffLen - 1 -> 0 .. Foreign]
    BY <1>8, AM2305Assumption DEF AM2305Init, Frozen, Foreign
  <2> QED
    BY <1>5, <1>6, <1>8, <2>1, <2>2, AM2305Assumption DEF Counting, AM2305Init, Unmasked, InPend
<1>14. Counted /\ Clean
  BY <1>7, <1>8, SemAssumption DEF Counted, Cnt, Clean, AM2305Init
<1> QED
  BY <1>4, <1>9, <1>10, <1>11, <1>12, <1>13, <1>14 DEF IInv, Ranger, Thermometer, Leaves

LEMMA StutterKeeps ==
    ASSUME IInv, UNCHANGED vars
    PROVE  IInv'
<1>1. Steady(os)' /\ Ranger'
  BY RangerSame DEF IInv, vars
<1>2. Thermometer'
  BY ThermometerSame DEF IInv, vars
<1> QED
  BY <1>1, <1>2 DEF IInv

LEMMA NextInvariant == IInv /\ [Next]_vars => IInv'
<1> SUFFICES ASSUME IInv, [Next]_vars PROVE IInv'
  OBVIOUS
<1>1. CASE SR04Step /\ UNCHANGED vA /\ ticked' = FALSE
  <2>1. CASE SR04Suspend
    BY <1>1, <2>1, SR04SuspendKeeps
  <2>2. CASE SR04Trigger
    BY <1>1, <2>2, SR04TriggerKeeps
  <2>3. CASE SR04Pend
    BY <1>1, <2>3, SR04PendKeeps
  <2>4. CASE SR04PendReturns
    BY <1>1, <2>4, SR04PendReturnsKeeps
  <2>5. CASE SR04Resume
    BY <1>1, <2>5, SR04ResumeKeeps
  <2>6. CASE SR04Read
    BY <1>1, <2>6, SR04ReadKeeps
  <2>7. CASE SR04Sleep
    BY <1>1, <2>7, SR04SleepKeeps
  <2> QED
    BY <1>1, <2>1, <2>2, <2>3, <2>4, <2>5, <2>6, <2>7 DEF SR04Step
<1>2. CASE AM2305Step /\ UNCHANGED vS /\ ticked' = FALSE
  <2>1. CASE AM2305Boot
    BY <1>2, <2>1, AM2305BootKeeps
  <2>2. CASE AM2305Start
    BY <1>2, <2>2, AM2305StartKeeps
  <2>3. CASE AM2305Pend
    BY <1>2, <2>3, AM2305PendKeeps
  <2>4. CASE AM2305PendReturns
    BY <1>2, <2>4, AM2305PendReturnsKeeps
  <2>5. CASE AM2305Check
    BY <1>2, <2>5, AM2305CheckKeeps
  <2>6. CASE AM2305Reset
    BY <1>2, <2>6, AM2305ResetKeeps
  <2>7. CASE AM2305Mask
    BY <1>2, <2>7, AM2305MaskKeeps
  <2>8. CASE AM2305Sleep
    BY <1>2, <2>8, AM2305SleepKeeps
  <2> QED
    BY <1>2, <2>1, <2>2, <2>3, <2>4, <2>5, <2>6, <2>7, <2>8 DEF AM2305Step
<1>3. CASE Echo
  BY <1>3, EchoRisesKeeps, EchoFallsKeeps DEF Echo
<1>4. CASE Answer
  BY <1>4, SensorEdgeKeeps, NoiseEdgeKeeps DEF Answer
<1>5. CASE Tick
  BY <1>5, TickKeeps
<1>6. CASE UNCHANGED vars
  BY <1>6, StutterKeeps
<1>7. CASE Tasks
  BY <1>1, <1>2, <1>7 DEF Tasks
<1> QED
  BY <1>3, <1>4, <1>5, <1>6, <1>7 DEF Next

-----------------------------------------------------------------------------
(* What follows from it.                                                      *)

\* The kernel's tables, the age of the distance and the count of the edges are
\* right in every state, for every task set, time-out, delay and Noise.
THEOREM SensorsInvariant == Spec => []IInv
  BY InitInvariant, NextInvariant, PTL DEF Spec

\* Neither the other task nor a late or foreign edge spoils a measurement, and a
\* stamp past the end of THBuff takes an edge that the sensor did not send.
THEOREM SensorsUndisturbed == Spec => []Undisturbed
<1>1. IInv => Undisturbed
  <2> SUFFICES ASSUME IInv PROVE Undisturbed
    OBVIOUS
  <2>1. TypeOK
    <3>1. /\ os.Cur \in Task /\ os.IntNesting = 0 /\ os.LockNesting = 0
          /\ os.ev[SR04CommMbox].Ptr \in {None, PP}
      BY Priorities DEF IInv, Steady, Sound, MayPend, KernelState, ECB, Vals
    <3>2. os.ev[AM2305Sem].Cnt \in 0 .. SemMax
      BY DEF IInv, Thermometer, Counted, Cnt
    <3>3. /\ EXTI_LINE7_FLAG \in 0 .. 2 /\ fSR04Distance \in 0 .. 255
          /\ sonar \in {"quiet", "armed", "high"} /\ (TIM2 = None \/ TIM2 \in Nat)
      BY DEF IInv, Ranger, SonarRight
    <3>4. /\ EXTI_LINE0_FLAG \in Nat /\ answer \in 0 .. Edges
          /\ DOMAIN THBuff = 1 .. BuffLen - 1
      BY DEF IInv, Thermometer, Counting
    <3> QED
      BY <3>1, <3>2, <3>3, <3>4 DEF TypeOK
  <2>2. HeldWhileMeasuring
    BY DEF IInv, Ranger, Ranging
  <2>3. OneCount
    BY DEF IInv, Thermometer, Counted, Cnt, OneCount
  <2>4. StampsFit
    <3>1. SUFFICES ASSUME EXTI_LINE0_FLAG >= BuffLen PROVE noise > 0 \/ carried > 1
      BY DEF StampsFit
    <3>2. /\ EXTI_LINE0_FLAG \in Nat /\ Edges \in Nat /\ Edges > 2 /\ answer \in 0 .. Edges
          /\ noise \in Nat /\ carried \in Nat /\ EXTI_LINE0_FLAG >= Edges + 2
      BY <3>1, AM2305Assumption DEF IInv, Thermometer, Counting, BuffLen
    <3>3. CASE pcA \in {"boot", "start", "mask", "delay"}
      <4>1. EXTI_LINE0_FLAG <= 1 \/ EXTI_LINE0_FLAG <= noise
        BY <3>3 DEF IInv, Thermometer, Counting
      <4> QED
        BY <3>2, <4>1
    <3>4. CASE pcA \in {"pend", "pended", "check", "reset"}
      <4>1. EXTI_LINE0_FLAG <= carried + noise + Gone
        BY <3>4 DEF IInv, Thermometer, Counting
      <4>2. Gone \in Nat /\ Gone <= Edges
        BY <3>2 DEF Gone, GoneOf
      <4> QED
        BY <3>2, <4>1, <4>2
    <3> QED
      BY <3>3, <3>4 DEF IInv, Thermometer, Counting, Unmasked
  <2> QED
    BY <2>1, <2>2, <2>3, <2>4 DEF Undisturbed
<1> QED
  BY <1>1, SensorsInvariant, PTL

\* The time-out keeps out the echoes whose distance is more than a byte.
LEMMA DistanceFits ==
    ASSUME NEW n \in Nat, n <= SR04Ticks + 1
    PROVE  Distance(n) = Centimetres(n)
<1> DEFINE m == SR04Ticks + 2
           x == n * TickPulse * 340
           y == m * TickPulse * 340
<1>1. SR04Ticks \in Nat /\ TickPulse \in Nat /\ y \div 20000 < 256
  BY SR04Assumption
<1>2. m \in Nat /\ n <= m
  BY <1>1
<1> HIDE DEF m
<1>3. x \in Nat /\ y \in Nat /\ x <= y
  <2>1. m - n \in Nat
    BY <1>2
  <2>2. PICK d \in Nat : m = n + d
    BY <1>2, <2>1
  <2>3. m * TickPulse = n * TickPulse + d * TickPulse
    BY <1>1, <2>2
  <2>4. n * TickPulse \in Nat /\ d * TickPulse \in Nat /\ m * TickPulse \in Nat
    BY <1>1, <1>2
  <2> QED
    BY <2>3, <2>4
<1> HIDE DEF x, y
<1>4. x \div 20000 < 256 /\ x \div 20000 \in Nat
  BY <1>1, <1>3
<1>5. Centimetres(n) = x \div 20000
  BY DEF Centimetres, x
<1>6. (x \div 20000) % 256 = x \div 20000
  BY <1>4
<1> QED
  BY <1>5, <1>6 DEF Distance

\* The distance read is at most one trigger old, and, unless a message was
\* already queued, of this trigger and whole.
THEOREM SensorsDistanceFresh == Spec => DistanceFresh
<1>1. IInv /\ [Next]_vars =>
        [SR04Read => /\ age' <= 1
                     /\ ~queued => age' = 0 /\ fSR04Distance' = Centimetres(pulse.ticks)]_vars
  <2> SUFFICES ASSUME IInv, SR04Read
               PROVE  /\ age' <= 1
                      /\ ~queued => age' = 0 /\ fSR04Distance' = Centimetres(pulse.ticks)
    OBVIOUS
  <2>1. /\ IF queued THEN pulse.age <= 1 ELSE pulse.age = 0 /\ pulse.ticks <= SR04Ticks + 1
        /\ pulse.ticks \in Nat
    BY DEF IInv, Ranger, Fresh, SonarRight, SR04Read
  <2>2. fSR04Distance' = Distance(pulse.ticks) /\ age' = pulse.age
    BY DEF SR04Read
  <2>3. ~queued => Distance(pulse.ticks) = Centimetres(pulse.ticks)
    BY <2>1, DistanceFits
  <2> QED
    BY <2>1, <2>2, <2>3
<1> QED
  BY <1>1, SensorsInvariant, PTL DEF Spec, DistanceFresh

\* A reading is the sensor's, or none, unless an edge was counted that is no
\* edge of the answer.
THEOREM SensorsReading == Spec => ReadingIsSensors
<1>1. IInv /\ [Next]_vars =>
        [AM2305Check => reading' \in {"none", "sensor"} \/ carried > 0 \/ noise > 0]_vars
  <2> SUFFICES ASSUME IInv, AM2305Check, ~(carried > 0), ~(noise > 0)
               PROVE  reading' \in {"none", "sensor"}
    OBVIOUS
  <2>1. carried = 0 /\ noise = 0 /\ pcA = "check"
    BY DEF IInv, Thermometer, Counting, AM2305Check
  <2>2. reading = "none" /\ Undisturbing
    BY <2>1 DEF IInv, Thermometer, Clean
  <2>3. CASE EXTI_LINE0_FLAG = Edges
    <3>1. \A i \in 2 .. Edges : THBuff[i] = i
      BY <2>2, <2>3, AM2305Assumption DEF Undisturbing
    <3>2. 2 \in 2 .. Edges /\ THBuff[2] = 2
      BY <3>1, AM2305Assumption
    <3>3. Stamps # {Frozen}
      <4>1. 2 \in Stamps
        BY <3>2 DEF Stamps
      <4> QED
        BY <4>1 DEF Frozen
    <3>4. Decode
      BY <2>3 DEF AM2305Check
    <3> QED
      BY <3>1, <3>3, <3>4 DEF Decode
  <2>4. CASE EXTI_LINE0_FLAG # Edges
    BY <2>2, <2>4 DEF AM2305Check
  <2> QED
    BY <2>3, <2>4
<1> QED
  BY <1>1, SensorsInvariant, PTL DEF Spec, ReadingIsSensors
================================================================================
