-------------------------------- MODULE App_proofs --------------------------------
(* The tasks together, for every build, priorities in the order of app_cfg.h, *)
(* delays, flags and calendar: vTaskLIFT sleeps over no flag, replies are not *)
(* split, the clock is kept whole between vTaskComm, vTaskRTC and vTaskMSD,   *)
(* and no task runs below one that never sleeps.                              *)
EXTENDS App, OSCore_proofs

-----------------------------------------------------------------------------
(* The inductive invariant: the kernel's tables.                              *)

Vals == {None, Comm, RTC}

\* A task that has been created and not deleted; a task that is ready to run.
Exists(k, t) == k.PrioTbl[BasePrio[t]] = t
Free(b) == b.Stat = {} /\ b.Dly = 0

\* Only vTaskRTC is ever raised.
Raised(k) == k.PrioTbl[TASK_PIP_PRIO] = RTC
PrioOf(k, t) == IF t = RTC /\ Raised(k) THEN TASK_PIP_PRIO ELSE BasePrio[t]

Numbered(k) ==
    /\ \A t \in Task : IF Exists(k, t) THEN k.tcb[t].Prio = PrioOf(k, t)
                       ELSE k.PrioTbl[BasePrio[t]] = None /\ Free(k.tcb[t])
    /\ Exists(k, Idle) /\ k.PrioTbl[TASK_PIP_PRIO] \in {None, Reserved, RTC}
    /\ Raised(k) => Exists(k, RTC)

Listed(k) ==
    /\ \A t \in Task : Exists(k, t) => (PrioOf(k, t) \in k.Rdy <=> Free(k.tcb[t]))
    /\ k.Rdy \subseteq {PrioOf(k, t) : t \in {u \in Task : Exists(k, u)}}

\* What each task may wait or sleep for: vTaskLIFT for a flag, vTaskComm for the
\* mutex, both without a time-out; vTaskRTC and vTaskStepMotor for nothing.
WaitsOf(t) == IF t = Lift THEN {"FLAG"} ELSE IF t = Comm THEN {"MUTEX"} ELSE {}
CalmTask(t, b) ==
    /\ b.StatPend = "OK" /\ (t # Comm => b.EventPtr = None)
    /\ b.Stat \subseteq WaitsOf(t) /\ (b.Stat # {} => b.Dly = 0)
    /\ t \in {Idle, Step, RTC} => b.Dly = 0
Calm(k) == \A t \in Task : CalmTask(t, k.tcb[t])

\* The mutex: only vTaskComm waits for it, only for vTaskRTC, and that is raised
\* meanwhile.
Owner(k) == k.ev[RTCMutex].Ptr
Waits(k) == "MUTEX" \in k.tcb[Comm].Stat
Owned(k) ==
    /\ Owner(k) = None <=> Available(k, RTCMutex)
    /\ Owner(k) # None => /\ Exists(k, Owner(k)) /\ k.ev[RTCMutex].Cnt = BasePrio[Owner(k)]
                          /\ k.PrioTbl[TASK_PIP_PRIO] # None
    /\ k.ev[RTCMutex].Tbl = IF Waits(k) THEN {BasePrio[Comm]} ELSE {}
    /\ Waits(k) <=> Raised(k)
    /\ Waits(k) => Owner(k) = RTC /\ InPend(k, Comm)
    /\ InPend(k, Comm) /\ ~Waits(k) => Owner(k) = Comm

Sound(k) ==
    /\ k \in KernelState(Vals) /\ Numbered(k) /\ Listed(k) /\ Calm(k) /\ Owned(k)
    /\ k.PrioCur = PrioOf(k, k.Cur)

\* Between two steps the most urgent ready task runs.
Runner(k) == k.PrioCur \in k.Rdy /\ \A q \in k.Rdy : k.PrioCur <= q
Steady(k) == Sound(k) /\ MayPend(k) /\ Runner(k)

-----------------------------------------------------------------------------
(* The inductive invariant: where the tasks are.                              *)

\* Which tasks exist: those Task_Start has come to.
Births ==
    /\ pc = [t \in Task |-> pc[t]]
    /\ pc[Start] \in {"new", "step", "lift", "comm", "rtc", "msd", "delete", "deleted"}
    /\ Exists(os, Start) <=> pc[Start] # "deleted"
    /\ Exists(os, Step) <=> Step \in build /\ pc[Start] \notin {"new", "step"}
    /\ Exists(os, Lift) <=> pc[Start] \notin {"new", "step", "lift"}
    /\ Exists(os, Comm) <=> pc[Start] \notin {"new", "step", "lift", "comm"}
    /\ Exists(os, RTC) <=> RTC \in build /\ pc[Start] \in {"msd", "delete", "deleted"}
    /\ Exists(os, MSD) <=> MSD \in build /\ pc[Start] \in {"delete", "deleted"}
    /\ \A t \in Task \ {Start} : ~Exists(os, t) => pc[t] = "new"

\* What the kernel's tables say of the statements the tasks are at.
CommSection == {"get1", "get2", "getPost", "cal1", "cal2", "calSet", "calPost"}
RTCSection == {"load", "store1", "store2", "release"}
Sleeps ==
    /\ os.tcb[Comm].Dly > 0 => pc[Comm] = "read"
    /\ os.tcb[Lift].Dly > 0 => slept
    /\ InPend(os, Comm) => pc[Comm] \in {"get1", "cal1"}
    /\ Made <=> pc[RTC] # "new"
    /\ Owner(os) = RTC <=> pc[RTC] \in RTCSection
    /\ Owner(os) = Comm => pc[Comm] \in CommSection
    /\ pc[Comm] \in CommSection /\ ~InPend(os, Comm) => ~Made \/ Owner(os) = Comm

\* The frame in hand belongs to the statement vTaskComm is at.
InHand ==
    /\ inbox \in Seq(Frames) /\ cmd \in Frames \cup {None}
    /\ pc[Comm] \in {"new", "read", "getPend", "calPend", "post", "send"} \cup CommSection
    /\ cmd = None <=> pc[Comm] \in {"new", "read"}
    /\ pc[Comm] \in {"getPend", "get1", "get2", "getPost"} => cmd.CMD = "get"
    /\ pc[Comm] \in {"calPend", "cal1", "cal2", "calSet", "calPost"} => cmd.CMD = "cal"
    /\ pc[Comm] = "post" => cmd.CMD = "lift"
    /\ i \in 0 .. ReplyLen - 1 /\ (i > 0 => pc[Comm] = "send")

\* vTaskLIFT waits for every flag, and only while none is set.
Blocked == "FLAG" \in os.tcb[Lift].Stat
Flagged ==
    /\ LiftStatus \in [Flags : SUBSET Flag, Wait : [Task -> SUBSET Flag], Rdy : [Task -> SUBSET Flag]]
    /\ LiftStatus.Wait = [t \in Task |-> IF t = Lift /\ Blocked THEN Flag ELSE {}]
    /\ Blocked => pc[Lift] = "pended" /\ LiftStatus.Flags = {}
    /\ pc[Lift] = "pended" /\ ~Blocked => LiftStatus.Rdy[Lift] # {}
    /\ LiftValues \subseteq Flag /\ (LiftValues # {} <=> pc[Lift] \notin {"new", "pend", "pended"})
    /\ slept \in BOOLEAN /\ (i > 0 => slept \/ Blocked)

\* The clock. The host's time is on its way from the first assignment to time_now
\* to that of the counter.
Time == [1 .. 2 -> Times]
Calibrating == pc[Comm] \in {"cal2", "calSet"}
Timed ==
    /\ time_now \in Time /\ reply \in Time /\ local \in Time /\ record \in Time
    /\ counter \in Time \cup {Whole(None)} /\ set \in Times /\ raced \in BOOLEAN /\ recal \in BOOLEAN
    /\ pc[RTC] \in {"new", "copy1", "copy2", "set", "pend"} \cup RTCSection
    /\ pc[RTC] \in {"pend"} \cup RTCSection => counter \in Time
    /\ raced => pc[RTC] # "new"
    /\ Calibrating => time_now[1] = cmd.data
    /\ pc[Comm] = "calSet" => time_now[2] = cmd.data
    /\ pc[Comm] = "get2" => reply[1] = time_now[1]
    /\ pc[Comm] = "getPost" => reply = time_now

\* What each copy of the time holds while no calibration raced with vTaskRTC's.
Current == {Whole(set), Whole(Conv[set])}
Kept ==
    /\ pc[RTC] \in {"new", "copy1", "copy2", "set"} /\ ~Calibrating => time_now = Whole(set)
    /\ pc[RTC] # "store2" /\ ~Calibrating => time_now \in Current
    /\ pc[RTC] = "store2" => time_now[1] = Conv[set]
    /\ pc[RTC] = "copy2" => local[1] = set
    /\ pc[RTC] = "set" => local = Whole(set)
    /\ pc[RTC] \in {"store1", "store2"} => local = Whole(Conv[set])
    /\ set # Boot \/ pc[RTC] \in {"pend"} \cup RTCSection => counter = Whole(set)
    /\ pc[Comm] = "send" /\ cmd.CMD = "get" => reply \in Current

\* vTaskMSD reads the clock only where vTaskRTC does not run.
Logged ==
    /\ pc[MSD] \in {"new", "read2", "sleep"}
    /\ Calibrating /\ pc[MSD] # "new" => recal
    /\ pc[MSD] = "read2" => record[1] = set \/ recal
    /\ RecordWhole

\* What the tasks know of the frames and of the time.
Talk == InHand /\ Timed /\ (raced \/ Kept) /\ Logged

IInv ==
    /\ Steady(os) /\ build \in Builds /\ Births /\ Sleeps /\ HiddenNeverRun
    /\ Flagged /\ Talk

-----------------------------------------------------------------------------
(* The constants.                                                             *)

\* The tasks, the mutex, and what is none of them.
LEMMA Tasks7 ==
    /\ Start \in Task /\ Step \in Task /\ Lift \in Task /\ Comm \in Task /\ RTC \in Task
    /\ MSD \in Task /\ Idle \in Task
    /\ \A t \in Task : t \in {Start, Step, Lift, Comm, RTC, MSD, Idle}
    /\ RTCMutex \in Event /\ \A e \in Event : e = RTCMutex
    /\ None \notin Task /\ Reserved \notin Task /\ None # Reserved /\ None # RTCMutex
    /\ \A v \in Vals : v \in {None, Comm, RTC}
  BY AppAssumption, CoreAssumption DEF Optional, Vals

\* The priorities are distinct, and in the order of app_cfg.h.
LEMMA Priorities ==
    /\ \A t \in Task : BasePrio[t] \in Prios /\ BasePrio[t] \in Nat
    /\ \A t, u \in Task : BasePrio[t] = BasePrio[u] => t = u
    /\ TASK_PIP_PRIO \in Prios /\ TASK_PIP_PRIO \in Nat
    /\ \A t \in Task : TASK_PIP_PRIO < BasePrio[t] /\ TASK_PIP_PRIO # BasePrio[t]
    /\ \A t \in Task : BasePrio[t] <= BasePrio[Idle]
    /\ BasePrio[Lift] < BasePrio[Start] /\ BasePrio[Start] < BasePrio[Step]
    /\ BasePrio[Step] < BasePrio[Comm] /\ BasePrio[Comm] < BasePrio[RTC]
    /\ BasePrio[RTC] < BasePrio[MSD]
<1>1. /\ \A t \in Task : BasePrio[t] \in Prios
      /\ \A t, u \in Task : BasePrio[t] = BasePrio[u] => t = u
      /\ TASK_PIP_PRIO \in Prios /\ \A t \in Task : TASK_PIP_PRIO < BasePrio[t]
      /\ BasePrio[Idle] = OS_TASK_IDLE_PRIO /\ OS_TASK_IDLE_PRIO \in Nat
  BY AppAssumption, CoreAssumption
<1>2. /\ BasePrio[Lift] < BasePrio[Start] /\ BasePrio[Start] < BasePrio[Step]
      /\ BasePrio[Step] < BasePrio[Comm] /\ BasePrio[Comm] < BasePrio[RTC]
      /\ BasePrio[RTC] < BasePrio[MSD]
  BY AppAssumption
<1>3. \A p \in Prios : p \in Nat /\ p <= OS_TASK_IDLE_PRIO
  BY <1>1 DEF Prios
<1>4. \A t \in Task : TASK_PIP_PRIO # BasePrio[t]
  BY <1>1, <1>3
<1> QED
  BY <1>1, <1>2, <1>3, <1>4

\* The tasks are seven.
LEMMA TasksDiffer ==
    /\ Lift # Start /\ Lift # Step /\ Lift # Comm /\ Lift # RTC /\ Lift # MSD /\ Lift # Idle
    /\ Start # Step /\ Start # Comm /\ Start # RTC /\ Start # MSD /\ Start # Idle
    /\ Step # Comm /\ Step # RTC /\ Step # MSD /\ Step # Idle
    /\ Comm # RTC /\ Comm # MSD /\ Comm # Idle /\ RTC # MSD /\ RTC # Idle /\ MSD # Idle
<1>1. /\ BasePrio[Lift] \in Nat /\ BasePrio[Start] \in Nat /\ BasePrio[Step] \in Nat
      /\ BasePrio[Comm] \in Nat /\ BasePrio[RTC] \in Nat /\ BasePrio[MSD] \in Nat
  BY Tasks7, Priorities
<1>2. Idle \notin {Start, Lift, Comm, Step, RTC, MSD}
  BY AppAssumption DEF Optional
<1> QED
  BY <1>1, <1>2, Priorities

\* No two tasks have a priority in common, raised or not.
LEMMA PriosDiffer ==
    ASSUME NEW k, NEW t \in Task
    PROVE  /\ PrioOf(k, t) \in Prios /\ PrioOf(k, t) \in Nat
           /\ \A u \in Task : PrioOf(k, t) = PrioOf(k, u) => t = u
           /\ PrioOf(k, t) <= BasePrio[t]
<1>1. \A u \in Task : BasePrio[u] \in Nat /\ BasePrio[u] # TASK_PIP_PRIO
  BY Priorities
<1>2. \A u \in Task : BasePrio[t] = BasePrio[u] => t = u
  BY Priorities
<1>3. PrioOf(k, t) \in {BasePrio[t], TASK_PIP_PRIO}
  BY DEF PrioOf
<1>4. TASK_PIP_PRIO <= BasePrio[t]
  BY Priorities
<1> QED
  BY <1>1, <1>2, <1>3, <1>4, Priorities DEF PrioOf

-----------------------------------------------------------------------------
(* The scheduler.                                                             *)

\* The most urgent ready priority is that of a task that exists.
LEMMA HighestReady ==
    ASSUME NEW k, Sound(k)
    PROVE  /\ Highest(k.Rdy) \in k.Rdy /\ Highest(k.Rdy) \in Prios
           /\ \A q \in k.Rdy : Highest(k.Rdy) <= q
           /\ LET t == k.PrioTbl[Highest(k.Rdy)]
              IN  t \in Task /\ Exists(k, t) /\ PrioOf(k, t) = Highest(k.Rdy)
<1>1. k.Rdy \in SUBSET Nat /\ k.Rdy \in SUBSET Prios
  BY DEF Sound, KernelState, Prios
<1>2. PrioOf(k, Idle) \in k.Rdy
  <2>1. Idle \in Task /\ Idle \notin {Lift, Comm}
    BY Tasks7, TasksDiffer
  <2>2. Exists(k, Idle) /\ Free(k.tcb[Idle])
    BY <2>1 DEF Sound, Numbered, Calm, CalmTask, WaitsOf, Free
  <2> QED
    BY <2>1, <2>2 DEF Sound, Listed
<1>3. Highest(k.Rdy) \in k.Rdy /\ \A q \in k.Rdy : Highest(k.Rdy) <= q
  BY <1>1, <1>2, HighestIs
<1>4. PICK t \in Task : Exists(k, t) /\ PrioOf(k, t) = Highest(k.Rdy)
  BY <1>3 DEF Sound, Listed
<1>5. k.PrioTbl[Highest(k.Rdy)] = t
  BY <1>4 DEF PrioOf, Exists, Raised
<1> QED
  BY <1>1, <1>3, <1>4, <1>5

\* Soundness is about the tables.
LEMMA SoundSame ==
    ASSUME NEW k, NEW r \in KernelState(Vals), Sound(k), SameTables(r, k),
           r.PrioCur = PrioOf(r, r.Cur)
    PROVE  Sound(r)
<1>1. r.tcb = k.tcb /\ r.PrioTbl = k.PrioTbl /\ r.Rdy = k.Rdy /\ r.ev = k.ev
  BY DEF SameTables
<1>2. \A t : (Exists(r, t) <=> Exists(k, t)) /\ PrioOf(r, t) = PrioOf(k, t)
  BY <1>1 DEF Exists, PrioOf, Raised
<1>3. Numbered(r) /\ Listed(r)
  BY <1>1, <1>2 DEF Sound, Numbered, Listed, Raised
<1>4. Calm(r)
  BY <1>1 DEF Sound, Calm
<1>5. Owned(r)
  BY <1>1, <1>2 DEF Sound, Owned, Owner, Waits, Raised, InPend, Available
<1> QED
  BY <1>3, <1>4, <1>5 DEF Sound

\* The scheduler makes a sound state a steady one.
LEMMA SchedSteady ==
    ASSUME NEW k, Sound(k), MayPend(k)
    PROVE  LET r == OS_Sched(k) IN Steady(r) /\ SameTables(r, k)
<1> DEFINE r == OS_Sched(k)
           h == Highest(k.Rdy)
<1>1. /\ h \in k.Rdy /\ h \in Prios /\ \A q \in k.Rdy : h <= q
      /\ k.PrioTbl[h] \in Task /\ Exists(k, k.PrioTbl[h]) /\ PrioOf(k, k.PrioTbl[h]) = h
  BY HighestReady
<1>2. k \in KernelState(Vals)
  BY DEF Sound
<1>3. /\ r \in KernelState(Vals) /\ SameTables(r, k) /\ SameNesting(r, k)
      /\ r.PrioCur = h /\ r.Cur = IF r.PrioCur = k.PrioCur THEN k.Cur ELSE k.PrioTbl[r.PrioCur]
  BY <1>1, <1>2, SchedFields
<1> HIDE DEF r, h
<1>4. r.PrioCur = PrioOf(k, r.Cur)
  BY <1>1, <1>3 DEF Sound
<1>5. PrioOf(r, r.Cur) = PrioOf(k, r.Cur)
  BY <1>3 DEF SameTables, PrioOf, Raised
<1>6. Sound(r)
  BY <1>3, <1>4, <1>5, SoundSame
<1>7. MayPend(r)
  BY <1>3 DEF MayPend, SameNesting
<1>8. Runner(r)
  BY <1>1, <1>3 DEF Runner, SameTables
<1> QED
  BY <1>3, <1>6, <1>7, <1>8 DEF Steady, r

\* The running task exists and is ready; every other that is ready is less urgent.
LEMMA RunningTask ==
    ASSUME NEW k, Steady(k)
    PROVE  /\ k.Cur \in Task /\ Exists(k, k.Cur) /\ Free(k.tcb[k.Cur])
           /\ k.tcb[k.Cur] \in TCB(Vals) /\ k.tcb[k.Cur].Prio = PrioOf(k, k.Cur)
           /\ k.PrioCur = PrioOf(k, k.Cur)
           /\ \A t \in Task : Exists(k, t) /\ Free(k.tcb[t]) => PrioOf(k, k.Cur) <= PrioOf(k, t)
<1>0. /\ k \in KernelState(Vals) /\ Numbered(k) /\ Listed(k) /\ Runner(k)
      /\ k.PrioCur = PrioOf(k, k.Cur)
  BY DEF Steady, Sound
<1>2. k.Cur \in Task /\ k.tcb[k.Cur] \in TCB(Vals)
  BY <1>0 DEF KernelState
<1>1. /\ k \in KernelState(Vals) /\ Numbered(k) /\ Listed(k) /\ Runner(k)
      /\ Exists(k, k.Cur) /\ k.PrioCur = PrioOf(k, k.Cur)
  BY <1>0, <1>2, PriosDiffer DEF Listed, Runner
<1>3. k.tcb[k.Cur].Prio = PrioOf(k, k.Cur)
  BY <1>1, <1>2 DEF Numbered
<1>4. Free(k.tcb[k.Cur])
  BY <1>1, <1>2 DEF Listed, Runner
<1>5. \A t \in Task : Exists(k, t) /\ Free(k.tcb[t]) => PrioOf(k, k.Cur) <= PrioOf(k, t)
  BY <1>1 DEF Listed, Runner
<1> QED
  BY <1>1, <1>2, <1>3, <1>4, <1>5

-----------------------------------------------------------------------------
(* The calls.                                                                 *)

\* One task's control block changes, and its place in the ready list with it.
Changes(k, r, t) ==
    /\ t \in Task /\ Exists(k, t)
    /\ r \in KernelState(Vals) /\ SameRunning(r, k) /\ r.PrioTbl = k.PrioTbl
    /\ \A u \in Task \ {t} : r.tcb[u] = k.tcb[u]
    /\ r.tcb[t].Prio = k.tcb[t].Prio
    /\ r.Rdy = IF Free(r.tcb[t]) THEN k.Rdy \cup {PrioOf(k, t)} ELSE k.Rdy \ {PrioOf(k, t)}

\* Such a change keeps the tables sound.
LEMMA ChangesSound ==
    ASSUME NEW k, NEW r, NEW t, Sound(k), Changes(k, r, t), Calm(r), Owned(r)
    PROVE  Sound(r)
<1>1. t \in Task /\ Exists(k, t) /\ r \in KernelState(Vals) /\ r.PrioTbl = k.PrioTbl
  BY DEF Changes
<1>2. \A u : (Exists(r, u) <=> Exists(k, u)) /\ PrioOf(r, u) = PrioOf(k, u)
  BY <1>1 DEF Exists, PrioOf, Raised
<1>3. Numbered(r)
  <2>1. Exists(r, Idle) /\ r.PrioTbl[TASK_PIP_PRIO] \in {None, Reserved, RTC} /\ (Raised(r) => Exists(r, RTC))
    BY <1>1, <1>2 DEF Sound, Numbered, Raised
  <2>2. ASSUME NEW u \in Task
        PROVE  IF Exists(r, u) THEN r.tcb[u].Prio = PrioOf(r, u)
               ELSE r.PrioTbl[BasePrio[u]] = None /\ Free(r.tcb[u])
    <3>1. CASE u = t
      BY <1>1, <1>2, <3>1 DEF Sound, Numbered, Changes
    <3>2. CASE u # t
      BY <1>1, <1>2, <3>2 DEF Sound, Numbered, Changes
    <3> QED
      BY <3>1, <3>2
  <2> QED
    BY <2>1, <2>2 DEF Numbered
<1>4. Listed(r)
  <2>1. ASSUME NEW u \in Task, Exists(k, u) PROVE PrioOf(k, u) \in r.Rdy <=> Free(r.tcb[u])
    <3>1. CASE u = t
      BY <3>1 DEF Changes
    <3>2. CASE u # t
      <4>1. PrioOf(k, u) # PrioOf(k, t)
        BY <1>1, <3>2, PriosDiffer
      <4> QED
        BY <2>1, <3>2, <4>1 DEF Changes, Sound, Listed
    <3> QED
      BY <3>1, <3>2
  <2>2. r.Rdy \subseteq {PrioOf(k, u) : u \in {v \in Task : Exists(k, v)}}
    BY <1>1 DEF Changes, Sound, Listed
  <2> QED
    BY <1>2, <2>1, <2>2 DEF Listed
<1>5. r.PrioCur = PrioOf(r, r.Cur)
  BY <1>2 DEF Changes, SameRunning, Sound
<1> QED
  BY <1>1, <1>3, <1>4, <1>5 DEF Sound

\* The mutex is as before when vTaskComm waits as before.
LEMMA OwnedSame ==
    ASSUME NEW k, NEW r, Owned(k), r.PrioTbl = k.PrioTbl, r.ev = k.ev,
           r.tcb[Comm].EventPtr = k.tcb[Comm].EventPtr, r.tcb[Comm].Stat = k.tcb[Comm].Stat
    PROVE  Owned(r)
  BY DEF Owned, Owner, Waits, Raised, Exists, InPend, Available

\* What a call leaves behind: a steady kernel, task t as b, all else as it was.
Leaves(r, k, t, b) ==
    /\ Steady(r) /\ r.PrioTbl = k.PrioTbl /\ r.ev = k.ev
    /\ r.tcb[t] = b /\ \A u \in Task \ {t} : r.tcb[u] = k.tcb[u]

\* The running task is put to sleep.
LEMMA HoldSteady ==
    ASSUME NEW k, Steady(k), NEW b \in TCB(Vals), k.Cur # Idle,
           b.Prio = k.tcb[k.Cur].Prio, ~Free(b), CalmTask(k.Cur, b),
           b.EventPtr = k.tcb[k.Cur].EventPtr, k.Cur = Comm => b.Stat = {}
    PROVE  Leaves(OS_Sched(NotReady(WithTcb(k, k.Cur, b), k.Cur)), k, k.Cur, b)
<1> DEFINE t == k.Cur
           r == NotReady(WithTcb(k, t, b), t)
<1>1. /\ Sound(k) /\ k \in KernelState(Vals) /\ MayPend(k) /\ Owned(k) /\ Calm(k)
      /\ t \in Task /\ Exists(k, t) /\ Free(k.tcb[t]) /\ k.tcb[t].Prio = PrioOf(k, t)
  BY RunningTask DEF Steady, Sound
<1>2. /\ r \in KernelState(Vals)
      /\ r.tcb = [k.tcb EXCEPT ![t] = b] /\ r.Rdy = k.Rdy \ {k.tcb[t].Prio}
      /\ r.PrioTbl = k.PrioTbl /\ r.ev = k.ev /\ SameRunning(r, k)
  BY <1>1, HoldFields
<1> HIDE DEF r
<1>3. r.tcb[t] = b /\ \A u \in Task \ {t} : r.tcb[u] = k.tcb[u]
  BY <1>1, <1>2 DEF KernelState
<1>4. Changes(k, r, t)
  BY <1>1, <1>2, <1>3 DEF Changes
<1>5. Calm(r)
  BY <1>1, <1>3 DEF Calm
<1>6. Owned(r)
  <2>1. r.tcb[Comm].EventPtr = k.tcb[Comm].EventPtr /\ r.tcb[Comm].Stat = k.tcb[Comm].Stat
    BY <1>1, <1>3, Tasks7 DEF Free
  <2> QED
    BY <1>1, <1>2, <2>1, OwnedSame
<1>7. Sound(r)
  BY <1>1, <1>4, <1>5, <1>6, ChangesSound
<1>8. MayPend(r)
  BY <1>1, <1>2 DEF MayPend, SameRunning, SameNesting
<1>9. Steady(OS_Sched(r)) /\ SameTables(OS_Sched(r), r)
  BY <1>7, <1>8, SchedSteady
<1> QED
  BY <1>2, <1>3, <1>9 DEF Leaves, SameTables, r

Delayed(b, n) == [b EXCEPT !.Dly = n]

\* A delay, of a task that may have one, outside any pend.
LEMMA DelaySteady ==
    ASSUME NEW k, Steady(k), k.Cur \notin {Idle, Step, RTC}, NEW n \in Nat
    PROVE  Leaves(OSTimeDly(k, n), k, k.Cur, Delayed(k.tcb[k.Cur], n))
<1> DEFINE t == k.Cur
           b == Delayed(k.tcb[t], n)
<1>1. /\ k \in KernelState(Vals) /\ MayPend(k) /\ CalmTask(t, k.tcb[t])
      /\ t \in Task /\ Free(k.tcb[t]) /\ k.tcb[t] \in TCB(Vals)
  BY RunningTask DEF Steady, Sound, Calm
<1>2. /\ b \in TCB(Vals) /\ b.Prio = k.tcb[t].Prio /\ b.Dly = n /\ b.Stat = k.tcb[t].Stat
      /\ b.EventPtr = k.tcb[t].EventPtr /\ b.StatPend = k.tcb[t].StatPend
  BY <1>1 DEF Delayed, TCB
<1>3. CASE n # 0
  <2>1. OSTimeDly(k, n) = OS_Sched(NotReady(WithTcb(k, t, b), t))
    <3>1. WithTcb(k, t, b) = [k EXCEPT !.tcb[t].Dly = n]
      BY <1>1 DEF WithTcb, Delayed, KernelState
    <3> HIDE DEF b
    <3> QED
      BY <1>1, <1>3, <3>1 DEF OSTimeDly
  <2>2. b.Stat = {} /\ ~Free(b) /\ CalmTask(t, b)
    BY <1>1, <1>2, <1>3 DEF Free, CalmTask
  <2>3. k.Cur # Idle /\ (k.Cur = Comm => b.Stat = {})
    BY <2>2
  <2> HIDE DEF b
  <2>4. Leaves(OS_Sched(NotReady(WithTcb(k, t, b), t)), k, t, b)
    BY <1>2, <2>2, <2>3, HoldSteady
  <2> QED
    BY <2>1, <2>4 DEF b
<1>4. CASE n = 0
  <2>1. OSTimeDly(k, n) = k
    BY <1>4 DEF OSTimeDly
  <2>2. b = k.tcb[t]
    <3>1. k.tcb[t].Dly = 0
      BY <1>1 DEF Free
    <3> QED
      BY <1>1, <1>4, <3>1 DEF Delayed, TCB
  <2> QED
    BY <2>1, <2>2 DEF Leaves
<1> QED
  BY <1>3, <1>4

FlagWaiter(b) == [b EXCEPT !.Stat = @ \cup {"FLAG"}, !.StatPend = "OK", !.Dly = 0]

\* vTaskLIFT waits for a flag.
LEMMA FlagBlockSteady ==
    ASSUME NEW k, Steady(k), k.Cur = Lift, NEW g, NEW mask
    PROVE  Leaves(OS_FlagBlock(k, g, mask, 0).os, k, Lift, FlagWaiter(k.tcb[Lift]))
<1> DEFINE b == FlagWaiter(k.tcb[Lift])
<1>1. /\ k.tcb[Lift] \in TCB(Vals) /\ CalmTask(Lift, k.tcb[Lift]) /\ Free(k.tcb[Lift])
  BY RunningTask DEF Steady, Sound, Calm
<1>2. /\ b \in TCB(Vals) /\ b.Prio = k.tcb[Lift].Prio /\ b.Dly = 0 /\ b.Stat = {"FLAG"}
      /\ b.EventPtr = k.tcb[Lift].EventPtr /\ b.StatPend = "OK"
  BY <1>1 DEF FlagWaiter, TCB, Stats, PendAny, Free
<1>3. OS_FlagBlock(k, g, mask, 0).os = OS_Sched(NotReady(WithTcb(k, k.Cur, b), k.Cur))
  BY DEF OS_FlagBlock, WithTcb, FlagWaiter
<1>4. ~Free(b) /\ CalmTask(Lift, b) /\ Lift # Comm /\ Lift # Idle
  BY <1>1, <1>2, TasksDiffer DEF Free, CalmTask, WaitsOf
<1> HIDE DEF b
<1>5. Leaves(OS_Sched(NotReady(WithTcb(k, k.Cur, b), k.Cur)), k, k.Cur, b)
  BY <1>2, <1>4, HoldSteady
<1> QED
  BY <1>3, <1>5 DEF b

Woken(b) == [b EXCEPT !.Dly = 0, !.StatPend = "OK", !.Stat = @ \ {"FLAG"}]

\* Only vTaskLIFT waits for flags, and for any.
Blocks(k) == "FLAG" \in k.tcb[Lift].Stat
WaitsForAny(k, g) == g.Wait = [t \in Task |-> IF t = Lift /\ Blocks(k) THEN Flag ELSE {}]

\* A flag is posted: it wakes vTaskLIFT, if that waits.
LEMMA FlagPostSteady ==
    ASSUME NEW k, Steady(k), NEW f \in Flag,
           NEW g, WaitsForAny(k, g), g = [Flags |-> g.Flags, Wait |-> g.Wait, Rdy |-> g.Rdy]
    PROVE  LET r == OSFlagPost(k, g, {f})
           IN  /\ Blocks(k) =>
                    /\ Leaves(r.os, k, Lift, Woken(k.tcb[Lift]))
                    /\ r.grp = [Flags |-> g.Flags \cup {f}, Wait |-> [t \in Task |-> {}],
                                Rdy |-> [t \in Task |-> IF t = Lift THEN (g.Flags \cup {f}) \cap Flag
                                                                    ELSE g.Rdy[t]]]
               /\ ~Blocks(k) =>
                    /\ r.os = k
                    /\ r.grp = [Flags |-> g.Flags \cup {f}, Wait |-> [t \in Task |-> {}],
                                Rdy |-> [t \in Task |-> g.Rdy[t]]]
<1> DEFINE r   == OSFlagPost(k, g, {f})
           g1  == [g EXCEPT !.Flags = @ \cup {f}]
           got == {t \in Task : FlagsFor(g1, t) # {}}
           rdy == {t \in got : k.tcb[t].Stat \subseteq {"FLAG"}}
           F   == [t \in Task |-> IF t \in got THEN Woken(k.tcb[t]) ELSE k.tcb[t]]
           k1  == [k EXCEPT !.tcb = F, !.Rdy = @ \cup {k.tcb[t].Prio : t \in rdy}]
           b   == Woken(k.tcb[Lift])
<1>1. /\ r.os = IF rdy = {} THEN k1 ELSE OS_Sched(k1)
      /\ r.grp = [g1 EXCEPT !.Wait = [t \in Task |-> IF t \in got THEN {} ELSE g.Wait[t]],
                            !.Rdy = [t \in Task |-> IF t \in got THEN FlagsFor(g1, t) ELSE g.Rdy[t]]]
  BY DEF OSFlagPost, Woken
<1>2. g1.Flags = g.Flags \cup {f} /\ g1.Wait = g.Wait /\ g1.Rdy = g.Rdy
      /\ g1 = [Flags |-> g.Flags \cup {f}, Wait |-> g.Wait, Rdy |-> g.Rdy]
  OBVIOUS
<1>3. /\ k \in KernelState(Vals) /\ MayPend(k) /\ Owned(k) /\ Calm(k) /\ Sound(k)
      /\ Lift \in Task /\ Lift # Comm /\ k.tcb[Lift] \in TCB(Vals)
  BY Tasks7, TasksDiffer DEF Steady, Sound, KernelState
<1>4. CASE ~Blocks(k)
  <2>1. \A t \in Task : g.Wait[t] = {}
    BY <1>4 DEF WaitsForAny
  <2>2. got = {}
    BY <1>2, <2>1 DEF FlagsFor
  <2>3. rdy = {} /\ F = [t \in Task |-> k.tcb[t]]
    BY <2>2
  <2> HIDE DEF got, rdy, F
  <2>4. k1 = k
    BY <1>3, <2>3 DEF KernelState
  <2>5. r.os = k
    BY <1>1, <2>3, <2>4
  <2>6. r.grp = [g1 EXCEPT !.Wait = [t \in Task |-> {}], !.Rdy = [t \in Task |-> g.Rdy[t]]]
    BY <1>1, <2>1, <2>2
  <2> HIDE DEF r, g1
  <2> QED
    BY <1>2, <1>4, <2>5, <2>6 DEF r
<1>5. CASE Blocks(k)
  <2>1. g.Wait[Lift] = Flag /\ \A t \in Task \ {Lift} : g.Wait[t] = {}
    BY <1>3, <1>5 DEF WaitsForAny
  <2>2. got = {Lift}
    BY <1>2, <1>3, <2>1 DEF FlagsFor
  <2>3. FlagsFor(g1, Lift) = (g.Flags \cup {f}) \cap Flag
    BY <1>2, <2>1 DEF FlagsFor
  <2>4. r.grp = [Flags |-> g.Flags \cup {f}, Wait |-> [t \in Task |-> {}],
                 Rdy |-> [t \in Task |-> IF t = Lift THEN (g.Flags \cup {f}) \cap Flag ELSE g.Rdy[t]]]
    <3> DEFINE w == [t \in Task |-> IF t \in got THEN {} ELSE g.Wait[t]]
               y == [t \in Task |-> IF t \in got THEN FlagsFor(g1, t) ELSE g.Rdy[t]]
    <3>1. w = [t \in Task |-> {}]
      BY <2>1, <2>2
    <3>2. y = [t \in Task |-> IF t = Lift THEN (g.Flags \cup {f}) \cap Flag ELSE g.Rdy[t]]
      BY <2>2, <2>3
    <3>3. r.grp = [g1 EXCEPT !.Wait = w, !.Rdy = y]
      BY <1>1
    <3> HIDE DEF r, g1, w, y
    <3> QED
      BY <1>2, <3>1, <3>2, <3>3
  <2>5. k.tcb[Lift].Stat = {"FLAG"} /\ k.tcb[Lift].EventPtr = None
    BY <1>3, <1>5 DEF Blocks, Calm, CalmTask, WaitsOf
  <2>6. rdy = {Lift}
    BY <2>2, <2>5
  <2>7. F = [k.tcb EXCEPT ![Lift] = b]
    <3> HIDE DEF b
    <3>1. \A t \in Task : F[t] = IF t = Lift THEN b ELSE k.tcb[t]
      BY <2>2 DEF b
    <3> HIDE DEF got
    <3>2. F = [t \in Task |-> F[t]]
      OBVIOUS
    <3> HIDE DEF F
    <3> QED
      BY <1>3, <3>1, <3>2 DEF KernelState
  <2>8. r.os = OS_Sched(k1)
    BY <1>1, <2>6
  <2>9. Exists(k, Lift) /\ k.tcb[Lift].Prio = PrioOf(k, Lift)
    BY <1>3, <2>5 DEF Sound, Numbered, Free
  <2>10. /\ b \in TCB(Vals) /\ b.Prio = k.tcb[Lift].Prio /\ b.Dly = 0 /\ b.Stat = {}
         /\ b.EventPtr = None /\ b.StatPend = "OK"
    BY <1>3, <2>5 DEF Woken, TCB
  <2> HIDE DEF r, b, F, got, rdy
  <2>11. /\ k1.tcb = [k.tcb EXCEPT ![Lift] = b] /\ k1.Rdy = k.Rdy \cup {k.tcb[Lift].Prio}
         /\ k1.PrioTbl = k.PrioTbl /\ k1.ev = k.ev /\ SameRunning(k1, k) /\ k1 \in KernelState(Vals)
    <3>1. k1 = [k EXCEPT !.tcb = [k.tcb EXCEPT ![Lift] = b], !.Rdy = k.Rdy \cup {k.tcb[Lift].Prio}]
      BY <2>6, <2>7
    <3>2. k.tcb[Lift].Prio \in Prios
      BY <1>3 DEF TCB
    <3> HIDE DEF k1
    <3> QED
      BY <1>3, <2>10, <3>1, <3>2 DEF KernelState, SameRunning, SameNesting
  <2> HIDE DEF k1
  <2>12. k1.tcb[Lift] = b /\ \A u \in Task \ {Lift} : k1.tcb[u] = k.tcb[u]
    BY <1>3, <2>11 DEF KernelState
  <2>13. Changes(k, k1, Lift)
    BY <1>3, <2>9, <2>10, <2>11, <2>12 DEF Changes, Free
  <2>14. Calm(k1)
    BY <1>3, <2>10, <2>12 DEF Calm, CalmTask
  <2>15. Owned(k1)
    <3>1. k1.tcb[Comm] = k.tcb[Comm]
      BY <1>3, <2>12, Tasks7
    <3> QED
      BY <1>3, <2>11, <3>1, OwnedSame
  <2>16. Sound(k1)
    BY <1>3, <2>13, <2>14, <2>15, ChangesSound
  <2>17. MayPend(k1)
    BY <1>3, <2>11 DEF MayPend, SameRunning, SameNesting
  <2>18. Steady(OS_Sched(k1)) /\ SameTables(OS_Sched(k1), k1)
    BY <2>16, <2>17, SchedSteady
  <2>19. Leaves(r.os, k, Lift, b)
    BY <2>8, <2>11, <2>12, <2>18 DEF Leaves, SameTables
  <2> QED
    BY <1>5, <2>4, <2>19 DEF r, b
<1> QED
  BY <1>4, <1>5

\* A tick counts the delays down.
LEMMA TickSound ==
    ASSUME NEW k, Sound(k)
    PROVE  LET r == OSTimeTick(k)
           IN  /\ Sound(r) /\ SameRunning(r, k) /\ r.PrioTbl = k.PrioTbl /\ r.ev = k.ev
               /\ r.tcb = [t \in Task |-> Ticked(k.tcb[t])]
<1> DEFINE r == OSTimeTick(k)
           over == {u \in Task : k.tcb[u].Dly = 1 /\ "SUSPEND" \notin k.tcb[u].Stat}
<1>1. k \in KernelState(Vals) /\ \A t \in Task : k.tcb[t] \in TCB(Vals)
  BY DEF Sound, KernelState
<1>2. /\ r \in KernelState(Vals) /\ r.tcb = [t \in Task |-> Ticked(k.tcb[t])]
      /\ r.Rdy = k.Rdy \cup {k.tcb[t].Prio : t \in over}
      /\ r.PrioTbl = k.PrioTbl /\ r.ev = k.ev /\ SameRunning(r, k)
  BY <1>1, TickFields
<1> HIDE DEF r
<1>3. ASSUME NEW t \in Task
      PROVE  LET b == k.tcb[t]
                 x == r.tcb[t]
             IN  /\ x.Prio = b.Prio /\ x.EventPtr = b.EventPtr /\ x.Stat = b.Stat
                 /\ x.StatPend = "OK" /\ (x.Dly = 0 <=> b.Dly \in {0, 1})
                 /\ b.Dly # 0 => b.Stat = {}
  <2>1. r.tcb[t] = Ticked(k.tcb[t]) /\ k.tcb[t] \in TCB(Vals)
    BY <1>1, <1>2
  <2>2. CalmTask(t, k.tcb[t])
    BY DEF Sound, Calm
  <2>3. k.tcb[t].Dly # 0 => k.tcb[t].Stat = {}
    BY <2>2 DEF CalmTask
  <2>4. k.tcb[t].StatPend = "OK"
    BY <2>2 DEF CalmTask
  <2>5. /\ r.tcb[t].Prio = k.tcb[t].Prio /\ r.tcb[t].EventPtr = k.tcb[t].EventPtr
        /\ k.tcb[t].Dly # 1 => r.tcb[t].Stat = k.tcb[t].Stat /\ r.tcb[t].StatPend = k.tcb[t].StatPend
        /\ k.tcb[t].Dly = 1 => r.tcb[t].Stat = k.tcb[t].Stat \ PendAny
        /\ k.tcb[t].Dly = 1 /\ k.tcb[t].Stat \cap PendAny = {} => r.tcb[t].StatPend = "OK"
        /\ r.tcb[t].Dly = 0 <=> k.tcb[t].Dly \in {0, 1}
    BY <2>1, TickedType
  <2>6. CASE k.tcb[t].Dly = 1
    <3>1. k.tcb[t].Stat = {}
      BY <2>3, <2>6
    <3>2. r.tcb[t].Stat = {} /\ r.tcb[t].StatPend = "OK"
      BY <2>5, <2>6, <3>1
    <3> QED
      BY <2>3, <2>5, <3>1, <3>2
  <2>7. CASE k.tcb[t].Dly # 1
    BY <2>3, <2>4, <2>5, <2>7
  <2> QED
    BY <2>6, <2>7
<1>4. \A u : (Exists(r, u) <=> Exists(k, u)) /\ PrioOf(r, u) = PrioOf(k, u)
  BY <1>2 DEF Exists, PrioOf, Raised
<1>5. Numbered(r)
  <2>1. Exists(r, Idle) /\ r.PrioTbl[TASK_PIP_PRIO] \in {None, Reserved, RTC} /\ (Raised(r) => Exists(r, RTC))
    BY <1>2, <1>4 DEF Sound, Numbered, Raised
  <2>2. ASSUME NEW u \in Task
        PROVE  IF Exists(r, u) THEN r.tcb[u].Prio = PrioOf(r, u)
               ELSE r.PrioTbl[BasePrio[u]] = None /\ Free(r.tcb[u])
    BY <1>2, <1>3, <1>4 DEF Sound, Numbered, Free
  <2> QED
    BY <2>1, <2>2 DEF Numbered
<1>6. Listed(r)
  <2>1. ASSUME NEW u \in Task, Exists(k, u) PROVE PrioOf(k, u) \in r.Rdy <=> Free(r.tcb[u])
    <3>1. PrioOf(k, u) \in k.Rdy <=> Free(k.tcb[u])
      BY <2>1 DEF Sound, Listed
    <3>2. PrioOf(k, u) \in {k.tcb[t].Prio : t \in over} <=> u \in over
      <4>1. k.tcb[u].Prio = PrioOf(k, u)
        BY <2>1 DEF Sound, Numbered
      <4>2. ASSUME NEW t \in over, k.tcb[t].Prio = PrioOf(k, u) PROVE t = u
        <5>1. t \in Task /\ k.tcb[t].Dly = 1
          OBVIOUS
        <5>2. ~Free(k.tcb[t])
          BY <5>1 DEF Free
        <5>3. k.tcb[t].Prio = PrioOf(k, t)
          BY <5>1, <5>2 DEF Sound, Numbered
        <5> QED
          BY <4>2, <5>1, <5>3, PriosDiffer
      <4> QED
        BY <4>1, <4>2
    <3>3. u \in over <=> k.tcb[u].Dly = 1
      BY <1>3
    <3> QED
      BY <1>2, <1>3, <3>1, <3>2, <3>3 DEF Free
  <2>2. r.Rdy \subseteq {PrioOf(k, u) : u \in {v \in Task : Exists(k, v)}}
    <3>1. ASSUME NEW t \in over PROVE Exists(k, t) /\ k.tcb[t].Prio = PrioOf(k, t)
      <4>1. t \in Task /\ k.tcb[t].Dly = 1
        OBVIOUS
      <4>2. ~Free(k.tcb[t])
        BY <4>1 DEF Free
      <4> QED
        BY <4>1, <4>2 DEF Sound, Numbered
    <3> QED
      BY <1>2, <3>1 DEF Sound, Listed
  <2> QED
    BY <1>4, <2>1, <2>2 DEF Listed
<1>7. Calm(r)
  <2> SUFFICES ASSUME NEW t \in Task PROVE CalmTask(t, r.tcb[t])
    BY DEF Calm
  <2>1. CalmTask(t, k.tcb[t])
    BY DEF Sound, Calm
  <2> QED
    BY <1>3, <2>1 DEF CalmTask
<1>8. Owned(r)
  BY <1>2, <1>3, Tasks7, OwnedSame DEF Sound
<1>9. r.PrioCur = PrioOf(r, r.Cur)
  BY <1>2, <1>4 DEF SameRunning, Sound
<1>10. Sound(r)
  BY <1>2, <1>5, <1>6, <1>7, <1>8, <1>9 DEF Sound
<1> QED
  BY <1>2, <1>10 DEF r

\* The interrupt that counts it.
LEMMA TickSteady ==
    ASSUME NEW k, Steady(k)
    PROVE  LET r == OSIntExit(OSTimeTick(OSIntEnter(k)))
           IN  /\ Steady(r) /\ r.tcb = [t \in Task |-> Ticked(k.tcb[t])]
               /\ r.PrioTbl = k.PrioTbl /\ r.ev = k.ev
<1> DEFINE h == OSIntEnter(k)
           m == OSTimeTick(h)
           n == [m EXCEPT !.IntNesting = @ - 1]
<1>1. k \in KernelState(Vals) /\ Sound(k) /\ k.IntNesting = 0 /\ k.LockNesting = 0
  BY DEF Steady, Sound, MayPend
<1>2. /\ h \in KernelState(Vals) /\ SameTables(h, k) /\ h.IntNesting = k.IntNesting + 1
      /\ h.LockNesting = k.LockNesting /\ h.Cur = k.Cur /\ h.PrioCur = k.PrioCur
  BY <1>1, IntEnterFields
<1> HIDE DEF h
<1>3. Sound(h)
  <2>1. h.PrioCur = PrioOf(h, h.Cur)
    BY <1>1, <1>2 DEF Sound, SameTables, PrioOf, Raised
  <2> QED
    BY <1>1, <1>2, <2>1, SoundSame
<1>4. /\ Sound(m) /\ SameRunning(m, h) /\ m.PrioTbl = h.PrioTbl /\ m.ev = h.ev
      /\ m.tcb = [t \in Task |-> Ticked(h.tcb[t])]
  BY <1>3, TickSound
<1> HIDE DEF m
<1>5. m \in KernelState(Vals) /\ m.IntNesting = 1 /\ m.LockNesting = 0
  BY <1>1, <1>2, <1>4 DEF Sound, SameRunning, SameNesting
<1>6. /\ n \in KernelState(Vals) /\ SameTables(n, m) /\ MayPend(n)
      /\ n.Cur = m.Cur /\ n.PrioCur = m.PrioCur
  BY <1>5 DEF KernelState, SameTables, MayPend
<1>7. OSIntExit(m) = OS_Sched(n)
  BY DEF OSIntExit
<1> HIDE DEF n
<1>8. Sound(n)
  <2>1. n.PrioCur = PrioOf(n, n.Cur)
    BY <1>4, <1>6 DEF Sound, SameTables, PrioOf, Raised
  <2> QED
    BY <1>4, <1>6, <2>1, SoundSame
<1>9. Steady(OS_Sched(n)) /\ SameTables(OS_Sched(n), n)
  BY <1>6, <1>8, SchedSteady
<1> QED
  BY <1>2, <1>4, <1>6, <1>7, <1>9 DEF SameTables, h, m

-----------------------------------------------------------------------------
(* Tasks come and go.                                                         *)

\* OSTaskCreate of a task that does not exist yet.
LEMMA CreateSteady ==
    ASSUME NEW k, Steady(k), NEW t \in Task, ~Exists(k, t)
    PROVE  LET r == OSTaskCreate(k, t, BasePrio[t])
           IN  /\ Steady(r) /\ r.ev = k.ev /\ r.PrioTbl = [k.PrioTbl EXCEPT ![BasePrio[t]] = t]
               /\ r.tcb[t] = NewTCB(BasePrio[t])
               /\ \A u \in Task \ {t} : r.tcb[u] = k.tcb[u]
<1> DEFINE p == BasePrio[t]
           b == NewTCB(p)
           r == [k EXCEPT !.tcb[t] = b, !.PrioTbl[p] = t, !.Rdy = @ \cup {p}]
<1>1. /\ Sound(k) /\ k \in KernelState(Vals) /\ MayPend(k) /\ Numbered(k) /\ Listed(k)
      /\ Calm(k) /\ Owned(k) /\ k.PrioCur = PrioOf(k, k.Cur)
  BY DEF Steady, Sound
<1>2. k.PrioTbl[p] = None /\ Free(k.tcb[t]) /\ p \in Prios /\ p # TASK_PIP_PRIO
  BY <1>1, Priorities DEF Numbered
<1>3. OSTaskCreate(k, t, p) = OS_Sched(r)
  BY <1>1, <1>2 DEF OSTaskCreate, MayPend
<1>4. b \in TCB(Vals) /\ Free(b) /\ b.Prio = p /\ CalmTask(t, b)
  BY <1>2 DEF NewTCB, TCB, Vals, Free, CalmTask
<1> HIDE DEF b
<1>5. /\ r \in KernelState(Vals) /\ r.tcb = [k.tcb EXCEPT ![t] = b] /\ SameRunning(r, k)
      /\ r.PrioTbl = [k.PrioTbl EXCEPT ![p] = t] /\ r.Rdy = k.Rdy \cup {p} /\ r.ev = k.ev
  BY <1>1, <1>2, <1>4 DEF KernelState, SameRunning, SameNesting
<1> HIDE DEF r
<1>6. r.tcb[t] = b /\ \A u \in Task \ {t} : r.tcb[u] = k.tcb[u]
  BY <1>1, <1>5 DEF KernelState
<1>7. Raised(r) <=> Raised(k)
  BY <1>1, <1>2, <1>5, Priorities DEF Raised, KernelState
<1>8. Raised(k) => t # RTC
  BY <1>1 DEF Numbered
<1>9. \A u : PrioOf(r, u) = PrioOf(k, u)
  BY <1>7 DEF PrioOf
<1>10. Exists(r, t) /\ PrioOf(r, t) = p
  BY <1>1, <1>2, <1>5, <1>7, <1>8 DEF Exists, PrioOf, KernelState
<1>11. ASSUME NEW u \in Task \ {t} PROVE r.PrioTbl[BasePrio[u]] = k.PrioTbl[BasePrio[u]]
  <2>1. BasePrio[u] # p /\ BasePrio[u] \in Prios
    BY Priorities
  <2> QED
    BY <1>1, <1>5, <2>1 DEF KernelState
<1>12. \A u \in Task \ {t} : Exists(r, u) <=> Exists(k, u)
  BY <1>11 DEF Exists
<1>13. Numbered(r)
  <2>1. r.PrioTbl[TASK_PIP_PRIO] = k.PrioTbl[TASK_PIP_PRIO]
    BY <1>1, <1>2, <1>5, Priorities DEF KernelState
  <2>2. Exists(r, Idle) /\ (Raised(r) => Exists(r, RTC))
    BY <1>1, <1>7, <1>10, <1>12, Tasks7 DEF Numbered
  <2>3. ASSUME NEW u \in Task
        PROVE  IF Exists(r, u) THEN r.tcb[u].Prio = PrioOf(r, u)
               ELSE r.PrioTbl[BasePrio[u]] = None /\ Free(r.tcb[u])
    <3>1. CASE u = t
      BY <1>4, <1>6, <1>10, <3>1
    <3>2. CASE u # t
      BY <1>1, <1>6, <1>9, <1>11, <1>12, <3>2 DEF Numbered
    <3> QED
      BY <3>1, <3>2
  <2> QED
    BY <1>1, <2>1, <2>2, <2>3 DEF Numbered
<1>14. Listed(r)
  <2>1. ASSUME NEW u \in Task, Exists(r, u) PROVE PrioOf(r, u) \in r.Rdy <=> Free(r.tcb[u])
    <3>1. CASE u = t
      BY <1>4, <1>5, <1>6, <1>10, <3>1
    <3>2. CASE u # t
      <4>1. PrioOf(r, u) # p
        BY <1>10, <3>2, PriosDiffer
      <4> QED
        BY <1>1, <1>5, <1>6, <1>9, <1>12, <2>1, <3>2, <4>1 DEF Listed
    <3> QED
      BY <3>1, <3>2
  <2>2. \A q \in r.Rdy : \E u \in Task : Exists(r, u) /\ PrioOf(r, u) = q
    <3> SUFFICES ASSUME NEW q \in r.Rdy PROVE \E u \in Task : Exists(r, u) /\ PrioOf(r, u) = q
      OBVIOUS
    <3>1. CASE q = p
      BY <1>10, <3>1
    <3>2. CASE q \in k.Rdy
      <4>1. PICK u \in Task : Exists(k, u) /\ PrioOf(k, u) = q
        BY <1>1, <3>2 DEF Listed
      <4> QED
        BY <1>9, <1>12, <4>1
    <3> QED
      BY <1>5, <3>1, <3>2
  <2> QED
    BY <2>1, <2>2 DEF Listed
<1>15. Calm(r)
  BY <1>1, <1>4, <1>6 DEF Calm
<1>16. Owned(r)
  <2>1. r.tcb[Comm].Stat = k.tcb[Comm].Stat
    BY <1>2, <1>4, <1>6, Tasks7 DEF Free
  <2>2. Waits(r) <=> Waits(k)
    BY <2>1 DEF Waits
  <2>3. InPend(r, Comm) => InPend(k, Comm)
    <3>1. b.EventPtr = None
      BY DEF b, NewTCB
    <3> QED
      BY <1>6, <3>1, Tasks7 DEF InPend
  <2>4. Waits(k) => InPend(r, Comm)
    <3>1. Waits(k) => Comm # t
      BY <1>2 DEF Waits, Free
    <3> QED
      BY <1>1, <1>6, <3>1, Tasks7 DEF Owned, InPend
  <2>5. Owner(r) = Owner(k) /\ (Available(r, RTCMutex) <=> Available(k, RTCMutex))
    BY <1>5 DEF Owner, Available
  <2>6. Owner(k) \in {None, Comm, RTC}
    BY <1>1, Tasks7 DEF Owner, KernelState, ECB, Vals
  <2>7. Owner(k) # None => Exists(r, Owner(k)) /\ r.PrioTbl[TASK_PIP_PRIO] # None
    <3>1. r.PrioTbl[TASK_PIP_PRIO] = k.PrioTbl[TASK_PIP_PRIO]
      BY <1>1, <1>2, <1>5, Priorities DEF KernelState
    <3> QED
      BY <1>1, <1>10, <1>12, <2>6, <3>1, Tasks7 DEF Owned
  <2> QED
    BY <1>1, <1>5, <1>7, <2>2, <2>3, <2>4, <2>5, <2>7 DEF Owned
<1>17. Sound(r)
  BY <1>1, <1>5, <1>9, <1>13, <1>14, <1>15, <1>16 DEF Sound, SameRunning
<1>18. MayPend(r)
  BY <1>1, <1>5 DEF MayPend, SameRunning, SameNesting
<1>19. Steady(OS_Sched(r)) /\ SameTables(OS_Sched(r), r)
  BY <1>17, <1>18, SchedSteady
<1> QED
  BY <1>3, <1>5, <1>6, <1>19 DEF SameTables, b

\* Task_Start deletes itself.
LEMMA DeleteSteady ==
    ASSUME NEW k, Steady(k), k.Cur = Start
    PROVE  LET r == OSTaskDelSelf(k)
           IN  /\ Steady(r) /\ r.ev = k.ev
               /\ r.PrioTbl = [k.PrioTbl EXCEPT ![BasePrio[Start]] = None]
               /\ Free(r.tcb[Start])
               /\ \A u \in Task \ {Start} : r.tcb[u] = k.tcb[u]
<1> DEFINE p == BasePrio[Start]
           b == NewTCB(p)
           r == [NotReady(k, k.Cur) EXCEPT !.tcb[k.Cur] = b, !.PrioTbl[p] = None]
<1>1. /\ Sound(k) /\ k \in KernelState(Vals) /\ MayPend(k) /\ Numbered(k) /\ Listed(k)
      /\ Calm(k) /\ Owned(k) /\ k.PrioCur = PrioOf(k, k.Cur)
  BY DEF Steady, Sound
<1>2. Start \in Task /\ Start \notin {RTC, Comm, Idle} /\ p \in Prios /\ p # TASK_PIP_PRIO
  BY Tasks7, TasksDiffer, Priorities
<1>3. k.tcb[Start].Prio = p /\ PrioOf(k, Start) = p /\ Exists(k, Start)
  BY <1>2, RunningTask DEF PrioOf
<1>4. OSTaskDelSelf(k) = OS_Sched(r)
  BY <1>3 DEF OSTaskDelSelf
<1>5. b \in TCB(Vals) /\ Free(b) /\ b.Prio = p /\ CalmTask(Start, b)
  BY <1>2 DEF NewTCB, TCB, Vals, Free, CalmTask
<1> HIDE DEF b
<1>6. /\ r \in KernelState(Vals) /\ r.tcb = [k.tcb EXCEPT ![Start] = b] /\ SameRunning(r, k)
      /\ r.PrioTbl = [k.PrioTbl EXCEPT ![p] = None] /\ r.Rdy = k.Rdy \ {p} /\ r.ev = k.ev
  <2>1. NotReady(k, k.Cur) = [k EXCEPT !.Rdy = k.Rdy \ {p}]
    BY <1>3 DEF NotReady
  <2> QED
    BY <1>1, <1>2, <1>5, <2>1 DEF KernelState, SameRunning, SameNesting
<1> HIDE DEF r
<1>7. r.tcb[Start] = b /\ \A u \in Task \ {Start} : r.tcb[u] = k.tcb[u]
  BY <1>1, <1>2, <1>6 DEF KernelState
<1>8. r.PrioTbl[TASK_PIP_PRIO] = k.PrioTbl[TASK_PIP_PRIO]
  BY <1>1, <1>2, <1>6, Priorities DEF KernelState
<1>9. \A u : PrioOf(r, u) = PrioOf(k, u)
  BY <1>8 DEF PrioOf, Raised
<1>10. r.PrioTbl[p] = None
  BY <1>1, <1>2, <1>6 DEF KernelState
<1>11. ASSUME NEW u \in Task \ {Start} PROVE r.PrioTbl[BasePrio[u]] = k.PrioTbl[BasePrio[u]]
  <2>1. BasePrio[u] # p /\ BasePrio[u] \in Prios
    BY <1>2, Priorities
  <2> QED
    BY <1>1, <1>6, <2>1 DEF KernelState
<1>12. \A u \in Task \ {Start} : Exists(r, u) <=> Exists(k, u)
  BY <1>11 DEF Exists
<1>13. Numbered(r)
  <2>1. Exists(r, Idle) /\ (Raised(r) => Exists(r, RTC))
    BY <1>1, <1>2, <1>8, <1>12, Tasks7 DEF Numbered, Raised
  <2>2. ASSUME NEW u \in Task
        PROVE  IF Exists(r, u) THEN r.tcb[u].Prio = PrioOf(r, u)
               ELSE r.PrioTbl[BasePrio[u]] = None /\ Free(r.tcb[u])
    <3>1. CASE u = Start
      BY <1>5, <1>7, <1>10, <3>1, Tasks7 DEF Exists
    <3>2. CASE u # Start
      BY <1>1, <1>7, <1>9, <1>11, <1>12, <3>2 DEF Numbered
    <3> QED
      BY <3>1, <3>2
  <2> QED
    BY <1>1, <1>8, <2>1, <2>2 DEF Numbered
<1>14. Listed(r)
  <2>1. ASSUME NEW u \in Task, Exists(r, u) PROVE PrioOf(r, u) \in r.Rdy <=> Free(r.tcb[u])
    <3>1. u # Start
      BY <1>10, <2>1, Tasks7 DEF Exists
    <3>2. PrioOf(k, u) # p
      BY <1>2, <1>3, <3>1, PriosDiffer
    <3> QED
      BY <1>1, <1>6, <1>7, <1>9, <1>12, <2>1, <3>1, <3>2 DEF Listed
  <2>2. \A q \in r.Rdy : \E u \in Task : Exists(r, u) /\ PrioOf(r, u) = q
    <3> SUFFICES ASSUME NEW q \in r.Rdy PROVE \E u \in Task : Exists(r, u) /\ PrioOf(r, u) = q
      OBVIOUS
    <3>1. PICK u \in Task : Exists(k, u) /\ PrioOf(k, u) = q
      BY <1>1, <1>6 DEF Listed
    <3>2. u # Start
      BY <1>3, <1>6, <3>1
    <3> QED
      BY <1>9, <1>12, <3>1, <3>2
  <2> QED
    BY <2>1, <2>2 DEF Listed
<1>15. Calm(r)
  BY <1>1, <1>5, <1>7 DEF Calm
<1>16. Owned(r)
  <2>1. r.tcb[Comm] = k.tcb[Comm]
    BY <1>2, <1>7, Tasks7
  <2>2. Owner(k) \in {None, Comm, RTC}
    BY <1>1, Tasks7 DEF Owner, KernelState, ECB, Vals
  <2>3. Owner(k) # None => Exists(r, Owner(k)) /\ r.PrioTbl[TASK_PIP_PRIO] # None
    BY <1>1, <1>2, <1>8, <1>12, <2>2, Tasks7 DEF Owned
  <2>4. /\ Owner(r) = Owner(k) /\ (Available(r, RTCMutex) <=> Available(k, RTCMutex))
        /\ (Waits(r) <=> Waits(k)) /\ (InPend(r, Comm) <=> InPend(k, Comm)) /\ (Raised(r) <=> Raised(k))
    BY <1>6, <1>8, <2>1 DEF Owner, Available, Waits, InPend, Raised
  <2> QED
    BY <1>1, <1>6, <2>3, <2>4 DEF Owned
<1>17. Sound(r)
  BY <1>1, <1>6, <1>9, <1>13, <1>14, <1>15, <1>16 DEF Sound, SameRunning
<1>18. MayPend(r)
  BY <1>1, <1>6 DEF MayPend, SameRunning, SameNesting
<1>19. Steady(OS_Sched(r)) /\ SameTables(OS_Sched(r), r)
  BY <1>17, <1>18, SchedSteady
<1> QED
  BY <1>4, <1>5, <1>6, <1>7, <1>19 DEF SameTables

-----------------------------------------------------------------------------
(* The mutex.                                                                 *)

\* What a call on the mutex leaves alone, beside what the lemmas say of its owner.
Keeps(r, k) ==
    /\ Steady(r) /\ \A t \in Task : Exists(r, t) <=> Exists(k, t)
    /\ r.tcb[Lift] = k.tcb[Lift] /\ r.tcb[Comm].Dly = k.tcb[Comm].Dly
Reserves(k) == k.PrioTbl[TASK_PIP_PRIO] # None

\* The mutex changes, and no task: soundness is that of the mutex.
LEMMA EventSteady ==
    ASSUME NEW k, Steady(k), NEW r \in KernelState(Vals), r.tcb = k.tcb,
           \A p \in Prios \ {TASK_PIP_PRIO} : r.PrioTbl[p] = k.PrioTbl[p],
           r.PrioTbl[TASK_PIP_PRIO] \in {None, Reserved, RTC}, Raised(r) <=> Raised(k),
           r.Rdy = k.Rdy, SameRunning(r, k), Owned(r)
    PROVE  Keeps(r, k)
<1>1. /\ Sound(k) /\ MayPend(k) /\ Runner(k) /\ Numbered(k) /\ Listed(k) /\ Calm(k)
      /\ k.PrioCur = PrioOf(k, k.Cur)
  BY DEF Steady, Sound
<1>2. \A t \in Task : BasePrio[t] \in Prios \ {TASK_PIP_PRIO}
  BY Priorities
<1>3. \A t \in Task : (Exists(r, t) <=> Exists(k, t)) /\ PrioOf(r, t) = PrioOf(k, t)
                      /\ r.PrioTbl[BasePrio[t]] = k.PrioTbl[BasePrio[t]]
  BY <1>2 DEF Exists, PrioOf
<1>4. Numbered(r)
  BY <1>1, <1>3, Tasks7 DEF Numbered
<1>5. Listed(r)
  BY <1>1, <1>3 DEF Listed
<1>6. Calm(r)
  BY <1>1 DEF Calm
<1>7. r.Cur \in Task
  BY DEF KernelState
<1>8. r.PrioCur = PrioOf(r, r.Cur)
  BY <1>1, <1>3, <1>7 DEF SameRunning
<1>9. MayPend(r) /\ Runner(r)
  BY <1>1 DEF MayPend, Runner, SameRunning, SameNesting
<1> QED
  BY <1>3, <1>4, <1>5, <1>6, <1>8, <1>9 DEF Keeps, Steady, Sound

\* What soundness says of the mutex.
LEMMA Mutex ==
    ASSUME NEW k, Steady(k)
    PROVE  /\ k \in KernelState(Vals) /\ k.ev \in [Event -> ECB(Vals)] /\ k.ev[RTCMutex] \in ECB(Vals)
           /\ Owned(k) /\ Owner(k) \in {None, Comm, RTC}
           /\ Waits(k) => k.Cur # Comm
           /\ Raised(k) => Exists(k, RTC) /\ Owner(k) = RTC /\ InPend(k, Comm)
           /\ Exists(k, RTC) => Free(k.tcb[RTC])
<1>1. k \in KernelState(Vals) /\ Owned(k) /\ Numbered(k) /\ Calm(k)
  BY DEF Steady, Sound
<1>2. k.ev \in [Event -> ECB(Vals)] /\ k.ev[RTCMutex] \in ECB(Vals)
  BY <1>1, Tasks7 DEF KernelState
<1>3. Owner(k) \in {None, Comm, RTC}
  BY <1>2, Tasks7 DEF Owner, ECB
<1>4. Waits(k) => k.Cur # Comm
  BY RunningTask DEF Waits, Free
<1>5. Raised(k) => Exists(k, RTC) /\ Owner(k) = RTC /\ InPend(k, Comm)
  BY <1>1 DEF Owned, Numbered
<1>6. Free(k.tcb[RTC])
  <2>1. CalmTask(RTC, k.tcb[RTC])
    BY <1>1, Tasks7 DEF Calm
  <2> QED
    BY <2>1, TasksDiffer DEF CalmTask, WaitsOf, Free
<1> QED
  BY <1>1, <1>2, <1>3, <1>4, <1>5, <1>6

\* vTaskRTC creates the mutex: the event has been clear all along.
LEMMA MutexCreateSteady ==
    ASSUME NEW k, Steady(k), ~Reserves(k)
    PROVE  LET r == OSMutexCreate(k, RTCMutex, TASK_PIP_PRIO)
           IN  Keeps(r, k) /\ Reserves(r) /\ r.tcb = k.tcb /\ Owner(r) = Owner(k)
<1> DEFINE c == OSMutexCreated
           m == WithEvent(k, RTCMutex, c)
           r == OSMutexCreate(k, RTCMutex, TASK_PIP_PRIO)
<1>1. /\ k \in KernelState(Vals) /\ k.ev \in [Event -> ECB(Vals)] /\ Owned(k)
      /\ k.ev[RTCMutex] \in ECB(Vals)
  BY Mutex
<1>2. k.PrioTbl[TASK_PIP_PRIO] = None
  BY DEF Reserves
<1>3. Owner(k) = None /\ ~Raised(k) /\ ~Waits(k) /\ k.ev[RTCMutex].Tbl = {} /\ ~InPend(k, Comm)
  BY <1>1, <1>2, Tasks7 DEF Owned, Raised
<1>4. c \in ECB(Vals) /\ c.Cnt = OS_MUTEX_AVAILABLE /\ c.Ptr = None /\ c.Tbl = {}
  BY MutexAssumption DEF OSMutexCreated, ECB, Vals
<1>5. r = WithPrio(m, TASK_PIP_PRIO, Reserved)
  BY <1>1, <1>2 DEF OSMutexCreate, WithEvent, WithPrio
<1> HIDE DEF c, m, r
<1>6. /\ m \in KernelState(Vals) /\ m.ev = [k.ev EXCEPT ![RTCMutex] = c]
      /\ m.tcb = k.tcb /\ m.PrioTbl = k.PrioTbl /\ m.Rdy = k.Rdy /\ SameRunning(m, k)
  BY <1>1, <1>4, Tasks7, SetEvent DEF m
<1>7. /\ r \in KernelState(Vals) /\ r.PrioTbl = [m.PrioTbl EXCEPT ![TASK_PIP_PRIO] = Reserved]
      /\ r.tcb = m.tcb /\ r.Rdy = m.Rdy /\ r.ev = m.ev /\ SameRunning(r, m)
  <2>1. TASK_PIP_PRIO \in Prios /\ Reserved \in Task \cup {None, Reserved}
    BY Priorities
  <2> QED
    BY <1>5, <1>6, <2>1, SetPrio
<1>8. r.PrioTbl[TASK_PIP_PRIO] = Reserved /\ \A p \in Prios \ {TASK_PIP_PRIO} : r.PrioTbl[p] = k.PrioTbl[p]
  BY <1>1, <1>6, <1>7, Priorities DEF KernelState
<1>9. ~Raised(r) /\ Reserves(r)
  BY <1>8, Tasks7 DEF Raised, Reserves
<1>10. r.ev[RTCMutex] = c /\ r.tcb = k.tcb /\ r.Rdy = k.Rdy /\ SameRunning(r, k)
  BY <1>1, <1>6, <1>7, Tasks7 DEF SameRunning, SameNesting
<1>11. Owner(r) = None /\ Available(r, RTCMutex)
  BY <1>4, <1>10 DEF Owner, Available
<1>12. Owned(r)
  BY <1>3, <1>4, <1>9, <1>10, <1>11 DEF Owned, Waits, InPend
<1>13. Keeps(r, k)
  BY <1>3, <1>7, <1>8, <1>9, <1>10, <1>12, EventSteady
<1> QED
  BY <1>3, <1>9, <1>10, <1>11, <1>13 DEF r

\* The running task takes the mutex.
LEMMA TakeSteady ==
    ASSUME NEW k, Steady(k), k.Cur \in {Comm, RTC}, Available(k, RTCMutex), Reserves(k)
    PROVE  LET r == TakeMutex(k, RTCMutex)
           IN  Keeps(r, k) /\ Owner(r) = k.Cur /\ r.tcb = k.tcb /\ (Reserves(r) <=> Reserves(k))
<1> DEFINE c == [k.ev[RTCMutex] EXCEPT !.Cnt = k.tcb[k.Cur].Prio, !.Ptr = k.Cur]
           r == TakeMutex(k, RTCMutex)
<1>1. /\ k \in KernelState(Vals) /\ k.ev \in [Event -> ECB(Vals)] /\ Owned(k)
      /\ k.ev[RTCMutex] \in ECB(Vals)
  BY Mutex
<1>2. Owner(k) = None /\ ~Raised(k) /\ ~Waits(k) /\ k.ev[RTCMutex].Tbl = {} /\ ~InPend(k, Comm)
  <2>1. Owner(k) = None
    BY <1>1 DEF Owned
  <2>2. Comm # None /\ RTC # None
    BY Tasks7
  <2> QED
    BY <1>1, <2>1, <2>2 DEF Owned
<1>3. /\ k.Cur \in Task /\ Exists(k, k.Cur) /\ k.tcb[k.Cur].Prio = BasePrio[k.Cur]
      /\ BasePrio[k.Cur] \in Prios /\ k.Cur \in Vals /\ k.Cur # None
  BY <1>2, RunningTask, Priorities, Tasks7 DEF PrioOf, Vals
<1>4. c \in ECB(Vals) /\ c.Cnt = BasePrio[k.Cur] /\ c.Ptr = k.Cur /\ c.Tbl = {}
  <2>1. BasePrio[k.Cur] \in Nat
    BY <1>3, Priorities
  <2> QED
    BY <1>1, <1>2, <1>3, <2>1 DEF ECB
<1>5. r = WithEvent(k, RTCMutex, c)
  BY DEF TakeMutex, WithEvent
<1> HIDE DEF c, r
<1>6. /\ r \in KernelState(Vals) /\ r.ev = [k.ev EXCEPT ![RTCMutex] = c]
      /\ r.tcb = k.tcb /\ r.PrioTbl = k.PrioTbl /\ r.Rdy = k.Rdy /\ SameRunning(r, k)
  BY <1>1, <1>4, <1>5, Tasks7, SetEvent
<1>7. r.ev[RTCMutex] = c
  BY <1>1, <1>6, Tasks7
<1>8. Owner(r) = k.Cur /\ ~Available(r, RTCMutex)
  BY <1>3, <1>4, <1>7, MutexAssumption DEF Owner, Available
<1>9. ~Raised(r) /\ ~Waits(r) /\ ~InPend(r, Comm) /\ Exists(r, k.Cur) /\ (Reserves(r) <=> Reserves(k))
  BY <1>2, <1>3, <1>6 DEF Raised, Waits, InPend, Exists, Reserves
<1>10. Owned(r)
  BY <1>3, <1>4, <1>7, <1>8, <1>9 DEF Owned, Reserves
<1>11. r.PrioTbl[TASK_PIP_PRIO] \in {None, Reserved, RTC}
  BY <1>6 DEF Steady, Sound, Numbered
<1>12. Keeps(r, k)
  BY <1>2, <1>6, <1>9, <1>10, <1>11, EventSteady
<1> QED
  BY <1>6, <1>8, <1>9, <1>12 DEF r

\* vTaskComm goes on after it has been handed the mutex.
LEMMA TailSteady ==
    ASSUME NEW k, Steady(k), k.Cur = Comm, InPend(k, Comm)
    PROVE  LET r == PendTail(k)
           IN  Keeps(r, k) /\ Owner(r) = Comm /\ ~InPend(r, Comm) /\ (Reserves(r) <=> Reserves(k))
<1> DEFINE b == Returned(k.tcb[Comm])
           r == PendTail(k)
<1>1. /\ k \in KernelState(Vals) /\ Sound(k) /\ MayPend(k) /\ Runner(k) /\ Owned(k)
      /\ Calm(k) /\ ~Waits(k) /\ Comm \in Task /\ k.tcb[Comm] \in TCB(Vals)
      /\ Exists(k, Comm) /\ Free(k.tcb[Comm])
  BY Mutex, RunningTask, Tasks7 DEF Steady, Sound
<1>2. k.tcb[Comm].StatPend = "OK" /\ PrioOf(k, Comm) \in k.Rdy
  BY <1>1 DEF Calm, CalmTask, Sound, Listed
<1>3. /\ b \in TCB(Vals) /\ b.Prio = k.tcb[Comm].Prio /\ b.Stat = {} /\ b.StatPend = "OK"
      /\ b.EventPtr = None /\ b.Dly = k.tcb[Comm].Dly
  BY <1>1, Tasks7 DEF Returned, TCB, Vals
<1>4. /\ r \in KernelState(Vals) /\ r.tcb = [k.tcb EXCEPT ![Comm] = b] /\ r.ev = k.ev
      /\ r.Rdy = k.Rdy /\ r.PrioTbl = k.PrioTbl /\ SameRunning(r, k)
  <2>1. None \in Vals /\ InPend(k, k.Cur)
    BY DEF Vals
  <2> QED
    BY <1>1, <1>2, <2>1, PendTailFields
<1> HIDE DEF b, r
<1>5. r.tcb[Comm] = b /\ \A u \in Task \ {Comm} : r.tcb[u] = k.tcb[u]
  BY <1>1, <1>4 DEF KernelState
<1>6. Free(b) /\ CalmTask(Comm, b)
  BY <1>1, <1>3, TasksDiffer DEF Free, CalmTask
<1>7. Changes(k, r, Comm)
  BY <1>1, <1>2, <1>3, <1>4, <1>5, <1>6 DEF Changes
<1>8. Calm(r)
  BY <1>1, <1>5, <1>6 DEF Calm
<1>9. Owner(k) = Comm
  BY <1>1 DEF Owned
<1>10. /\ Owner(r) = Comm /\ ~InPend(r, Comm) /\ ~Waits(r) /\ (Reserves(r) <=> Reserves(k))
       /\ (Raised(r) <=> Raised(k)) /\ (\A t : Exists(r, t) <=> Exists(k, t))
       /\ (Available(r, RTCMutex) <=> Available(k, RTCMutex))
  BY <1>3, <1>4, <1>5, <1>9 DEF Owner, InPend, Waits, Reserves, Raised, Exists, Available
<1>11. Owned(r)
  BY <1>1, <1>4, <1>9, <1>10 DEF Owned, Reserves
<1>12. Sound(r)
  BY <1>1, <1>7, <1>8, <1>11, ChangesSound
<1>13. MayPend(r) /\ Runner(r)
  BY <1>1, <1>4 DEF MayPend, Runner, SameRunning, SameNesting
<1>14. r.tcb[Lift] = k.tcb[Lift] /\ r.tcb[Comm].Dly = k.tcb[Comm].Dly
  BY <1>3, <1>5, Tasks7, TasksDiffer
<1> QED
  BY <1>10, <1>12, <1>13, <1>14 DEF Keeps, Steady, r

\* The mutex is released to nobody.
LEMMA FreeSteady ==
    ASSUME NEW k, Steady(k), Owner(k) = k.Cur, ~Raised(k), ~InPend(k, k.Cur)
    PROVE  LET r == OSMutexPost(k, RTCMutex, TASK_PIP_PRIO)
           IN  Keeps(r, k) /\ Owner(r) = None /\ r.tcb = k.tcb /\ (Reserves(r) <=> Reserves(k))
<1> DEFINE m == WithPrio(k, TASK_PIP_PRIO, Reserved)
           c == [m.ev[RTCMutex] EXCEPT !.Cnt = OS_MUTEX_AVAILABLE, !.Ptr = None]
           r == OSMutexPost(k, RTCMutex, TASK_PIP_PRIO)
<1>1. /\ k \in KernelState(Vals) /\ k.ev \in [Event -> ECB(Vals)] /\ Owned(k) /\ Numbered(k)
      /\ k.ev[RTCMutex] \in ECB(Vals) /\ k.Cur \in {Comm, RTC} /\ k.Cur \in Task /\ k.Cur # None
  BY Mutex, RunningTask, Tasks7 DEF Steady, Sound
<1>2. ~Waits(k) /\ k.ev[RTCMutex].Tbl = {} /\ ~InPend(k, Comm) /\ k.PrioTbl[TASK_PIP_PRIO] = Reserved
  BY <1>1, TasksDiffer DEF Owned, Numbered, Raised
<1>3. k.tcb[k.Cur].Prio # TASK_PIP_PRIO
  <2>1. k.tcb[k.Cur].Prio = BasePrio[k.Cur]
    BY RunningTask DEF PrioOf
  <2> QED
    BY <1>1, <2>1, Priorities
<1>4. /\ m \in KernelState(Vals) /\ m.PrioTbl = [k.PrioTbl EXCEPT ![TASK_PIP_PRIO] = Reserved]
      /\ m.tcb = k.tcb /\ m.Rdy = k.Rdy /\ m.ev = k.ev /\ SameRunning(m, k)
  <2>1. TASK_PIP_PRIO \in Prios /\ Reserved \in Task \cup {None, Reserved}
    BY Priorities
  <2> QED
    BY <1>1, <2>1, SetPrio
<1>5. r = WithEvent(m, RTCMutex, c)
  <2>1. k.ev[RTCMutex].Ptr = k.Cur
    BY DEF Owner
  <2>2. m.ev[RTCMutex].Tbl = {}
    BY <1>2, <1>4
  <2>3. [k EXCEPT !.PrioTbl[TASK_PIP_PRIO] = Reserved] = m
    BY DEF WithPrio
  <2> HIDE DEF m
  <2>4. r = [m EXCEPT !.ev[RTCMutex].Cnt = OS_MUTEX_AVAILABLE, !.ev[RTCMutex].Ptr = None]
    BY <1>3, <2>1, <2>2, <2>3 DEF OSMutexPost
  <2> HIDE DEF r
  <2> QED
    BY <2>4 DEF WithEvent
<1> HIDE DEF m
<1>6. c \in ECB(Vals) /\ c.Cnt = OS_MUTEX_AVAILABLE /\ c.Ptr = None /\ c.Tbl = {}
  BY <1>1, <1>2, <1>4, MutexAssumption DEF ECB, Vals
<1> HIDE DEF c, r
<1>7. /\ r \in KernelState(Vals) /\ r.ev = [m.ev EXCEPT ![RTCMutex] = c]
      /\ r.tcb = m.tcb /\ r.PrioTbl = m.PrioTbl /\ r.Rdy = m.Rdy /\ SameRunning(r, m)
  BY <1>4, <1>5, <1>6, Tasks7, SetEvent
<1>8. /\ r.PrioTbl[TASK_PIP_PRIO] = Reserved
      /\ \A p \in Prios \ {TASK_PIP_PRIO} : r.PrioTbl[p] = k.PrioTbl[p]
  BY <1>1, <1>4, <1>7, Priorities DEF KernelState
<1>9. ~Raised(r) /\ Reserves(r) /\ Reserves(k)
  BY <1>2, <1>8, Tasks7 DEF Raised, Reserves
<1>10. r.ev[RTCMutex] = c /\ r.tcb = k.tcb /\ r.Rdy = k.Rdy /\ SameRunning(r, k)
  BY <1>1, <1>4, <1>7, Tasks7 DEF SameRunning, SameNesting
<1>11. Owner(r) = None /\ Available(r, RTCMutex)
  BY <1>6, <1>10 DEF Owner, Available
<1>12. Owned(r)
  BY <1>2, <1>6, <1>9, <1>10, <1>11 DEF Owned, Waits, InPend
<1>13. Keeps(r, k)
  BY <1>7, <1>8, <1>9, <1>10, <1>12, EventSteady
<1> QED
  BY <1>9, <1>10, <1>11, <1>13 DEF r

\* vTaskComm finds vTaskRTC in the section: it raises that, and sleeps.
LEMMA LockSleeps ==
    ASSUME NEW k, Steady(k), k.Cur = Comm, Owner(k) = RTC
    PROVE  LET r == OSMutexPend(k, RTCMutex, TASK_PIP_PRIO, 0)
           IN  Keeps(r, k) /\ Owner(r) = RTC /\ InPend(r, Comm) /\ (Reserves(r) <=> Reserves(k))
<1> DEFINE d  == [k.tcb[RTC] EXCEPT !.Prio = TASK_PIP_PRIO]
           R  == (k.Rdy \ {BasePrio[RTC]}) \cup {TASK_PIP_PRIO}
           k1 == WithTcb(k, RTC, d)
           k2 == WithPrio(k1, TASK_PIP_PRIO, RTC)
           k3 == WithRdy(k2, R)
           w  == Waiter(k.tcb[Comm], RTCMutex, "MUTEX", 0)
           m  == Asleep(k3, RTCMutex, "MUTEX", 0)
           r  == OSMutexPend(k, RTCMutex, TASK_PIP_PRIO, 0)
<1>1. /\ k \in KernelState(Vals) /\ k.ev \in [Event -> ECB(Vals)] /\ Owned(k) /\ Numbered(k)
      /\ Listed(k) /\ Calm(k) /\ MayPend(k) /\ k.PrioCur = PrioOf(k, Comm)
      /\ k.ev[RTCMutex] \in ECB(Vals) /\ Comm \in Task /\ RTC \in Task /\ Comm # RTC /\ RTC # None
      /\ k.tcb[Comm] \in TCB(Vals) /\ k.tcb[RTC] \in TCB(Vals) /\ Exists(k, Comm)
      /\ Lift \in Task /\ Lift # Comm /\ Lift # RTC /\ RTC # Idle /\ Comm # Idle
  BY Mutex, RunningTask, Tasks7, TasksDiffer DEF Steady, Sound, KernelState
<1>2. ~Waits(k) /\ ~Raised(k) /\ k.ev[RTCMutex].Tbl = {} /\ Exists(k, RTC)
      /\ k.ev[RTCMutex].Cnt = BasePrio[RTC] /\ Reserves(k) /\ ~Available(k, RTCMutex)
  BY <1>1, Mutex DEF Owned, Reserves
<1>3. /\ k.tcb[RTC].Prio = BasePrio[RTC] /\ k.tcb[Comm].Prio = BasePrio[Comm]
      /\ Free(k.tcb[RTC]) /\ BasePrio[RTC] \in k.Rdy /\ Free(k.tcb[Comm])
      /\ BasePrio[Comm] < BasePrio[RTC] /\ TASK_PIP_PRIO < BasePrio[RTC]
      /\ BasePrio[Comm] \in Prios /\ TASK_PIP_PRIO \in Prios /\ BasePrio[Comm] # TASK_PIP_PRIO
      /\ k.PrioCur = BasePrio[Comm] /\ BasePrio[Comm] # BasePrio[RTC]
  <2>1. Free(k.tcb[RTC]) /\ Free(k.tcb[Comm])
    BY <1>2, Mutex, RunningTask
  <2>2. PrioOf(k, RTC) = BasePrio[RTC] /\ PrioOf(k, Comm) = BasePrio[Comm]
    BY <1>2 DEF PrioOf
  <2>3. k.tcb[RTC].Prio = BasePrio[RTC] /\ k.tcb[Comm].Prio = BasePrio[Comm] /\ BasePrio[RTC] \in k.Rdy
    BY <1>1, <1>2, <2>1, <2>2 DEF Numbered, Listed
  <2> QED
    BY <1>1, <2>1, <2>2, <2>3, Priorities
<1>4. r = OS_Sched(m)
  <2>1. Promote(k, RTC, TASK_PIP_PRIO) = k3
    BY <1>1, <1>3 DEF Promote, WithTcb, WithPrio, WithRdy, KernelState
  <2>2. k.ev[RTCMutex].Ptr = RTC
    BY DEF Owner
  <2>3. r = Sleep(k3, RTCMutex, "MUTEX", 0)
    <3> HIDE DEF k3, m
    <3> QED
      BY <1>2, <1>3, <2>1, <2>2 DEF OSMutexPend
  <2> HIDE DEF k3
  <2> QED
    BY <2>3 DEF Sleep, Asleep
<1>5. /\ d \in TCB(Vals) /\ d.Prio = TASK_PIP_PRIO /\ d.Stat = k.tcb[RTC].Stat /\ d.Dly = k.tcb[RTC].Dly
      /\ d.EventPtr = k.tcb[RTC].EventPtr /\ d.StatPend = k.tcb[RTC].StatPend
  BY <1>1, <1>3 DEF TCB
<1>6. /\ w \in TCB(Vals) /\ w.Prio = BasePrio[Comm] /\ w.EventPtr = RTCMutex
      /\ w.Stat = {"MUTEX"} /\ w.StatPend = "OK" /\ w.Dly = 0
  <2>1. /\ w \in TCB(Vals) /\ w.Prio = k.tcb[Comm].Prio /\ w.EventPtr = RTCMutex
        /\ w.Stat = k.tcb[Comm].Stat \cup {"MUTEX"} /\ w.StatPend = "OK" /\ w.Dly = 0
    <3>1. RTCMutex \in Event /\ "MUTEX" \in Stats /\ 0 \in Nat
      BY Tasks7 DEF Stats, PendAny
    <3> QED
      BY <1>1, <3>1, WaiterType
  <2> QED
    BY <1>3, <2>1 DEF Free
<1> HIDE DEF d, R, k1, k2, k3, w, m, r
<1>7. /\ k1 \in KernelState(Vals) /\ k1.tcb = [k.tcb EXCEPT ![RTC] = d] /\ k1.PrioTbl = k.PrioTbl
      /\ k1.Rdy = k.Rdy /\ k1.ev = k.ev /\ SameRunning(k1, k)
  BY <1>1, <1>5, SetTcb DEF k1
<1>8. /\ k2 \in KernelState(Vals) /\ k2.PrioTbl = [k1.PrioTbl EXCEPT ![TASK_PIP_PRIO] = RTC]
      /\ k2.tcb = k1.tcb /\ k2.Rdy = k1.Rdy /\ k2.ev = k1.ev /\ SameRunning(k2, k1)
  <2>1. RTC \in Task \cup {None, Reserved}
    BY <1>1
  <2> QED
    BY <1>3, <1>7, <2>1, SetPrio DEF k2
<1>9. /\ k3 \in KernelState(Vals) /\ k3.Rdy = R /\ k3.tcb = k2.tcb /\ k3.PrioTbl = k2.PrioTbl
      /\ k3.ev = k2.ev /\ SameRunning(k3, k2)
  <2>1. R \in SUBSET Prios
    BY <1>1, <1>3 DEF R, KernelState
  <2> QED
    BY <1>8, <2>1, SetRdy DEF k3
<1>10. /\ k3.Cur = Comm /\ k3.PrioCur = BasePrio[Comm] /\ MayPend(k3)
       /\ k3.tcb[Comm] = k.tcb[Comm] /\ k3.tcb[RTC] = d
       /\ \A t \in Task \ {RTC} : k3.tcb[t] = k.tcb[t]
       /\ k3.ev[RTCMutex] = k.ev[RTCMutex] /\ k3.ev = k.ev /\ k3.tcb \in [Task -> TCB(Vals)]
  BY <1>1, <1>3, <1>7, <1>8, <1>9 DEF SameRunning, SameNesting, MayPend, KernelState
<1>11. /\ m \in KernelState(Vals) /\ m.tcb = [k3.tcb EXCEPT ![Comm] = w]
       /\ m.Rdy = R \ {BasePrio[Comm]} /\ m.PrioTbl = k3.PrioTbl /\ SameRunning(m, k3)
       /\ m.ev = [k.ev EXCEPT ![RTCMutex] = [k.ev[RTCMutex] EXCEPT !.Tbl = {BasePrio[Comm]}]]
  <2>1. "MUTEX" \in Stats /\ 0 \in Nat /\ RTCMutex \in Event
    BY Tasks7 DEF Stats, PendAny
  <2>2. /\ m \in KernelState(Vals)
        /\ m.tcb = [k3.tcb EXCEPT ![k3.Cur] = Waiter(k3.tcb[k3.Cur], RTCMutex, "MUTEX", 0)]
        /\ m.Rdy = k3.Rdy \ {k3.tcb[k3.Cur].Prio}
        /\ m.ev = [k3.ev EXCEPT ![RTCMutex] = [k3.ev[RTCMutex] EXCEPT
                      !.Tbl = k3.ev[RTCMutex].Tbl \cup {k3.tcb[k3.Cur].Prio}]]
        /\ m.PrioTbl = k3.PrioTbl /\ SameRunning(m, k3)
    BY <1>9, <2>1, AsleepFields DEF m
  <2>3. k3.tcb[k3.Cur].Prio = BasePrio[Comm] /\ k3.ev[RTCMutex].Tbl \cup {BasePrio[Comm]} = {BasePrio[Comm]}
    BY <1>2, <1>3, <1>10
  <2> QED
    BY <1>9, <1>10, <2>2, <2>3 DEF w
<1>12. /\ m.tcb[Comm] = w /\ m.tcb[RTC] = d /\ \A t \in Task \ {Comm, RTC} : m.tcb[t] = k.tcb[t]
       /\ m.PrioTbl[TASK_PIP_PRIO] = RTC /\ \A p \in Prios \ {TASK_PIP_PRIO} : m.PrioTbl[p] = k.PrioTbl[p]
       /\ m.ev[RTCMutex].Tbl = {BasePrio[Comm]} /\ m.ev[RTCMutex].Cnt = BasePrio[RTC] /\ Owner(m) = RTC
       /\ m.Cur = Comm /\ m.PrioCur = BasePrio[Comm] /\ MayPend(m)
  <2>1. m.tcb[Comm] = w /\ m.tcb[RTC] = d /\ \A t \in Task \ {Comm, RTC} : m.tcb[t] = k.tcb[t]
    BY <1>1, <1>10, <1>11
  <2>2. /\ m.PrioTbl[TASK_PIP_PRIO] = RTC
        /\ \A p \in Prios \ {TASK_PIP_PRIO} : m.PrioTbl[p] = k.PrioTbl[p]
    BY <1>1, <1>3, <1>7, <1>8, <1>9, <1>11 DEF KernelState
  <2>3. /\ m.ev[RTCMutex].Tbl = {BasePrio[Comm]} /\ m.ev[RTCMutex].Cnt = BasePrio[RTC]
        /\ m.ev[RTCMutex].Ptr = RTC
    <3>1. m.ev[RTCMutex] = [k.ev[RTCMutex] EXCEPT !.Tbl = {BasePrio[Comm]}]
      BY <1>1, <1>11, Tasks7
    <3> QED
      BY <1>1, <1>2, <3>1 DEF Owner, ECB
  <2>4. m.Cur = Comm /\ m.PrioCur = BasePrio[Comm] /\ MayPend(m)
    BY <1>10, <1>11 DEF SameRunning, SameNesting, MayPend
  <2> QED
    BY <2>1, <2>2, <2>3, <2>4 DEF Owner
<1>13. /\ Raised(m) /\ Waits(m) /\ InPend(m, Comm) /\ Reserves(m) /\ ~Available(m, RTCMutex)
  BY <1>1, <1>2, <1>6, <1>12, Tasks7 DEF Raised, Waits, InPend, Reserves, Available
<1>14. \A t \in Task : /\ Exists(m, t) <=> Exists(k, t)
                       /\ m.PrioTbl[BasePrio[t]] = k.PrioTbl[BasePrio[t]]
                       /\ PrioOf(m, t) = (IF t = RTC THEN TASK_PIP_PRIO ELSE BasePrio[t])
                       /\ PrioOf(k, t) = BasePrio[t] /\ BasePrio[t] # TASK_PIP_PRIO
  <2>1. \A t \in Task : BasePrio[t] \in Prios \ {TASK_PIP_PRIO} /\ BasePrio[t] # TASK_PIP_PRIO
    BY Priorities
  <2> QED
    BY <1>2, <1>12, <1>13, <2>1 DEF Exists, PrioOf
<1>15. Numbered(m)
  <2>1. ASSUME NEW t \in Task
        PROVE  IF Exists(m, t) THEN m.tcb[t].Prio = PrioOf(m, t)
               ELSE m.PrioTbl[BasePrio[t]] = None /\ Free(m.tcb[t])
    BY <1>1, <1>2, <1>5, <1>6, <1>12, <1>14 DEF Numbered
  <2> QED
    BY <1>1, <1>2, <1>12, <1>14, <2>1, Tasks7 DEF Numbered
<1>16. Listed(m)
  <2>1. ASSUME NEW t \in Task, Exists(m, t) PROVE PrioOf(m, t) \in m.Rdy <=> Free(m.tcb[t])
    <3>1. CASE t = RTC
      BY <1>1, <1>3, <1>5, <1>11, <1>12, <1>14, <3>1 DEF R, Free
    <3>2. CASE t = Comm
      BY <1>1, <1>6, <1>11, <1>12, <1>14, <3>2 DEF Free
    <3>3. CASE t \notin {RTC, Comm}
      <4>1. BasePrio[t] # BasePrio[RTC] /\ BasePrio[t] # BasePrio[Comm] /\ BasePrio[t] # TASK_PIP_PRIO
        BY <1>1, <1>14, <3>3, Priorities
      <4>2. BasePrio[t] \in k.Rdy <=> Free(k.tcb[t])
        BY <1>1, <1>14, <2>1 DEF Listed
      <4> QED
        BY <1>11, <1>12, <1>14, <3>3, <4>1, <4>2 DEF R
    <3> QED
      BY <3>1, <3>2, <3>3
  <2>2. \A q \in m.Rdy : \E t \in Task : Exists(m, t) /\ PrioOf(m, t) = q
    <3> SUFFICES ASSUME NEW q \in m.Rdy PROVE \E t \in Task : Exists(m, t) /\ PrioOf(m, t) = q
      OBVIOUS
    <3>1. CASE q = TASK_PIP_PRIO
      BY <1>1, <1>2, <1>14, <3>1
    <3>2. CASE q # TASK_PIP_PRIO
      <4>1. q \in k.Rdy /\ q # BasePrio[RTC]
        BY <1>11, <3>2 DEF R
      <4>2. PICK t \in Task : Exists(k, t) /\ PrioOf(k, t) = q
        BY <1>1, <4>1 DEF Listed
      <4> QED
        BY <1>14, <4>1, <4>2
    <3> QED
      BY <3>1, <3>2
  <2> QED
    BY <2>1, <2>2 DEF Listed
<1>17. Calm(m)
  <2> SUFFICES ASSUME NEW t \in Task PROVE CalmTask(t, m.tcb[t])
    BY DEF Calm
  <2>1. CalmTask(t, k.tcb[t])
    BY <1>1 DEF Calm
  <2>2. CASE t = RTC
    BY <1>5, <1>12, <2>1, <2>2 DEF CalmTask
  <2>3. CASE t = Comm
    BY <1>1, <1>6, <1>12, <2>3, TasksDiffer DEF CalmTask, WaitsOf
  <2> QED
    BY <1>12, <2>1, <2>2, <2>3
<1>18. Owned(m)
  BY <1>1, <1>2, <1>12, <1>13, <1>14 DEF Owned, Reserves
<1>19. Sound(m)
  BY <1>1, <1>11, <1>12, <1>14, <1>15, <1>16, <1>17, <1>18 DEF Sound
<1>20. Steady(r) /\ SameTables(r, m)
  BY <1>4, <1>12, <1>19, SchedSteady
<1>21. \A t \in Task : Exists(r, t) <=> Exists(k, t)
  BY <1>14, <1>20 DEF SameTables, Exists
<1>22. r.tcb[Lift] = k.tcb[Lift] /\ r.tcb[Comm].Dly = k.tcb[Comm].Dly
  BY <1>1, <1>3, <1>6, <1>12, <1>20 DEF SameTables, Free
<1>23. Owner(r) = RTC /\ InPend(r, Comm) /\ Reserves(r)
  BY <1>12, <1>13, <1>20 DEF SameTables, Owner, InPend, Reserves
<1> QED
  BY <1>2, <1>20, <1>21, <1>22, <1>23 DEF Keeps, r

\* vTaskRTC goes back to its own priority.
LEMMA LoweredFields ==
    ASSUME NEW k \in KernelState(Vals), k.Cur = RTC, k.tcb[RTC].Prio = TASK_PIP_PRIO
    PROVE  LET r == OSMutex_RdyAtPrio(k, BasePrio[RTC])
           IN  /\ r \in KernelState(Vals)
               /\ r.tcb = [k.tcb EXCEPT ![RTC] = [k.tcb[RTC] EXCEPT !.Prio = BasePrio[RTC]]]
               /\ r.Rdy = (k.Rdy \ {TASK_PIP_PRIO}) \cup {BasePrio[RTC]}
               /\ r.PrioTbl = [k.PrioTbl EXCEPT ![BasePrio[RTC]] = RTC] /\ r.ev = k.ev
               /\ r.Cur = RTC /\ r.PrioCur = BasePrio[RTC] /\ SameNesting(r, k)
<1> DEFINE p  == BasePrio[RTC]
           d  == [k.tcb[RTC] EXCEPT !.Prio = p]
           n0 == NotReady(k, RTC)
           n1 == WithTcb(n0, RTC, d)
           n2 == WithPrio(n1, p, RTC)
           n3 == [n2 EXCEPT !.PrioCur = p]
           r  == OSMutex_RdyAtPrio(k, p)
<1>1. RTC \in Task /\ p \in Prios /\ k.tcb[RTC] \in TCB(Vals)
  BY Tasks7, Priorities DEF KernelState
<1>2. d \in TCB(Vals) /\ d.Prio = p
  BY <1>1 DEF TCB
<1>3. /\ n0 \in KernelState(Vals) /\ n0.Rdy = k.Rdy \ {TASK_PIP_PRIO} /\ n0.tcb = k.tcb
      /\ n0.PrioTbl = k.PrioTbl /\ n0.ev = k.ev /\ SameRunning(n0, k)
  BY <1>1, NotReadyFields
<1>4. r = Ready(n3, RTC)
  <2>1. r = Ready([n0 EXCEPT !.tcb[RTC].Prio = p, !.PrioCur = p, !.PrioTbl[p] = RTC], RTC)
    BY DEF OSMutex_RdyAtPrio
  <2> HIDE DEF n0, r
  <2>2. [n0 EXCEPT !.tcb[RTC].Prio = p, !.PrioCur = p, !.PrioTbl[p] = RTC] = n3
    <3>1. n0.tcb[RTC] = k.tcb[RTC]
      BY <1>3
    <3> QED
      BY <1>3, <3>1 DEF WithTcb, WithPrio, KernelState
  <2> HIDE DEF n3
  <2> QED
    BY <2>1, <2>2
<1> HIDE DEF d, n0, n1, n2, r
<1>5. /\ n1 \in KernelState(Vals) /\ n1.tcb = [n0.tcb EXCEPT ![RTC] = d]
      /\ n1.PrioTbl = n0.PrioTbl /\ n1.Rdy = n0.Rdy /\ n1.ev = n0.ev /\ SameRunning(n1, n0)
  BY <1>1, <1>2, <1>3, SetTcb DEF n1
<1>6. /\ n2 \in KernelState(Vals) /\ n2.PrioTbl = [n1.PrioTbl EXCEPT ![p] = RTC]
      /\ n2.tcb = n1.tcb /\ n2.Rdy = n1.Rdy /\ n2.ev = n1.ev /\ SameRunning(n2, n1)
  <2>1. RTC \in Task \cup {None, Reserved}
    BY <1>1
  <2> QED
    BY <1>1, <1>5, <2>1, SetPrio DEF n2
<1>7. /\ n3 \in KernelState(Vals) /\ n3.tcb = n2.tcb /\ n3.PrioTbl = n2.PrioTbl /\ n3.Rdy = n2.Rdy
      /\ n3.ev = n2.ev /\ n3.Cur = n2.Cur /\ n3.PrioCur = p /\ SameNesting(n3, n2)
  BY <1>1, <1>6 DEF KernelState, SameNesting
<1> HIDE DEF n3
<1>8. n3.tcb[RTC].Prio = p
  BY <1>1, <1>2, <1>3, <1>5, <1>6, <1>7 DEF KernelState
<1>9. /\ r \in KernelState(Vals) /\ r.Rdy = n3.Rdy \cup {p} /\ r.tcb = n3.tcb
      /\ r.PrioTbl = n3.PrioTbl /\ r.ev = n3.ev /\ SameRunning(r, n3)
  BY <1>1, <1>4, <1>7, <1>8, ReadyFields
<1>10. /\ r.tcb = [k.tcb EXCEPT ![RTC] = d] /\ r.Rdy = (k.Rdy \ {TASK_PIP_PRIO}) \cup {p}
       /\ r.PrioTbl = [k.PrioTbl EXCEPT ![p] = RTC] /\ r.ev = k.ev
  BY <1>3, <1>5, <1>6, <1>7, <1>9
<1>11. r.Cur = RTC /\ r.PrioCur = p /\ SameNesting(r, k)
  BY <1>3, <1>5, <1>6, <1>7, <1>9 DEF SameRunning, SameNesting
<1> QED
  BY <1>9, <1>10, <1>11 DEF r, d

\* vTaskComm is answered.
LEMMA CommAnswered ==
    ASSUME NEW k \in KernelState(Vals), HighestWaiter(k, RTCMutex) = Comm
    PROVE  LET r == OS_EventTaskRdy(k, RTCMutex, None, "MUTEX", "OK")
           IN  r \in KernelState(Vals) /\ Answers(r, k, Comm, RTCMutex, None, "MUTEX", "OK")
<1>1. /\ RTCMutex \in Event /\ None \in Vals /\ "OK" \in {"OK", "TO", "ABORT"}
      /\ Comm \in Task /\ Comm = HighestWaiter(k, RTCMutex)
  BY Tasks7 DEF Vals
<1> QED
  BY <1>1, TaskRdyAnswers

\* vTaskRTC hands the mutex to vTaskComm.
LEMMA HandOver ==
    ASSUME NEW k, Steady(k), k.Cur = RTC, Raised(k)
    PROVE  LET r == OSMutexPost(k, RTCMutex, TASK_PIP_PRIO)
           IN  Keeps(r, k) /\ Owner(r) = Comm /\ InPend(r, Comm) /\ (Reserves(r) <=> Reserves(k))
<1> DEFINE d  == [k.tcb[RTC] EXCEPT !.Prio = BasePrio[RTC]]
           k1 == OSMutex_RdyAtPrio(k, BasePrio[RTC])
           k2 == WithPrio(k1, TASK_PIP_PRIO, Reserved)
           k3 == OS_EventTaskRdy(k2, RTCMutex, None, "MUTEX", "OK")
           b  == Answered(k.tcb[Comm], None, "MUTEX", "OK")
           c  == [k3.ev[RTCMutex] EXCEPT !.Cnt = BasePrio[Comm], !.Ptr = Comm]
           m  == WithEvent(k3, RTCMutex, c)
           r  == OSMutexPost(k, RTCMutex, TASK_PIP_PRIO)
<1>1. /\ k \in KernelState(Vals) /\ k.ev \in [Event -> ECB(Vals)] /\ Owned(k) /\ Numbered(k)
      /\ Listed(k) /\ Calm(k) /\ MayPend(k) /\ Owner(k) = RTC /\ Waits(k) /\ InPend(k, Comm)
      /\ k.ev[RTCMutex] \in ECB(Vals) /\ Comm \in Task /\ RTC \in Task /\ Comm # RTC /\ Comm # None
      /\ k.tcb[Comm] \in TCB(Vals) /\ k.tcb[RTC] \in TCB(Vals) /\ Exists(k, RTC) /\ Free(k.tcb[RTC])
      /\ Lift \in Task /\ Lift # Comm /\ Lift # RTC /\ RTC # Idle /\ Comm # Idle
  BY Mutex, RunningTask, Tasks7, TasksDiffer DEF Steady, Sound, KernelState, Owned
<1>2. /\ k.tcb[RTC].Prio = TASK_PIP_PRIO /\ k.ev[RTCMutex].Cnt = BasePrio[RTC]
      /\ k.ev[RTCMutex].Tbl = {BasePrio[Comm]} /\ k.ev[RTCMutex].Ptr = RTC
      /\ Exists(k, Comm) /\ k.tcb[Comm].Prio = BasePrio[Comm] /\ ~Free(k.tcb[Comm])
      /\ k.tcb[Comm].Stat = {"MUTEX"} /\ k.tcb[Comm].Dly = 0 /\ k.PrioTbl[TASK_PIP_PRIO] = RTC
  <2>1. k.ev[RTCMutex].Ptr = RTC /\ k.ev[RTCMutex].Cnt = BasePrio[RTC] /\ k.ev[RTCMutex].Tbl = {BasePrio[Comm]}
    BY <1>1, Tasks7 DEF Owned, Owner
  <2>2. ~Free(k.tcb[Comm]) /\ k.tcb[Comm].Stat = {"MUTEX"} /\ k.tcb[Comm].Dly = 0
    BY <1>1, TasksDiffer DEF Waits, Free, Calm, CalmTask, WaitsOf
  <2>3. Exists(k, Comm) /\ k.tcb[Comm].Prio = BasePrio[Comm]
    BY <1>1, <2>2 DEF Numbered, PrioOf
  <2>4. k.tcb[RTC].Prio = TASK_PIP_PRIO
    BY <1>1 DEF Numbered, PrioOf
  <2> QED
    BY <2>1, <2>2, <2>3, <2>4 DEF Raised
<1>3. /\ BasePrio[Comm] \in Prios /\ BasePrio[RTC] \in Prios /\ TASK_PIP_PRIO \in Prios
      /\ BasePrio[Comm] # TASK_PIP_PRIO /\ BasePrio[RTC] # TASK_PIP_PRIO
      /\ BasePrio[Comm] # BasePrio[RTC] /\ BasePrio[Comm] \in Nat
  BY <1>1, Priorities
<1>4. Highest({BasePrio[Comm]}) = BasePrio[Comm]
  <2>1. {BasePrio[Comm]} \in SUBSET Nat /\ {BasePrio[Comm]} # {}
    BY <1>3
  <2>2. Highest({BasePrio[Comm]}) \in {BasePrio[Comm]}
    BY <2>1, HighestIs
  <2> QED
    BY <2>2
<1>5. /\ k1 \in KernelState(Vals) /\ k1.tcb = [k.tcb EXCEPT ![RTC] = d]
      /\ k1.Rdy = (k.Rdy \ {TASK_PIP_PRIO}) \cup {BasePrio[RTC]}
      /\ k1.PrioTbl = [k.PrioTbl EXCEPT ![BasePrio[RTC]] = RTC] /\ k1.ev = k.ev
      /\ k1.Cur = RTC /\ k1.PrioCur = BasePrio[RTC] /\ SameNesting(k1, k)
  BY <1>1, <1>2, LoweredFields
<1>6. /\ d.Prio = BasePrio[RTC] /\ d.Stat = k.tcb[RTC].Stat /\ d.Dly = k.tcb[RTC].Dly
      /\ d.EventPtr = k.tcb[RTC].EventPtr /\ d.StatPend = k.tcb[RTC].StatPend
  BY <1>1 DEF TCB
<1> HIDE DEF k1, d
<1>7. /\ k2 \in KernelState(Vals) /\ k2.PrioTbl = [k1.PrioTbl EXCEPT ![TASK_PIP_PRIO] = Reserved]
      /\ k2.tcb = k1.tcb /\ k2.Rdy = k1.Rdy /\ k2.ev = k1.ev /\ SameRunning(k2, k1)
  <2>1. Reserved \in Task \cup {None, Reserved}
    OBVIOUS
  <2> QED
    BY <1>3, <1>5, <2>1, SetPrio
<1>8. /\ k2.PrioTbl[TASK_PIP_PRIO] = Reserved
      /\ \A q \in Prios \ {TASK_PIP_PRIO} : k2.PrioTbl[q] = k.PrioTbl[q]
      /\ k2.PrioTbl[BasePrio[Comm]] = Comm /\ k2.ev[RTCMutex].Tbl = {BasePrio[Comm]}
  <2>1. k.PrioTbl[BasePrio[RTC]] = RTC /\ k.PrioTbl[BasePrio[Comm]] = Comm
    BY <1>1, <1>2 DEF Exists
  <2> QED
    BY <1>1, <1>2, <1>3, <1>5, <1>7, <2>1 DEF KernelState
<1>9. r = OS_Sched(m)
  <2>1. k2 = [k1 EXCEPT !.PrioTbl[TASK_PIP_PRIO] = Reserved]
    BY DEF WithPrio
  <2> HIDE DEF k2, k3, m
  <2>2. r = OS_Sched([k3 EXCEPT !.ev[RTCMutex].Cnt = BasePrio[Comm], !.ev[RTCMutex].Ptr = Comm])
    <3> DEFINE l == IF k.tcb[k.Cur].Prio = TASK_PIP_PRIO
                    THEN OSMutex_RdyAtPrio(k, k.ev[RTCMutex].Cnt) ELSE k
               n == [l EXCEPT !.PrioTbl[TASK_PIP_PRIO] = Reserved]
               p == Highest(n.ev[RTCMutex].Tbl)
    <3>1. l = k1
      BY <1>2 DEF k1
    <3>2. n = k2
      BY <2>1, <3>1
    <3>3. r = IF k.ev[RTCMutex].Ptr # k.Cur THEN k
              ELSE IF n.ev[RTCMutex].Tbl = {}
              THEN [n EXCEPT !.ev[RTCMutex].Cnt = OS_MUTEX_AVAILABLE, !.ev[RTCMutex].Ptr = None]
              ELSE OS_Sched([OS_EventTaskRdy(n, RTCMutex, None, "MUTEX", "OK")
                                EXCEPT !.ev[RTCMutex].Cnt = p, !.ev[RTCMutex].Ptr = n.PrioTbl[p]])
      BY DEF OSMutexPost
    <3> HIDE DEF l, n, r
    <3>4. p = BasePrio[Comm] /\ n.PrioTbl[p] = Comm /\ n.ev[RTCMutex].Tbl # {}
      BY <1>4, <1>8, <3>2
    <3> HIDE DEF p
    <3>5. r = OS_Sched([OS_EventTaskRdy(n, RTCMutex, None, "MUTEX", "OK")
                           EXCEPT !.ev[RTCMutex].Cnt = p, !.ev[RTCMutex].Ptr = n.PrioTbl[p]])
      BY <1>2, <3>3, <3>4
    <3> QED
      BY <3>2, <3>4, <3>5 DEF k3
  <2>3. m = [k3 EXCEPT !.ev[RTCMutex].Cnt = BasePrio[Comm], !.ev[RTCMutex].Ptr = Comm]
    BY DEF m, WithEvent
  <2> HIDE DEF r
  <2> QED
    BY <2>2, <2>3
<1> HIDE DEF k2, r
<1>10. /\ k2.tcb[Comm] = k.tcb[Comm] /\ k2.tcb[RTC] = d /\ k2.tcb \in [Task -> TCB(Vals)]
       /\ \A t \in Task \ {RTC} : k2.tcb[t] = k.tcb[t]
  BY <1>1, <1>5, <1>7 DEF KernelState
<1>11. HighestWaiter(k2, RTCMutex) = Comm
  BY <1>4, <1>8 DEF HighestWaiter
<1>12. /\ k3 \in KernelState(Vals) /\ k3.tcb = [k2.tcb EXCEPT ![Comm] = b]
       /\ k3.Rdy = k2.Rdy \cup {BasePrio[Comm]}
       /\ k3.ev = [k2.ev EXCEPT ![RTCMutex] = [k2.ev[RTCMutex] EXCEPT !.Tbl = {}]]
       /\ k3.PrioTbl = k2.PrioTbl /\ SameRunning(k3, k2)
  <2>2. k3 \in KernelState(Vals) /\ Answers(k3, k2, Comm, RTCMutex, None, "MUTEX", "OK")
    BY <1>7, <1>11, CommAnswered
  <2>3. /\ "SUSPEND" \notin k2.tcb[Comm].Stat \ {"MUTEX"} /\ k2.tcb[Comm].Prio = BasePrio[Comm]
        /\ k2.ev[RTCMutex].Tbl \ {BasePrio[Comm]} = {}
    BY <1>2, <1>8, <1>10
  <2> HIDE DEF k3
  <2> QED
    BY <1>10, <2>2, <2>3 DEF Answers
<1>13. /\ b \in TCB(Vals) /\ b.Prio = BasePrio[Comm] /\ b.EventPtr = k.tcb[Comm].EventPtr
       /\ b.Stat = {} /\ b.StatPend = "OK" /\ b.Dly = 0
  <2>1. None \in Vals /\ "OK" \in {"OK", "TO", "ABORT"}
    BY DEF Vals
  <2>2. /\ b \in TCB(Vals) /\ b.Prio = k.tcb[Comm].Prio /\ b.EventPtr = k.tcb[Comm].EventPtr
        /\ b.Stat = k.tcb[Comm].Stat \ {"MUTEX"} /\ b.StatPend = "OK" /\ b.Dly = 0
    BY <1>1, <2>1, AnsweredType
  <2> QED
    BY <1>2, <2>2
<1> HIDE DEF k3, b
<1>14. /\ k3.ev[RTCMutex] \in ECB(Vals) /\ k3.ev[RTCMutex].Tbl = {}
  <2>1. k2.ev = k.ev
    BY <1>5, <1>7
  <2>2. k3.ev[RTCMutex] = [k.ev[RTCMutex] EXCEPT !.Tbl = {}]
    BY <1>1, <1>12, <2>1, Tasks7
  <2> QED
    BY <1>1, <2>2 DEF ECB
<1>15. c \in ECB(Vals) /\ c.Cnt = BasePrio[Comm] /\ c.Ptr = Comm /\ c.Tbl = {}
  BY <1>3, <1>14 DEF ECB, Vals
<1> HIDE DEF c, m
<1>16. /\ m \in KernelState(Vals) /\ m.ev = [k3.ev EXCEPT ![RTCMutex] = c]
       /\ m.tcb = k3.tcb /\ m.PrioTbl = k3.PrioTbl /\ m.Rdy = k3.Rdy /\ SameRunning(m, k3)
  BY <1>12, <1>15, Tasks7, SetEvent DEF m
<1>17. /\ m.tcb[Comm] = b /\ m.tcb[RTC] = d /\ \A t \in Task \ {Comm, RTC} : m.tcb[t] = k.tcb[t]
       /\ m.PrioTbl[TASK_PIP_PRIO] = Reserved
       /\ \A p \in Prios \ {TASK_PIP_PRIO} : m.PrioTbl[p] = k.PrioTbl[p]
       /\ m.ev[RTCMutex].Tbl = {} /\ m.ev[RTCMutex].Cnt = BasePrio[Comm] /\ m.ev[RTCMutex].Ptr = Comm
       /\ m.Rdy = ((k.Rdy \ {TASK_PIP_PRIO}) \cup {BasePrio[RTC]}) \cup {BasePrio[Comm]}
       /\ m.Cur = RTC /\ m.PrioCur = BasePrio[RTC] /\ MayPend(m)
  <2>1. m.tcb[Comm] = b /\ m.tcb[RTC] = d /\ \A t \in Task \ {Comm, RTC} : m.tcb[t] = k.tcb[t]
    BY <1>1, <1>10, <1>12, <1>16
  <2>2. m.PrioTbl = k2.PrioTbl /\ m.Rdy = k2.Rdy \cup {BasePrio[Comm]}
    BY <1>12, <1>16
  <2>3. m.ev[RTCMutex] = c
    BY <1>12, <1>16, Tasks7 DEF KernelState
  <2>4. m.Cur = RTC /\ m.PrioCur = BasePrio[RTC] /\ MayPend(m)
    BY <1>1, <1>5, <1>7, <1>12, <1>16 DEF SameRunning, SameNesting, MayPend
  <2> QED
    BY <1>5, <1>7, <1>8, <1>15, <2>1, <2>2, <2>3, <2>4
<1>18. /\ ~Raised(m) /\ ~Waits(m) /\ InPend(m, Comm) /\ Reserves(m) /\ ~Available(m, RTCMutex)
       /\ Owner(m) = Comm
  BY <1>1, <1>3, <1>13, <1>17, Tasks7, MutexAssumption
     DEF Raised, Waits, InPend, Reserves, Available, Owner
<1>19. \A t \in Task : /\ Exists(m, t) <=> Exists(k, t)
                       /\ m.PrioTbl[BasePrio[t]] = k.PrioTbl[BasePrio[t]]
                       /\ PrioOf(k, t) = (IF t = RTC THEN TASK_PIP_PRIO ELSE BasePrio[t])
                       /\ PrioOf(m, t) = BasePrio[t] /\ BasePrio[t] # TASK_PIP_PRIO
  <2>1. \A t \in Task : BasePrio[t] \in Prios \ {TASK_PIP_PRIO} /\ BasePrio[t] # TASK_PIP_PRIO
    BY Priorities
  <2> QED
    BY <1>17, <1>18, <2>1 DEF Exists, PrioOf
<1>20. Numbered(m)
  <2>1. ASSUME NEW t \in Task
        PROVE  IF Exists(m, t) THEN m.tcb[t].Prio = PrioOf(m, t)
               ELSE m.PrioTbl[BasePrio[t]] = None /\ Free(m.tcb[t])
    BY <1>1, <1>2, <1>6, <1>13, <1>17, <1>19 DEF Numbered
  <2> QED
    BY <1>1, <1>17, <1>18, <1>19, <2>1, Tasks7 DEF Numbered
<1>21. Listed(m)
  <2>1. ASSUME NEW t \in Task, Exists(m, t) PROVE PrioOf(m, t) \in m.Rdy <=> Free(m.tcb[t])
    <3>1. CASE t = RTC
      BY <1>1, <1>6, <1>17, <1>19, <3>1 DEF Free
    <3>2. CASE t = Comm
      BY <1>1, <1>13, <1>17, <1>19, <3>2 DEF Free
    <3>3. CASE t \notin {RTC, Comm}
      <4>1. BasePrio[t] # BasePrio[RTC] /\ BasePrio[t] # BasePrio[Comm] /\ BasePrio[t] # TASK_PIP_PRIO
        BY <1>1, <1>19, <3>3, Priorities
      <4>2. BasePrio[t] \in k.Rdy <=> Free(k.tcb[t])
        BY <1>1, <1>19, <2>1, <3>3 DEF Listed
      <4> QED
        BY <1>17, <1>19, <3>3, <4>1, <4>2
    <3> QED
      BY <3>1, <3>2, <3>3
  <2>2. \A q \in m.Rdy : \E t \in Task : Exists(m, t) /\ PrioOf(m, t) = q
    <3> SUFFICES ASSUME NEW q \in m.Rdy PROVE \E t \in Task : Exists(m, t) /\ PrioOf(m, t) = q
      OBVIOUS
    <3>1. CASE q = BasePrio[RTC]
      BY <1>1, <1>19, <3>1
    <3>2. CASE q = BasePrio[Comm]
      BY <1>1, <1>2, <1>19, <3>2
    <3>3. CASE q \in k.Rdy /\ q # TASK_PIP_PRIO
      <4>1. PICK t \in Task : Exists(k, t) /\ PrioOf(k, t) = q
        BY <1>1, <3>3 DEF Listed
      <4> QED
        BY <1>19, <3>3, <4>1
    <3> QED
      BY <1>17, <3>1, <3>2, <3>3
  <2> QED
    BY <2>1, <2>2 DEF Listed
<1>22. Calm(m)
  <2> SUFFICES ASSUME NEW t \in Task PROVE CalmTask(t, m.tcb[t])
    BY DEF Calm
  <2>1. CalmTask(t, k.tcb[t])
    BY <1>1 DEF Calm
  <2>2. CASE t = RTC
    BY <1>6, <1>17, <2>1, <2>2 DEF CalmTask
  <2>3. CASE t = Comm
    BY <1>13, <1>17, <2>1, <2>3, TasksDiffer DEF CalmTask
  <2> QED
    BY <1>17, <2>1, <2>2, <2>3
<1>23. Owned(m)
  BY <1>1, <1>2, <1>17, <1>18, <1>19 DEF Owned, Reserves
<1>24. Sound(m)
  BY <1>1, <1>16, <1>17, <1>19, <1>20, <1>21, <1>22, <1>23 DEF Sound
<1>25. Steady(r) /\ SameTables(r, m)
  BY <1>9, <1>17, <1>24, SchedSteady
<1>26. \A t \in Task : Exists(r, t) <=> Exists(k, t)
  BY <1>19, <1>25 DEF SameTables, Exists
<1>27. r.tcb[Lift] = k.tcb[Lift] /\ r.tcb[Comm].Dly = k.tcb[Comm].Dly
  BY <1>1, <1>2, <1>13, <1>17, <1>25 DEF SameTables
<1>28. Owner(r) = Comm /\ InPend(r, Comm) /\ Reserves(r) /\ Reserves(k)
  BY <1>1, <1>2, <1>18, <1>25, Tasks7 DEF SameTables, Owner, InPend, Reserves
<1> QED
  BY <1>25, <1>26, <1>27, <1>28 DEF Keeps, r

-----------------------------------------------------------------------------
(* The start.                                                                 *)

First == OSStart([t \in {Start, Idle} |-> BasePrio[t]], [e \in Event |-> OSMutexCreated])

\* Task_Start runs, above the idle task; there is nobody else, and no mutex.
LEMMA StartSteady ==
    /\ Steady(First) /\ First.Cur = Start
    /\ \A t \in Task : (Exists(First, t) <=> t \in {Start, Idle}) /\ Free(First.tcb[t])
                       /\ First.tcb[t].EventPtr = None
    /\ ~Reserves(First) /\ Owner(First) = None
<1> DEFINE k == First
           f == [t \in {Start, Idle} |-> BasePrio[t]]
           P == {BasePrio[Start], BasePrio[Idle]}
           c == OSMutexCreated
           N(t) == IF t \in {Start, Idle} THEN BasePrio[t] ELSE OS_TASK_IDLE_PRIO
<1>1. /\ Start \in Task /\ Idle \in Task /\ Start # Idle /\ Start # RTC /\ Idle # RTC /\ RTC \in Task
      /\ BasePrio[Start] \in Nat /\ BasePrio[Idle] \in Nat /\ BasePrio[Start] <= BasePrio[Idle]
      /\ BasePrio[Start] # BasePrio[Idle] /\ BasePrio[Start] \in Prios /\ BasePrio[Idle] \in Prios
      /\ OS_TASK_IDLE_PRIO \in Prios /\ BasePrio[Start] # TASK_PIP_PRIO /\ BasePrio[Idle] # TASK_PIP_PRIO
  BY Tasks7, TasksDiffer, Priorities, AppAssumption
<1>2. DOMAIN f = {Start, Idle} /\ f[Start] = BasePrio[Start] /\ f[Idle] = BasePrio[Idle]
  OBVIOUS
<1> HIDE DEF f
<1>3. {f[t] : t \in DOMAIN f} = P
  BY <1>2
<1>4. Highest(P) = BasePrio[Start]
  <2>1. P \in SUBSET Nat /\ P # {}
    BY <1>1
  <2>2. Highest(P) \in P /\ Highest(P) <= BasePrio[Start]
    BY <2>1, HighestIs
  <2> QED
    BY <1>1, <2>2
<1>5. \A t \in {Start, Idle} : (CHOOSE u \in DOMAIN f : f[u] = BasePrio[t]) = t
  BY <1>1, <1>2
<1>6. /\ k.tcb = [t \in Task |-> NewTCB(N(t))]
      /\ k.PrioTbl = [p \in Prios |-> IF \E t \in DOMAIN f : f[t] = p
                                      THEN CHOOSE t \in DOMAIN f : f[t] = p ELSE None]
      /\ k.Rdy = P /\ k.ev = [e \in Event |-> c] /\ k.Cur = Start /\ k.PrioCur = BasePrio[Start]
      /\ k.IntNesting = 0 /\ k.LockNesting = 0
      /\ k = [tcb |-> k.tcb, PrioTbl |-> k.PrioTbl, Rdy |-> k.Rdy, ev |-> k.ev, Cur |-> k.Cur,
              PrioCur |-> k.PrioCur, IntNesting |-> 0, LockNesting |-> 0]
  <2>1. k = OSStart(f, [e \in Event |-> c])
    BY DEF First, f
  <2>2. k.tcb = [t \in Task |-> NewTCB(IF t \in DOMAIN f THEN f[t] ELSE OS_TASK_IDLE_PRIO)]
    BY <2>1 DEF OSStart
  <2>3. \A t \in Task : (IF t \in DOMAIN f THEN f[t] ELSE OS_TASK_IDLE_PRIO) = N(t)
    BY <1>2
  <2> HIDE DEF k, P, c, N
  <2> QED
    BY <1>3, <1>4, <1>5, <2>1, <2>2, <2>3 DEF OSStart
<1> HIDE DEF k
<1>7. /\ k.PrioTbl[BasePrio[Start]] = Start /\ k.PrioTbl[BasePrio[Idle]] = Idle
      /\ \A p \in Prios \ P : k.PrioTbl[p] = None
      /\ k.PrioTbl \in [Prios -> Task \cup {None, Reserved}]
  <2>1. k.PrioTbl[BasePrio[Start]] = Start
    BY <1>1, <1>2, <1>5, <1>6
  <2>2. k.PrioTbl[BasePrio[Idle]] = Idle
    BY <1>1, <1>2, <1>5, <1>6
  <2>3. \A p \in Prios \ P : k.PrioTbl[p] = None
    BY <1>2, <1>6
  <2>4. \A p \in P : k.PrioTbl[p] \in Task
    BY <1>1, <2>1, <2>2
  <2>5. \A p \in Prios : k.PrioTbl[p] \in Task \cup {None, Reserved}
    BY <2>3, <2>4
  <2>6. k.PrioTbl = [p \in Prios |-> k.PrioTbl[p]]
    BY <1>6
  <2> QED
    BY <2>1, <2>2, <2>3, <2>5, <2>6
<1>8. \A t \in Task \ {Start, Idle} : BasePrio[t] \in Prios \ P
  BY <1>1, Priorities
<1>9. TASK_PIP_PRIO \in Prios \ P
  BY <1>1, Priorities
<1>10. \A t \in Task : Exists(k, t) <=> t \in {Start, Idle}
  <2>1. \A t \in Task \ {Start, Idle} : k.PrioTbl[BasePrio[t]] = None
    BY <1>7, <1>8
  <2> QED
    BY <1>7, <2>1, Tasks7 DEF Exists
<1>11. \A t \in Task : N(t) \in Prios /\ k.tcb[t] = NewTCB(N(t))
  BY <1>1, <1>6
<1> HIDE DEF N
<1>12. ASSUME NEW t \in Task
       PROVE  /\ k.tcb[t] \in TCB(Vals) /\ Free(k.tcb[t]) /\ k.tcb[t].EventPtr = None
              /\ k.tcb[t].StatPend = "OK" /\ k.tcb[t].Prio = N(t) /\ k.tcb[t].Stat = {}
              /\ k.tcb[t].Dly = 0
  <2> DEFINE p == N(t)
  <2>1. p \in Prios /\ k.tcb[t] = NewTCB(p)
    BY <1>11
  <2> HIDE DEF p
  <2>2. /\ NewTCB(p) \in TCB(Vals) /\ NewTCB(p).EventPtr = None /\ NewTCB(p).StatPend = "OK"
        /\ NewTCB(p).Prio = p /\ NewTCB(p).Stat = {} /\ NewTCB(p).Dly = 0
    BY <2>1 DEF NewTCB, TCB, Vals, Stats
  <2> QED
    BY <2>1, <2>2 DEF p, Free
<1>13. c \in ECB(Vals) /\ c.Cnt = OS_MUTEX_AVAILABLE /\ c.Ptr = None /\ c.Tbl = {}
  BY MutexAssumption DEF OSMutexCreated, ECB, Vals
<1> HIDE DEF c
<1>14. k.ev[RTCMutex] = c /\ k.ev \in [Event -> ECB(Vals)]
  BY <1>6, <1>13, Tasks7
<1>15. k \in KernelState(Vals)
  <2>1. k.tcb \in [Task -> TCB(Vals)]
    BY <1>6, <1>12
  <2>2. k.Rdy \in SUBSET Prios /\ k.Cur \in Task /\ k.PrioCur \in Prios
    BY <1>1, <1>6
  <2> QED
    <3>1. /\ k = [tcb |-> k.tcb, PrioTbl |-> k.PrioTbl, Rdy |-> k.Rdy, ev |-> k.ev, Cur |-> k.Cur,
                   PrioCur |-> k.PrioCur, IntNesting |-> 0, LockNesting |-> 0]
          /\ k.PrioTbl \in [Prios -> Task \cup {None, Reserved}]
      BY <1>6, <1>7
    <3> QED
      BY <1>14, <2>1, <2>2, <3>1 DEF KernelState
<1>16. ~Raised(k) /\ ~Reserves(k) /\ \A t : PrioOf(k, t) = BasePrio[t]
  BY <1>1, <1>7, <1>9, Tasks7 DEF Raised, Reserves, PrioOf
<1>17. Numbered(k)
  <2>1. ASSUME NEW t \in Task
        PROVE  IF Exists(k, t) THEN k.tcb[t].Prio = PrioOf(k, t)
               ELSE k.PrioTbl[BasePrio[t]] = None /\ Free(k.tcb[t])
    BY <1>7, <1>8, <1>10, <1>12, <1>16 DEF N
  <2> QED
    BY <1>1, <1>7, <1>9, <1>10, <1>16, <2>1 DEF Numbered
<1>18. Listed(k)
  BY <1>1, <1>6, <1>10, <1>12, <1>16 DEF Listed
<1>19. Calm(k)
  BY <1>12 DEF Calm, CalmTask
<1>20. Owned(k) /\ Owner(k) = None
  BY <1>12, <1>13, <1>14, <1>16, Tasks7 DEF Owned, Owner, Available, Waits, InPend
<1>21. MayPend(k) /\ Runner(k) /\ k.PrioCur = PrioOf(k, k.Cur)
  BY <1>1, <1>6, <1>16 DEF MayPend, Runner
<1>22. Steady(k)
  BY <1>15, <1>17, <1>18, <1>19, <1>20, <1>21 DEF Steady, Sound
<1> QED
  BY <1>6, <1>10, <1>12, <1>16, <1>20, <1>22 DEF k

\* Two fields with the same time are the whole of it.
LEMMA Wholes ==
    /\ \A v \in Times : Whole(v) \in Time
    /\ \A v : Whole(v)[1] = v /\ Whole(v)[2] = v
    /\ \A x \in Time : \A v : x[1] = v /\ x[2] = v => x = Whole(v)
    /\ \A x \in Time, v \in Times, n \in 1 .. 2 : [x EXCEPT ![n] = v] \in Time
    /\ \A x \in Time, n \in 1 .. 2 : x[n] \in Times
<1>1. 1 .. 2 = {1, 2}
  OBVIOUS
<1>2. \A v : Whole(v) = [n \in 1 .. 2 |-> v]
  BY <1>1 DEF Whole
<1>3. \A v : Whole(v)[1] = v /\ Whole(v)[2] = v
  BY <1>2
<1>4. \A x \in Time : \A v : x[1] = v /\ x[2] = v => x = Whole(v)
  BY <1>1, <1>2 DEF Time
<1> QED
  BY <1>2, <1>3, <1>4 DEF Time

\* All of it holds at the start.
LEMMA InitIInv == Init => IInv
<1> SUFFICES ASSUME Init PROVE IInv
  OBVIOUS
<1>1. /\ os = First /\ build \in Builds /\ LiftStatus = OSFlagCreate /\ pc = [t \in Task |-> "new"]
      /\ inbox = <<>> /\ cmd = None /\ i = 0 /\ LiftValues = {} /\ slept = FALSE
      /\ time_now = Whole(Boot) /\ counter = Whole(None)
      /\ reply = Whole(Boot) /\ local = Whole(Boot) /\ record = Whole(Boot)
      /\ set = Boot /\ raced = FALSE /\ recal = FALSE
  BY DEF Init, First
<1>2. /\ Steady(os) /\ \A t \in Task : (Exists(os, t) <=> t \in {Start, Idle}) /\ Free(os.tcb[t])
                                       /\ os.tcb[t].EventPtr = None
      /\ ~Reserves(os) /\ Owner(os) = None
  BY <1>1, StartSteady
<1>3. /\ pc[Start] = "new" /\ pc[Step] = "new" /\ pc[Lift] = "new" /\ pc[Comm] = "new"
      /\ pc[RTC] = "new" /\ pc[MSD] = "new" /\ \A t \in Task : pc[t] = "new"
  BY <1>1, Tasks7
<1>4. Births
  <2>1. pc = [t \in Task |-> pc[t]]
    <3>1. pc = [t \in Task |-> "new"]
      BY <1>1
    <3> QED
      BY <1>3, <3>1
  <2> QED
    BY <1>2, <1>3, <2>1, Tasks7, TasksDiffer DEF Births
<1>5. Sleeps
  BY <1>2, <1>3, Tasks7 DEF Sleeps, Free, InPend, Made, Reserves, CommSection, RTCSection
<1>6. InHand
  <2>1. i \in 0 .. ReplyLen - 1
    BY <1>1, AppAssumption
  <2>2. inbox \in Seq(Frames)
    BY <1>1
  <2> QED
    BY <1>1, <1>3, <2>1, <2>2 DEF InHand, CommSection
<1>7. Flagged
  <2>1. "FLAG" \notin os.tcb[Lift].Stat
    BY <1>2, Tasks7 DEF Free
  <2>2. ~Blocked
    BY <2>1 DEF Blocked
  <2>3. LiftStatus.Wait = [t \in Task |-> IF t = Lift /\ Blocked THEN Flag ELSE {}]
    BY <1>1, <2>2 DEF OSFlagCreate
  <2>4. LiftStatus \in [Flags : SUBSET Flag, Wait : [Task -> SUBSET Flag], Rdy : [Task -> SUBSET Flag]]
    BY <1>1 DEF OSFlagCreate
  <2> QED
    <3>1. slept = FALSE /\ ~(i > 0) /\ LiftValues = {} /\ pc[Lift] = "new"
      BY <1>1, <1>3
    <3> QED
      BY <2>2, <2>3, <2>4, <3>1 DEF Flagged
<1>8. Boot \in Times /\ Whole(Boot) \in Time
  BY AppAssumption, Wholes
<1>9. Timed
  BY <1>1, <1>3, <1>8 DEF Timed, Calibrating, RTCSection
<1>10. Kept
  BY <1>1, <1>3 DEF Kept, Current, RTCSection, Calibrating
<1>11. Logged /\ HiddenNeverRun
  BY <1>3 DEF Logged, HiddenNeverRun, RecordWhole, Calibrating
<1> QED
  BY <1>1, <1>2, <1>4, <1>5, <1>6, <1>7, <1>9, <1>10, <1>11 DEF IInv, Talk

-----------------------------------------------------------------------------
(* Who may run.                                                               *)

\* The order of the tasks, for any two that matter.
LEMMA Urgency ==
    /\ \A t \in Task : BasePrio[t] \in Nat /\ TASK_PIP_PRIO \in Nat /\ ~(BasePrio[t] <= TASK_PIP_PRIO)
    /\ ~(BasePrio[Comm] <= BasePrio[Lift]) /\ ~(BasePrio[RTC] <= BasePrio[Comm])
    /\ ~(BasePrio[MSD] <= BasePrio[Comm]) /\ ~(BasePrio[MSD] <= BasePrio[RTC])
    /\ ~(BasePrio[Step] < BasePrio[Step]) /\ ~(BasePrio[Step] < BasePrio[Start])
    /\ ~(BasePrio[Step] < BasePrio[Lift]) /\ ~(BasePrio[RTC] < BasePrio[Start])
    /\ ~(BasePrio[RTC] < BasePrio[Lift]) /\ ~(BasePrio[RTC] < BasePrio[Step])
    /\ ~(BasePrio[RTC] < BasePrio[Comm]) /\ ~(BasePrio[RTC] < BasePrio[RTC])
    /\ \A t \in Task : BasePrio[Step] < BasePrio[t] => ~(BasePrio[t] <= BasePrio[Step])
    /\ \A t \in Task : BasePrio[RTC] < BasePrio[t] => ~(BasePrio[t] <= BasePrio[RTC])
<1>1. /\ BasePrio[Lift] \in Nat /\ BasePrio[Start] \in Nat /\ BasePrio[Step] \in Nat
      /\ BasePrio[Comm] \in Nat /\ BasePrio[RTC] \in Nat /\ BasePrio[MSD] \in Nat
  BY Tasks7, Priorities
<1>2. /\ BasePrio[Lift] < BasePrio[Start] /\ BasePrio[Start] < BasePrio[Step]
      /\ BasePrio[Step] < BasePrio[Comm] /\ BasePrio[Comm] < BasePrio[RTC]
      /\ BasePrio[RTC] < BasePrio[MSD]
  BY Priorities
<1>3. \A t \in Task : BasePrio[t] \in Nat /\ TASK_PIP_PRIO \in Nat /\ TASK_PIP_PRIO < BasePrio[t]
  BY Priorities
<1>4. \A t \in Task : ~(BasePrio[t] <= TASK_PIP_PRIO)
  BY <1>3
<1>5. /\ ~(BasePrio[Comm] <= BasePrio[Lift]) /\ ~(BasePrio[RTC] <= BasePrio[Comm])
      /\ ~(BasePrio[MSD] <= BasePrio[Comm]) /\ ~(BasePrio[MSD] <= BasePrio[RTC])
      /\ ~(BasePrio[Step] < BasePrio[Step]) /\ ~(BasePrio[Step] < BasePrio[Start])
      /\ ~(BasePrio[Step] < BasePrio[Lift]) /\ ~(BasePrio[RTC] < BasePrio[Start])
      /\ ~(BasePrio[RTC] < BasePrio[Lift]) /\ ~(BasePrio[RTC] < BasePrio[Step])
      /\ ~(BasePrio[RTC] < BasePrio[Comm]) /\ ~(BasePrio[RTC] < BasePrio[RTC])
  BY <1>1, <1>2
<1>6. \A t \in Task : BasePrio[Step] < BasePrio[t] => ~(BasePrio[t] <= BasePrio[Step])
  BY <1>1, <1>3
<1>7. \A t \in Task : BasePrio[RTC] < BasePrio[t] => ~(BasePrio[t] <= BasePrio[RTC])
  BY <1>1, <1>3
<1> QED
  BY <1>3, <1>4, <1>5, <1>6, <1>7

\* Every task that exists is one Task_Start has come to, and so are those before it.
LEMMA Born ==
    ASSUME Steady(os), Births
    PROVE  /\ Exists(os, Comm) => Exists(os, Lift)
           /\ Exists(os, RTC) => Exists(os, Comm)
           /\ Exists(os, MSD) => Exists(os, Comm)
           /\ Exists(os, MSD) /\ RTC \in build => Exists(os, RTC)
           /\ os.Cur \notin {Start, Idle, Lift} /\ Step \in build => Exists(os, Step)
<1>1. /\ Exists(os, Comm) => Exists(os, Lift) /\ (Step \in build => Exists(os, Step))
      /\ Exists(os, RTC) => Exists(os, Comm)
      /\ Exists(os, MSD) => Exists(os, Comm)
      /\ Exists(os, MSD) /\ RTC \in build => Exists(os, RTC)
  BY DEF Births
<1>2. os.Cur \in Task /\ Exists(os, os.Cur)
  BY RunningTask
<1> QED
  BY <1>1, <1>2, Tasks7

\* While vTaskComm runs vTaskRTC is not raised, and vTaskLIFT waits or sleeps.
LEMMA CommRuns ==
    ASSUME Steady(os), Births, Sleeps, os.Cur = Comm
    PROVE  ~Raised(os) /\ ~Waits(os) /\ Exists(os, Lift) /\ (Blocked \/ slept)
<1>1. /\ PrioOf(os, Comm) = BasePrio[Comm] /\ Exists(os, Lift)
      /\ \A t \in Task : Exists(os, t) /\ Free(os.tcb[t]) => BasePrio[Comm] <= PrioOf(os, t)
  BY RunningTask, Born, TasksDiffer DEF PrioOf
<1>2. ~Raised(os)
  <2>1. Raised(os) => Exists(os, RTC) /\ Free(os.tcb[RTC]) /\ PrioOf(os, RTC) = TASK_PIP_PRIO
    BY Mutex DEF PrioOf
  <2> QED
    BY <1>1, <2>1, Urgency, Tasks7
<1>3. ~Waits(os)
  BY Mutex
<1>4. ~Free(os.tcb[Lift])
  <2>1. PrioOf(os, Lift) = BasePrio[Lift]
    BY TasksDiffer DEF PrioOf
  <2> QED
    BY <1>1, <2>1, Urgency, Tasks7
<1>5. /\ os.tcb[Lift].Stat \subseteq {"FLAG"} /\ os.tcb[Lift].Dly \in Nat
  <2>1. os.tcb[Lift] \in TCB(Vals) /\ CalmTask(Lift, os.tcb[Lift])
    BY Tasks7 DEF Steady, Sound, KernelState, Calm
  <2> QED
    BY <2>1 DEF CalmTask, WaitsOf, TCB
<1>6. os.tcb[Lift].Stat = {} => os.tcb[Lift].Dly > 0
  BY <1>4, <1>5 DEF Free
<1>7. Blocked \/ slept
  BY <1>5, <1>6 DEF Blocked, Sleeps
<1> QED
  BY <1>1, <1>2, <1>3, <1>7

\* vTaskComm is out of the way of a less urgent task only asleep, or in its pend.
LEMMA CommAway ==
    ASSUME Steady(os), Births, Sleeps, NEW t \in Task, os.Cur = t, Exists(os, Comm),
           ~(PrioOf(os, t) <= BasePrio[Comm])
    PROVE  ~Waits(os) => pc[Comm] = "read"
<1>1. PrioOf(os, Comm) = BasePrio[Comm]
  BY TasksDiffer DEF PrioOf
<1>2. ~Free(os.tcb[Comm])
  BY <1>1, RunningTask, Tasks7
<1>3. os.tcb[Comm].Stat \subseteq {"MUTEX"} /\ os.tcb[Comm].Dly \in Nat
  <2>1. os.tcb[Comm] \in TCB(Vals) /\ CalmTask(Comm, os.tcb[Comm])
    BY Tasks7 DEF Steady, Sound, KernelState, Calm
  <2> QED
    BY <2>1, TasksDiffer DEF CalmTask, WaitsOf, TCB
<1>4. ~Waits(os) => os.tcb[Comm].Dly > 0
  BY <1>2, <1>3 DEF Free, Waits
<1> QED
  BY <1>4 DEF Sleeps

\* While vTaskRTC runs vTaskComm sleeps, or waits in its pend for the mutex.
LEMMA RTCRuns ==
    ASSUME Steady(os), Births, Sleeps, os.Cur = RTC
    PROVE  /\ Exists(os, RTC) /\ Exists(os, Comm)
           /\ ~Raised(os) => pc[Comm] = "read" /\ ~InPend(os, Comm) /\ Owner(os) # Comm
           /\ Raised(os) => pc[Comm] \in {"get1", "cal1"} /\ Owner(os) = RTC
<1>1. Exists(os, RTC) /\ Exists(os, Comm)
  BY RunningTask, Born
<1>2. Owned(os)
  BY Mutex
<1>3. ASSUME ~Raised(os) PROVE pc[Comm] = "read" /\ ~InPend(os, Comm) /\ Owner(os) # Comm
  <2>1. ~Waits(os)
    BY <1>2, <1>3 DEF Owned
  <2>2. ~(PrioOf(os, RTC) <= BasePrio[Comm])
    BY <1>3, Urgency DEF PrioOf
  <2>3. pc[Comm] = "read"
    BY <1>1, <2>1, <2>2, CommAway, Tasks7
  <2> QED
    BY <2>3 DEF Sleeps, CommSection
<1>4. ASSUME Raised(os) PROVE pc[Comm] \in {"get1", "cal1"} /\ Owner(os) = RTC
  BY <1>4, Mutex DEF Sleeps
<1> QED
  BY <1>1, <1>3, <1>4

\* Where vTaskMSD runs there is no vTaskRTC, and vTaskComm sleeps.
LEMMA MSDRuns ==
    ASSUME Steady(os), Births, Sleeps, os.Cur = MSD
    PROVE  pc[Comm] = "read" /\ pc[RTC] = "new"
<1>1. Exists(os, MSD) /\ PrioOf(os, MSD) = BasePrio[MSD] /\ Exists(os, Comm)
  BY RunningTask, Born, TasksDiffer DEF PrioOf
<1>2. ~Exists(os, RTC)
  <2>1. Exists(os, RTC) => Free(os.tcb[RTC]) /\ PrioOf(os, RTC) \in {BasePrio[RTC], TASK_PIP_PRIO}
    BY Mutex DEF PrioOf
  <2> QED
    BY <1>1, <2>1, RunningTask, Urgency, Tasks7
<1>3. ~Waits(os)
  BY <1>2, Mutex DEF Owned
<1>4. pc[Comm] = "read"
  BY <1>1, <1>3, CommAway, Urgency, Tasks7
<1>5. pc[RTC] = "new"
  BY <1>2, Tasks7, TasksDiffer DEF Births
<1> QED
  BY <1>4, <1>5

\* No task that runs is below one that never sleeps, unless it is the idle task.
LEMMA Unhidden ==
    ASSUME Steady(os), Births, Sleeps, HiddenNeverRun, os.Cur # Idle
    PROVE  ~Hidden(os.Cur)
<1> DEFINE t == os.Cur
<1>1. /\ t \in Task /\ Exists(os, t)
      /\ \A u \in Task : Exists(os, u) /\ Free(os.tcb[u]) => PrioOf(os, t) <= PrioOf(os, u)
  BY RunningTask
<1>2. \A u \in {Step, RTC} : Exists(os, u) => Free(os.tcb[u])
  <2>1. \A u \in {Step, RTC} : CalmTask(u, os.tcb[u])
    BY Tasks7 DEF Steady, Sound, Calm
  <2> QED
    BY <2>1, TasksDiffer DEF CalmTask, WaitsOf, Free
<1>3. CASE t = RTC /\ Raised(os)
  <2>1. pc[t] # "new"
    BY <1>3, Mutex DEF Sleeps, RTCSection
  <2> QED
    BY <1>1, <2>1 DEF HiddenNeverRun
<1>4. CASE ~(t = RTC /\ Raised(os))
  <2>1. PrioOf(os, t) = BasePrio[t]
    BY <1>4 DEF PrioOf
  <2>2. ~(Step \in build /\ BasePrio[Step] < BasePrio[t])
    <3>1. PrioOf(os, Step) = BasePrio[Step]
      BY TasksDiffer DEF PrioOf
    <3>2. CASE t \in {Start, Lift}
      BY <3>2, Urgency
    <3>3. CASE t \notin {Start, Lift}
      BY <1>1, <1>2, <2>1, <3>1, <3>3, Born, Urgency, Tasks7
    <3> QED
      BY <3>2, <3>3
  <2>3. ~(RTC \in build /\ BasePrio[RTC] < BasePrio[t])
    <3>1. CASE t = MSD
      <4>1. pc[RTC] = "new" /\ (RTC \in build => Exists(os, RTC))
        BY <1>1, <3>1, MSDRuns, Born
      <4>2. PrioOf(os, RTC) \in {BasePrio[RTC], TASK_PIP_PRIO}
        BY DEF PrioOf
      <4> QED
        BY <1>1, <1>2, <2>1, <3>1, <4>1, <4>2, Urgency, Tasks7
    <3>2. CASE t # MSD
      BY <1>1, <3>2, Urgency, Tasks7
    <3> QED
      BY <3>1, <3>2
  <2> QED
    BY <2>2, <2>3 DEF Hidden
<1> QED
  BY <1>3, <1>4

-----------------------------------------------------------------------------
(* What a step leaves alone.                                                  *)

\* Task t comes to statement x.
Goes(t, x) ==
    /\ pc' = [u \in Task |-> pc'[u]] /\ pc'[t] = x
    /\ \A u \in Task \ {t} : pc'[u] = pc[u]

\* The others stay where they are.
LEMMA Going ==
    ASSUME Births, NEW t \in Task, NEW x, pc' = [pc EXCEPT ![t] = x]
    PROVE  Goes(t, x)
<1>1. pc = [u \in Task |-> pc[u]]
  BY DEF Births
<1> QED
  BY <1>1 DEF Goes

\* The same tasks exist.
Persist == \A u \in Task : Exists(os', u) <=> Exists(os, u)

\* A statement of a task that was created changes nothing about who exists or may run.
LEMMA Elsewhere ==
    ASSUME Steady(os), Births, NEW t \in Task \ {Start}, NEW x, os.Cur = t,
           Goes(t, x), build' = build, Persist
    PROVE  Births'
<1>1. Exists(os, t)
  BY RunningTask
<1>2. pc'[Start] = pc[Start]
  BY Tasks7 DEF Goes
<1>3. \A u \in Task \ {Start} : ~Exists(os', u) => pc'[u] = "new"
  BY <1>1 DEF Births, Goes, Persist
<1>4. /\ (Exists(os', Start) <=> Exists(os, Start)) /\ (Exists(os', Step) <=> Exists(os, Step))
      /\ (Exists(os', Lift) <=> Exists(os, Lift)) /\ (Exists(os', Comm) <=> Exists(os, Comm))
      /\ (Exists(os', RTC) <=> Exists(os, RTC)) /\ (Exists(os', MSD) <=> Exists(os, MSD))
  BY Tasks7 DEF Persist
<1>5. pc' = [u \in Task |-> pc'[u]]
  BY DEF Goes
<1> QED
  BY <1>2, <1>3, <1>4, <1>5 DEF Births

\* A task that runs is not hidden, and may go on.
LEMMA StillHidden ==
    ASSUME Steady(os), Births, Sleeps, HiddenNeverRun, NEW t \in Task \ {Idle}, NEW x,
           os.Cur = t, Goes(t, x), build' = build
    PROVE  HiddenNeverRun'
<1>1. ~Hidden(t)
  BY Unhidden
<1>2. \A u : Hidden(u)' <=> Hidden(u)
  BY DEF Hidden
<1> QED
  BY <1>1, <1>2 DEF HiddenNeverRun, Goes

\* What vTaskLIFT and vTaskComm wait and sleep for, and the mutex, stay as they are.
Untouched(r, k) ==
    /\ r.tcb[Comm].Dly = k.tcb[Comm].Dly /\ r.tcb[Comm].EventPtr = k.tcb[Comm].EventPtr
    /\ r.tcb[Lift].Dly = k.tcb[Lift].Dly /\ r.tcb[Lift].Stat = k.tcb[Lift].Stat
    /\ Owner(r) = Owner(k) /\ (Reserves(r) <=> Reserves(k))

\* Then nothing changes for them.
LEMMA SleepsSame ==
    ASSUME Sleeps, Untouched(os', os), UNCHANGED slept, pc'[Comm] = pc[Comm],
           pc'[RTC] = pc[RTC]
    PROVE  Sleeps'
<1>1. /\ os'.tcb[Comm].Dly = os.tcb[Comm].Dly /\ os'.tcb[Lift].Dly = os.tcb[Lift].Dly
      /\ (InPend(os', Comm) <=> InPend(os, Comm)) /\ Owner(os') = Owner(os) /\ (Made' <=> Made)
  BY DEF Untouched, InPend, Reserves, Made
<1> QED
  BY <1>1 DEF Sleeps

\* Nor for the flags.
LEMMA FlaggedSame ==
    ASSUME Flagged, os'.tcb[Lift].Stat = os.tcb[Lift].Stat, UNCHANGED <<LiftStatus, lift, i>>,
           pc'[Lift] = pc[Lift]
    PROVE  Flagged'
<1>1. Blocked' <=> Blocked
  BY DEF Blocked
<1> QED
  BY <1>1 DEF Flagged, lift

\* Nor for what is said and known.
LEMMA TalkSame ==
    ASSUME Talk, UNCHANGED <<comm, clock>>, pc'[Comm] = pc[Comm], pc'[RTC] = pc[RTC],
           pc'[MSD] = pc[MSD]
    PROVE  Talk'
<1>0. /\ inbox' = inbox /\ cmd' = cmd /\ i' = i /\ time_now' = time_now /\ counter' = counter
      /\ reply' = reply /\ local' = local /\ record' = record /\ set' = set /\ raced' = raced
      /\ recal' = recal
  BY DEF comm, clock
<1>1. Calibrating' <=> Calibrating
  BY DEF Calibrating
<1>2. InHand'
  BY <1>0 DEF Talk, InHand
<1>3. Timed'
  BY <1>0, <1>1 DEF Talk, Timed
<1>4. (raced \/ Kept)'
  <2>1. Current' = Current
    BY <1>0 DEF Current
  <2> QED
    BY <1>0, <1>1, <2>1 DEF Talk, Kept
<1>5. Logged'
  BY <1>0, <1>1 DEF Talk, Logged, RecordWhole
<1> QED
  BY <1>2, <1>3, <1>4, <1>5 DEF Talk

\* A kernel that was not called.
LEMMA SameKernel ==
    ASSUME os' = os
    PROVE  Untouched(os', os) /\ Persist /\ (Steady(os) => Steady(os'))
           /\ \A t : Steady(os) => Leaves(os', os, t, os.tcb[t])
  BY DEF Untouched, Persist, Leaves

-----------------------------------------------------------------------------
(* Task_Start and vTaskStepMotor.                                             *)

\* All but who exists.
LEMMA StartRest ==
    ASSUME IInv, NEW x, os.Cur = Start, pc' = [pc EXCEPT ![Start] = x], Untouched(os', os),
           UNCHANGED <<LiftStatus, comm, lift, clock, build>>
    PROVE  Sleeps' /\ Flagged' /\ Talk' /\ HiddenNeverRun' /\ Goes(Start, x)
<1>1. Goes(Start, x)
  BY Going, Tasks7 DEF IInv
<1>2. pc'[Comm] = pc[Comm] /\ pc'[RTC] = pc[RTC] /\ pc'[Lift] = pc[Lift] /\ pc'[MSD] = pc[MSD]
  BY <1>1, Tasks7, TasksDiffer DEF Goes
<1>3. slept' = slept /\ i' = i
  BY DEF lift, comm
<1>4. HiddenNeverRun'
  BY <1>1, StillHidden, Tasks7, TasksDiffer DEF IInv
<1>5. Sleeps'
  BY <1>2, <1>3, SleepsSame DEF IInv
<1>6. Flagged'
  BY <1>2, <1>3, FlaggedSame DEF IInv, Untouched
<1>7. Talk'
  BY <1>2, TalkSame DEF IInv
<1> QED
  BY <1>1, <1>4, <1>5, <1>6, <1>7

\* The first statement, OSTimeDly.
LEMMA StartStatStep == ASSUME IInv, StartStat, build' = build PROVE IInv'
<1>1. /\ os.Cur = Start /\ pc[Start] = "new" /\ pc' = [pc EXCEPT ![Start] = "step"]
      /\ os' = OSTimeDly(os, 2) /\ UNCHANGED <<LiftStatus, comm, lift, clock>>
  BY DEF StartStat, Go, Runs
<1>2. Steady(os) /\ Births
  BY DEF IInv
<1> DEFINE b == Delayed(os.tcb[Start], 2)
<1>3. Leaves(os', os, Start, b)
  <2>1. os.Cur \notin {Idle, Step, RTC}
    BY <1>1, TasksDiffer
  <2> QED
    BY <1>1, <1>2, <2>1, DelaySteady
<1> HIDE DEF b
<1>4. /\ Steady(os') /\ os'.PrioTbl = os.PrioTbl /\ os'.ev = os.ev
      /\ os'.tcb[Comm] = os.tcb[Comm] /\ os'.tcb[Lift] = os.tcb[Lift]
  BY <1>3, Tasks7, TasksDiffer DEF Leaves
<1>5. Untouched(os', os)
  BY <1>4 DEF Untouched, Owner, Reserves
<1>6. Sleeps' /\ Flagged' /\ Talk' /\ HiddenNeverRun' /\ Goes(Start, "step")
  BY <1>1, <1>5, StartRest
<1>7. Births'
  <2>1. \A u : Exists(os', u) <=> Exists(os, u)
    BY <1>4 DEF Exists
  <2>2. pc' = [u \in Task |-> pc'[u]] /\ pc'[Start] = "step" /\ \A u \in Task \ {Start} : pc'[u] = pc[u]
    BY <1>6 DEF Goes
  <2> QED
    BY <1>1, <1>2, <2>1, <2>2 DEF Births
<1> QED
  BY <1>4, <1>6, <1>7 DEF IInv

\* Task t is created, if the build has it.
LEMMA CreatesRest ==
    ASSUME IInv, NEW t \in {Step, Lift, Comm, RTC, MSD}, NEW from, NEW to, Creates(t, from, to),
           build' = build, ~Exists(os, t)
    PROVE  /\ Steady(os') /\ Sleeps' /\ Flagged' /\ Talk' /\ HiddenNeverRun' /\ Goes(Start, to)
           /\ \A u \in Task \ {t} : Exists(os', u) <=> Exists(os, u)
           /\ Exists(os', t) <=> t \in build \cup {Lift, Comm}
<1>1. /\ os.Cur = Start /\ pc' = [pc EXCEPT ![Start] = to]
      /\ os' = IF t \in build \cup {Lift, Comm} THEN OSTaskCreate(os, t, BasePrio[t]) ELSE os
      /\ UNCHANGED <<LiftStatus, comm, lift, clock, build>>
  BY DEF Creates, Go, Runs
<1>2. Steady(os) /\ Births /\ t \in Task /\ os \in KernelState(Vals) /\ Owned(os) /\ Numbered(os)
  BY Tasks7 DEF IInv, Steady, Sound
<1>3. /\ Steady(os') /\ Untouched(os', os)
      /\ \A u \in Task \ {t} : Exists(os', u) <=> Exists(os, u)
      /\ Exists(os', t) <=> t \in build \cup {Lift, Comm}
  <2>1. CASE t \notin build \cup {Lift, Comm}
    BY <1>1, <1>2, <2>1 DEF Untouched
  <2>2. CASE t \in build \cup {Lift, Comm}
    <3> DEFINE p == BasePrio[t]
    <3>1. /\ Steady(os') /\ os'.ev = os.ev /\ os'.PrioTbl = [os.PrioTbl EXCEPT ![p] = t]
          /\ os'.tcb[t] = NewTCB(p) /\ \A u \in Task \ {t} : os'.tcb[u] = os.tcb[u]
      <4>1. os' = OSTaskCreate(os, t, BasePrio[t])
        BY <1>1, <2>2
      <4>2. Steady(os) /\ t \in Task /\ ~Exists(os, t)
        BY <1>2
      <4> QED
        BY <4>1, <4>2, CreateSteady
    <3>2. p \in Prios /\ p # TASK_PIP_PRIO /\ TASK_PIP_PRIO \in Prios
          /\ \A u \in Task \ {t} : BasePrio[u] # p /\ BasePrio[u] \in Prios
      BY <1>2, Priorities
    <3>3. /\ os'.PrioTbl[TASK_PIP_PRIO] = os.PrioTbl[TASK_PIP_PRIO] /\ os'.PrioTbl[p] = t
          /\ \A u \in Task \ {t} : os'.PrioTbl[BasePrio[u]] = os.PrioTbl[BasePrio[u]]
      BY <1>2, <3>1, <3>2 DEF KernelState
    <3>4. (Exists(os', t) <=> TRUE) /\ \A u \in Task \ {t} : Exists(os', u) <=> Exists(os, u)
      BY <3>3 DEF Exists
    <3>5. os.tcb[t].Stat = {} /\ os.tcb[t].Dly = 0
      BY <1>2 DEF Numbered, Free
    <3>6. t = Comm => os.tcb[t].EventPtr = None
      <4>1. t = Comm => ~Waits(os)
        BY <3>5 DEF Waits
      <4>2. InPend(os, Comm) /\ ~Waits(os) => Owner(os) = Comm /\ Exists(os, Comm)
        BY <1>2, Tasks7 DEF Owned
      <4> QED
        BY <4>1, <4>2 DEF InPend
    <3>7. NewTCB(p).Stat = {} /\ NewTCB(p).Dly = 0 /\ NewTCB(p).EventPtr = None
      BY DEF NewTCB
    <3> HIDE DEF p
    <3>8. Untouched(os', os)
      <4>1. /\ os'.tcb[Comm].Dly = os.tcb[Comm].Dly
            /\ os'.tcb[Comm].EventPtr = os.tcb[Comm].EventPtr
        BY <3>1, <3>5, <3>6, <3>7, Tasks7
      <4>2. os'.tcb[Lift].Dly = os.tcb[Lift].Dly /\ os'.tcb[Lift].Stat = os.tcb[Lift].Stat
        BY <3>1, <3>5, <3>7, Tasks7
      <4> QED
        BY <3>1, <3>3, <4>1, <4>2 DEF Untouched, Owner, Reserves
    <3> QED
      BY <2>2, <3>1, <3>4, <3>8
  <2> QED
    BY <2>1, <2>2
<1>4. Sleeps' /\ Flagged' /\ Talk' /\ HiddenNeverRun' /\ Goes(Start, to)
  BY <1>1, <1>3, StartRest
<1> QED
  BY <1>3, <1>4

\* In their order.
LEMMA CreatesStep ==
    ASSUME IInv, build' = build,
           \/ Creates(Step, "step", "lift") \/ Creates(Lift, "lift", "comm")
           \/ Creates(Comm, "comm", "rtc") \/ Creates(RTC, "rtc", "msd")
           \/ Creates(MSD, "msd", "delete")
    PROVE  IInv'
<1>1. Births /\ build \in SUBSET Optional
  BY AppAssumption DEF IInv
<1>2. \A u \in Task \ {Start} : ~Exists(os, u) => pc[u] = "new"
  BY <1>1 DEF Births
<1>3. CASE Creates(Step, "step", "lift")
  <2>1. pc[Start] = "step"
    BY <1>3 DEF Creates, Go
  <2>2. ~Exists(os, Step)
    BY <1>1, <2>1 DEF Births
  <2>3. /\ Steady(os') /\ Sleeps' /\ Flagged' /\ Talk' /\ HiddenNeverRun' /\ Goes(Start, "lift")
        /\ \A u \in Task \ {Step} : Exists(os', u) <=> Exists(os, u)
        /\ Exists(os', Step) <=> Step \in build \cup {Lift, Comm}
    BY <1>3, <2>2, CreatesRest
  <2>4. \A u \in Task \ {Start} : ~Exists(os', u) => pc'[u] = "new"
    BY <1>2, <2>2, <2>3 DEF Goes
  <2>5. /\ pc' = [u \in Task |-> pc'[u]] /\ pc'[Start] = "lift"
        /\ (Exists(os', Step) <=> Step \in build)
        /\ (Exists(os', Start) <=> Exists(os, Start)) /\ (Exists(os', Lift) <=> Exists(os, Lift))
        /\ (Exists(os', Comm) <=> Exists(os, Comm)) /\ (Exists(os', RTC) <=> Exists(os, RTC))
        /\ (Exists(os', MSD) <=> Exists(os, MSD))
    BY <2>3, Tasks7, TasksDiffer DEF Goes
  <2>6. Births'
    BY <1>1, <2>1, <2>4, <2>5 DEF Births
  <2> QED
    BY <2>3, <2>6 DEF IInv
<1>4. CASE Creates(Lift, "lift", "comm")
  <2>1. pc[Start] = "lift"
    BY <1>4 DEF Creates, Go
  <2>2. ~Exists(os, Lift)
    BY <1>1, <2>1 DEF Births
  <2>3. /\ Steady(os') /\ Sleeps' /\ Flagged' /\ Talk' /\ HiddenNeverRun' /\ Goes(Start, "comm")
        /\ \A u \in Task \ {Lift} : Exists(os', u) <=> Exists(os, u)
        /\ Exists(os', Lift) <=> Lift \in build \cup {Lift, Comm}
    BY <1>4, <2>2, CreatesRest
  <2>4. \A u \in Task \ {Start} : ~Exists(os', u) => pc'[u] = "new"
    BY <1>2, <2>2, <2>3 DEF Goes
  <2>5. /\ pc' = [u \in Task |-> pc'[u]] /\ pc'[Start] = "comm"
        /\ Exists(os', Lift)
        /\ (Exists(os', Start) <=> Exists(os, Start)) /\ (Exists(os', Step) <=> Exists(os, Step))
        /\ (Exists(os', Comm) <=> Exists(os, Comm)) /\ (Exists(os', RTC) <=> Exists(os, RTC))
        /\ (Exists(os', MSD) <=> Exists(os, MSD))
    BY <2>3, Tasks7, TasksDiffer DEF Goes
  <2>6. Births'
    BY <1>1, <2>1, <2>4, <2>5 DEF Births
  <2> QED
    BY <2>3, <2>6 DEF IInv
<1>5. CASE Creates(Comm, "comm", "rtc")
  <2>1. pc[Start] = "comm"
    BY <1>5 DEF Creates, Go
  <2>2. ~Exists(os, Comm)
    BY <1>1, <2>1 DEF Births
  <2>3. /\ Steady(os') /\ Sleeps' /\ Flagged' /\ Talk' /\ HiddenNeverRun' /\ Goes(Start, "rtc")
        /\ \A u \in Task \ {Comm} : Exists(os', u) <=> Exists(os, u)
        /\ Exists(os', Comm) <=> Comm \in build \cup {Lift, Comm}
    BY <1>5, <2>2, CreatesRest
  <2>4. \A u \in Task \ {Start} : ~Exists(os', u) => pc'[u] = "new"
    BY <1>2, <2>2, <2>3 DEF Goes
  <2>5. /\ pc' = [u \in Task |-> pc'[u]] /\ pc'[Start] = "rtc"
        /\ Exists(os', Comm)
        /\ (Exists(os', Start) <=> Exists(os, Start)) /\ (Exists(os', Step) <=> Exists(os, Step))
        /\ (Exists(os', Lift) <=> Exists(os, Lift)) /\ (Exists(os', RTC) <=> Exists(os, RTC))
        /\ (Exists(os', MSD) <=> Exists(os, MSD))
    BY <2>3, Tasks7, TasksDiffer DEF Goes
  <2>6. Births'
    BY <1>1, <2>1, <2>4, <2>5 DEF Births
  <2> QED
    BY <2>3, <2>6 DEF IInv
<1>6. CASE Creates(RTC, "rtc", "msd")
  <2>1. pc[Start] = "rtc"
    BY <1>6 DEF Creates, Go
  <2>2. ~Exists(os, RTC)
    BY <1>1, <2>1 DEF Births
  <2>3. /\ Steady(os') /\ Sleeps' /\ Flagged' /\ Talk' /\ HiddenNeverRun' /\ Goes(Start, "msd")
        /\ \A u \in Task \ {RTC} : Exists(os', u) <=> Exists(os, u)
        /\ Exists(os', RTC) <=> RTC \in build \cup {Lift, Comm}
    BY <1>6, <2>2, CreatesRest
  <2>4. \A u \in Task \ {Start} : ~Exists(os', u) => pc'[u] = "new"
    BY <1>2, <2>2, <2>3 DEF Goes
  <2>5. /\ pc' = [u \in Task |-> pc'[u]] /\ pc'[Start] = "msd"
        /\ (Exists(os', RTC) <=> RTC \in build)
        /\ (Exists(os', Start) <=> Exists(os, Start)) /\ (Exists(os', Step) <=> Exists(os, Step))
        /\ (Exists(os', Lift) <=> Exists(os, Lift)) /\ (Exists(os', Comm) <=> Exists(os, Comm))
        /\ (Exists(os', MSD) <=> Exists(os, MSD))
    BY <2>3, Tasks7, TasksDiffer DEF Goes
  <2>6. Births'
    BY <1>1, <2>1, <2>4, <2>5 DEF Births
  <2> QED
    BY <2>3, <2>6 DEF IInv
<1>7. CASE Creates(MSD, "msd", "delete")
  <2>1. pc[Start] = "msd"
    BY <1>7 DEF Creates, Go
  <2>2. ~Exists(os, MSD)
    BY <1>1, <2>1 DEF Births
  <2>3. /\ Steady(os') /\ Sleeps' /\ Flagged' /\ Talk' /\ HiddenNeverRun' /\ Goes(Start, "delete")
        /\ \A u \in Task \ {MSD} : Exists(os', u) <=> Exists(os, u)
        /\ Exists(os', MSD) <=> MSD \in build \cup {Lift, Comm}
    BY <1>7, <2>2, CreatesRest
  <2>4. \A u \in Task \ {Start} : ~Exists(os', u) => pc'[u] = "new"
    BY <1>2, <2>2, <2>3 DEF Goes
  <2>5. /\ pc' = [u \in Task |-> pc'[u]] /\ pc'[Start] = "delete"
        /\ (Exists(os', MSD) <=> MSD \in build)
        /\ (Exists(os', Start) <=> Exists(os, Start)) /\ (Exists(os', Step) <=> Exists(os, Step))
        /\ (Exists(os', Lift) <=> Exists(os, Lift)) /\ (Exists(os', Comm) <=> Exists(os, Comm))
        /\ (Exists(os', RTC) <=> Exists(os, RTC))
    BY <2>3, Tasks7, TasksDiffer DEF Goes
  <2>6. Births'
    BY <1>1, <2>1, <2>4, <2>5 DEF Births
  <2> QED
    BY <2>3, <2>6 DEF IInv
<1> QED
  BY <1>3, <1>4, <1>5, <1>6, <1>7

\* And it deletes itself.
LEMMA StartDeleteStep == ASSUME IInv, StartDelete, build' = build PROVE IInv'
<1>1. /\ os.Cur = Start /\ pc[Start] = "delete" /\ pc' = [pc EXCEPT ![Start] = "deleted"]
      /\ os' = OSTaskDelSelf(os) /\ UNCHANGED <<LiftStatus, comm, lift, clock, build>>
  BY DEF StartDelete, Go, Runs
<1>2. Steady(os) /\ Births /\ os \in KernelState(Vals)
  BY DEF IInv, Steady, Sound
<1> DEFINE p == BasePrio[Start]
<1>3. /\ Steady(os') /\ os'.ev = os.ev /\ os'.PrioTbl = [os.PrioTbl EXCEPT ![p] = None]
      /\ \A u \in Task \ {Start} : os'.tcb[u] = os.tcb[u]
  BY <1>1, <1>2, DeleteSteady
<1>4. p \in Prios /\ p # TASK_PIP_PRIO /\ TASK_PIP_PRIO \in Prios
      /\ \A u \in Task \ {Start} : BasePrio[u] # p /\ BasePrio[u] \in Prios
  BY Tasks7, Priorities
<1>5. /\ os'.PrioTbl[TASK_PIP_PRIO] = os.PrioTbl[TASK_PIP_PRIO] /\ os'.PrioTbl[p] = None
      /\ \A u \in Task \ {Start} : os'.PrioTbl[BasePrio[u]] = os.PrioTbl[BasePrio[u]]
  BY <1>2, <1>3, <1>4 DEF KernelState
<1>6. ~Exists(os', Start) /\ \A u \in Task \ {Start} : Exists(os', u) <=> Exists(os, u)
  BY <1>5, Tasks7 DEF Exists
<1>7. os'.tcb[Comm] = os.tcb[Comm] /\ os'.tcb[Lift] = os.tcb[Lift]
  BY <1>3, Tasks7, TasksDiffer
<1>8. Untouched(os', os)
  BY <1>3, <1>5, <1>7 DEF Untouched, Owner, Reserves
<1>9. Sleeps' /\ Flagged' /\ Talk' /\ HiddenNeverRun' /\ Goes(Start, "deleted")
  BY <1>1, <1>8, StartRest
<1>10. Births'
  <2>1. \A u \in Task \ {Start} : ~Exists(os', u) => pc'[u] = "new"
    BY <1>2, <1>6, <1>9 DEF Births, Goes
  <2>2. /\ pc' = [u \in Task |-> pc'[u]] /\ pc'[Start] = "deleted" /\ ~Exists(os', Start)
        /\ (Exists(os', MSD) <=> Exists(os, MSD)) /\ (Exists(os', Step) <=> Exists(os, Step))
        /\ (Exists(os', Lift) <=> Exists(os, Lift)) /\ (Exists(os', Comm) <=> Exists(os, Comm))
        /\ (Exists(os', RTC) <=> Exists(os, RTC))
    BY <1>6, <1>9, Tasks7, TasksDiffer DEF Goes
  <2> QED
    BY <1>1, <1>2, <2>1, <2>2 DEF Births
<1> QED
  BY <1>1, <1>3, <1>9, <1>10 DEF IInv

\* The empty loop.
LEMMA StepMotorStep == ASSUME IInv, vTaskStepMotor, build' = build PROVE IInv'
<1>1. /\ os.Cur = Step /\ pc' = [pc EXCEPT ![Step] = "loop"]
      /\ UNCHANGED <<os, LiftStatus, comm, lift, clock>>
  BY DEF vTaskStepMotor, Go, Runs
<1>2. Steady(os) /\ Births /\ Sleeps /\ HiddenNeverRun /\ Flagged /\ Talk
  BY DEF IInv
<1>3. Step \in Task \ {Start} /\ Step \in Task \ {Idle} /\ Goes(Step, "loop")
  BY <1>1, <1>2, Going, Tasks7, TasksDiffer
<1>4. Untouched(os', os) /\ Persist /\ Steady(os')
  BY <1>1, <1>2, SameKernel
<1>5. /\ pc'[Comm] = pc[Comm] /\ pc'[RTC] = pc[RTC] /\ pc'[Lift] = pc[Lift] /\ pc'[MSD] = pc[MSD]
      /\ slept' = slept /\ i' = i /\ os'.tcb[Lift].Stat = os.tcb[Lift].Stat
  BY <1>1, <1>3, Tasks7, TasksDiffer DEF Goes, lift, comm
<1>6. Births' /\ HiddenNeverRun'
  BY <1>1, <1>2, <1>3, <1>4, Elsewhere, StillHidden
<1>7. Sleeps' /\ Flagged' /\ Talk'
  BY <1>1, <1>2, <1>4, <1>5, SleepsSame, FlaggedSame, TalkSame
<1> QED
  BY <1>4, <1>6, <1>7 DEF IInv

-----------------------------------------------------------------------------
(* vTaskLIFT.                                                                 *)

\* When it runs it waits for nothing; and if a reply is being sent it slept.
LEMMA LiftRuns ==
    ASSUME IInv, os.Cur = Lift
    PROVE  /\ os.tcb[Lift].Stat = {} /\ os.tcb[Lift].Dly = 0 /\ os.tcb[Lift].StatPend = "OK"
           /\ ~Blocked /\ ~Blocks(os) /\ (i > 0 => slept)
           /\ LiftStatus.Wait = [t \in Task |-> {}]
<1>1. Free(os.tcb[Lift]) /\ CalmTask(Lift, os.tcb[Lift])
  BY RunningTask, Tasks7 DEF IInv, Steady, Sound, Calm
<1>2. ~Blocked
  BY <1>1 DEF Free, Blocked
<1>3. LiftStatus.Wait = [t \in Task |-> IF t = Lift /\ Blocked THEN Flag ELSE {}]
  BY DEF IInv, Flagged
<1> QED
  BY <1>1, <1>2, <1>3 DEF IInv, Flagged, Free, CalmTask, Blocked, Blocks

\* All but the flags.
LEMMA LiftRest ==
    ASSUME IInv, NEW x, NEW b, os.Cur = Lift, pc' = [pc EXCEPT ![Lift] = x],
           Leaves(os', os, Lift, b), b.Dly > 0 => slept', UNCHANGED <<comm, clock, build>>
    PROVE  /\ Steady(os') /\ Births' /\ Sleeps' /\ HiddenNeverRun' /\ Talk' /\ build' \in Builds
           /\ pc'[Lift] = x /\ i' = i /\ os'.tcb[Lift] = b
<1>1. Steady(os) /\ Births /\ Sleeps /\ HiddenNeverRun /\ Flagged /\ Talk /\ build \in Builds
  BY DEF IInv
<1>2. Lift \in Task \ {Start} /\ Lift \in Task \ {Idle} /\ Goes(Lift, x)
  BY <1>1, Going, Tasks7, TasksDiffer
<1>3. /\ pc'[Comm] = pc[Comm] /\ pc'[RTC] = pc[RTC] /\ pc'[MSD] = pc[MSD] /\ pc'[Lift] = x
  BY <1>2, Tasks7, TasksDiffer DEF Goes
<1>4. /\ Steady(os') /\ os'.PrioTbl = os.PrioTbl /\ os'.ev = os.ev /\ os'.tcb[Lift] = b
      /\ os'.tcb[Comm] = os.tcb[Comm]
  BY Tasks7, TasksDiffer DEF Leaves
<1>5. Persist
  BY <1>4 DEF Persist, Exists
<1>6. Births' /\ HiddenNeverRun' /\ Talk'
  BY <1>1, <1>2, <1>3, <1>5, Elsewhere, StillHidden, TalkSame
<1>7. Sleeps'
  <2>1. (Made' <=> Made) /\ Owner(os') = Owner(os) /\ (InPend(os', Comm) <=> InPend(os, Comm))
        /\ os'.tcb[Comm].Dly = os.tcb[Comm].Dly /\ (os'.tcb[Lift].Dly > 0 => slept')
    BY <1>4 DEF Made, Owner, InPend
  <2> QED
    BY <1>1, <1>3, <2>1 DEF Sleeps
<1> QED
  BY <1>1, <1>3, <1>4, <1>6, <1>7 DEF comm

\* The group of flags is created, empty.
LEMMA LiftCreateStep == ASSUME IInv, LiftCreate, build' = build PROVE IInv'
<1>1. /\ os.Cur = Lift /\ pc[Lift] = "new" /\ pc' = [pc EXCEPT ![Lift] = "pend"] /\ os' = os
      /\ LiftStatus' = OSFlagCreate /\ UNCHANGED <<comm, lift, clock, build>>
  BY DEF LiftCreate, Go, Runs
<1>2. Steady(os) /\ Flagged
  BY DEF IInv
<1> DEFINE b == os.tcb[Lift]
<1>3. Leaves(os', os, Lift, b) /\ b.Stat = {} /\ (b.Dly > 0 => slept') /\ (i > 0 => slept)
  BY <1>1, <1>2, SameKernel, LiftRuns
<1> HIDE DEF b
<1>4. /\ Steady(os') /\ Births' /\ Sleeps' /\ HiddenNeverRun' /\ Talk' /\ build' \in Builds
      /\ pc'[Lift] = "pend" /\ i' = i /\ os'.tcb[Lift] = b
  BY <1>1, <1>3, LiftRest
<1>5. Flagged'
  <2>1. ~Blocked' /\ LiftValues' = LiftValues /\ slept' = slept
    BY <1>1, <1>3, <1>4 DEF Blocked, lift
  <2>2. /\ LiftStatus' = [Flags |-> {}, Wait |-> [t \in Task |-> {}], Rdy |-> [t \in Task |-> {}]]
    BY <1>1 DEF OSFlagCreate
  <2>3. LiftStatus' \in [Flags : SUBSET Flag, Wait : [Task -> SUBSET Flag], Rdy : [Task -> SUBSET Flag]]
        /\ LiftStatus'.Wait = [t \in Task |-> {}]
    BY <2>2
  <2> QED
    BY <1>1, <1>2, <1>3, <1>4, <2>1, <2>3 DEF Flagged
<1> QED
  BY <1>4, <1>5 DEF IInv

\* The flags are taken at once.
LEMMA Taking ==
    ASSUME IInv, os.Cur = Lift, NEW fs \in SUBSET Flag, fs # {}, NEW from, Go(Lift, from, "switch"),
           Takes(FlagsTaken(os, LiftStatus, fs), "switch"), build' = build
    PROVE  IInv'
<1> DEFINE g == [LiftStatus EXCEPT !.Flags = @ \ fs, !.Rdy[Lift] = fs]
<1>1. /\ pc' = [pc EXCEPT ![Lift] = "switch"] /\ os' = os /\ LiftStatus' = g
      /\ slept' = (slept /\ "switch" = "switch") /\ LiftValues' = g.Rdy[Lift]
      /\ UNCHANGED <<comm, clock, build>>
  BY DEF Takes, FlagsTaken, Go
<1>2. Steady(os) /\ Flagged
  BY DEF IInv
<1> DEFINE b == os.tcb[Lift]
<1>3. Leaves(os', os, Lift, b) /\ b.Stat = {} /\ (b.Dly > 0 => slept') /\ (i > 0 => slept)
      /\ LiftStatus.Wait = [t \in Task |-> {}]
  BY <1>1, <1>2, SameKernel, LiftRuns
<1> HIDE DEF b
<1>4. /\ Steady(os') /\ Births' /\ Sleeps' /\ HiddenNeverRun' /\ Talk' /\ build' \in Builds
      /\ pc'[Lift] = "switch" /\ i' = i /\ os'.tcb[Lift] = b
  BY <1>1, <1>3, LiftRest
<1>5. LiftStatus \in [Flags : SUBSET Flag, Wait : [Task -> SUBSET Flag], Rdy : [Task -> SUBSET Flag]]
      /\ slept \in BOOLEAN
  BY <1>2 DEF Flagged
<1>6. /\ g \in [Flags : SUBSET Flag, Wait : [Task -> SUBSET Flag], Rdy : [Task -> SUBSET Flag]]
      /\ g.Wait = LiftStatus.Wait /\ g.Rdy[Lift] = fs
  BY <1>5, Tasks7
<1> HIDE DEF g
<1>7. Flagged'
  <2>1. ~Blocked' /\ LiftValues' = fs /\ (slept' <=> slept) /\ slept' \in BOOLEAN
    BY <1>1, <1>3, <1>4, <1>5, <1>6 DEF Blocked
  <2> QED
    BY <1>1, <1>3, <1>4, <1>6, <2>1 DEF Flagged
<1> QED
  BY <1>4, <1>7 DEF IInv

\* It blocks only where no flag is set.
LEMMA LiftPendStep == ASSUME IInv, LiftPend, build' = build PROVE IInv'
<1>1. CASE LiftStatus.Flags = {}
  <2> DEFINE r == OS_FlagBlock(os, LiftStatus, Flag, 0)
             g == [LiftStatus EXCEPT !.Wait[Lift] = Flag]
             b == FlagWaiter(os.tcb[Lift])
  <2>1. Go(Lift, "pend", "pended") /\ Takes(r, "pended")
    BY <1>1 DEF LiftPend, OSFlagPend
  <2>2. os.Cur = Lift /\ pc' = [pc EXCEPT ![Lift] = "pended"]
    BY <2>1 DEF Go, Runs
  <2>3. /\ os' = r.os /\ LiftStatus' = r.grp /\ slept' = FALSE /\ LiftValues' = {}
        /\ UNCHANGED <<comm, clock, build>>
    <3>1. slept' = (slept /\ "pended" = "switch") /\ LiftValues' = {}
      BY <2>1 DEF Takes
    <3> QED
      BY <2>1, <3>1 DEF Takes
  <2>4. LiftStatus' = g
    BY <2>2, <2>3 DEF OS_FlagBlock
  <2>5. Steady(os) /\ Flagged
    BY DEF IInv
  <2>6. Leaves(r.os, os, Lift, b)
    BY <2>2, <2>5, FlagBlockSteady
  <2>7. Leaves(os', os, Lift, b)
    BY <2>3, <2>6
  <2>8. os.tcb[Lift] \in TCB(Vals)
    BY <2>2, <2>5, RunningTask
  <2>9. (b.Dly > 0 => slept') /\ "FLAG" \in b.Stat
    BY <2>8 DEF FlagWaiter, TCB
  <2> HIDE DEF r, b
  <2>10. /\ Steady(os') /\ Births' /\ Sleeps' /\ HiddenNeverRun' /\ Talk' /\ build' \in Builds
         /\ pc'[Lift] = "pended" /\ i' = i /\ os'.tcb[Lift] = b
    BY <2>2, <2>3, <2>7, <2>9, LiftRest
  <2>11. LiftStatus \in [Flags : SUBSET Flag, Wait : [Task -> SUBSET Flag], Rdy : [Task -> SUBSET Flag]]
    BY <2>5 DEF Flagged
  <2>12. LiftStatus.Wait = [t \in Task |-> {}]
    BY <2>2, LiftRuns
  <2>13. /\ g \in [Flags : SUBSET Flag, Wait : [Task -> SUBSET Flag], Rdy : [Task -> SUBSET Flag]]
         /\ g.Flags = {} /\ g.Wait = [t \in Task |-> IF t = Lift THEN Flag ELSE {}]
    BY <1>1, <2>11, <2>12, Tasks7
  <2> HIDE DEF g
  <2>14. Flagged'
    <3>1. Blocked'
      BY <2>9, <2>10 DEF Blocked
    <3> QED
      BY <2>3, <2>4, <2>10, <2>13, <3>1 DEF Flagged
  <2> QED
    BY <2>10, <2>14 DEF IInv
<1>2. CASE LiftStatus.Flags # {}
  <2>1. LiftStatus.Flags \subseteq Flag
    BY DEF IInv, Flagged
  <2>2. LiftStatus.Flags \cap Flag = LiftStatus.Flags
    BY <2>1
  <2>3. Go(Lift, "pend", "switch") /\ Takes(FlagsTaken(os, LiftStatus, LiftStatus.Flags), "switch")
    BY <1>2, <2>2 DEF LiftPend, OSFlagPend
  <2>4. os.Cur = Lift
    BY <2>3 DEF Go, Runs
  <2> QED
    BY <1>2, <2>1, <2>3, <2>4, Taking
<1> QED
  BY <1>1, <1>2

\* Whoever ended the wait left it a flag.
LEMMA LiftPendedStep == ASSUME IInv, LiftPended, build' = build PROVE IInv'
<1>1. Go(Lift, "pended", "switch") /\ Takes(OSFlagPendTail(os, LiftStatus), "switch")
  BY DEF LiftPended
<1>2. os.Cur = Lift /\ pc[Lift] = "pended"
  BY <1>1 DEF Go, Runs
<1>3. os.tcb[Lift].StatPend = "OK" /\ ~Blocked
  BY <1>2, LiftRuns
<1>4. LiftStatus.Rdy[Lift] \in SUBSET Flag /\ LiftStatus.Rdy[Lift] # {}
  BY <1>2, <1>3, Tasks7 DEF IInv, Flagged
<1>5. OSFlagPendTail(os, LiftStatus) = FlagsTaken(os, LiftStatus, LiftStatus.Rdy[Lift])
  BY <1>2, <1>3 DEF OSFlagPendTail
<1> QED
  BY <1>1, <1>2, <1>4, <1>5, Taking

\* A statement that does not call the kernel.
LEMMA LiftGoStep ==
    ASSUME IInv, NEW from, NEW to, LiftGo(from, to), from \notin {"new", "pend", "pended"},
           to \notin {"new", "pended"}, build' = build
    PROVE  IInv'
<1>1. /\ os.Cur = Lift /\ pc[Lift] = from /\ pc' = [pc EXCEPT ![Lift] = to] /\ os' = os
      /\ LiftValues' = (IF to = "pend" THEN {} ELSE LiftValues)
      /\ UNCHANGED <<LiftStatus, comm, slept, clock, build>>
  BY DEF LiftGo, Go, Runs
<1>2. Steady(os) /\ Flagged
  BY DEF IInv
<1> DEFINE b == os.tcb[Lift]
<1>3. Leaves(os', os, Lift, b) /\ b.Stat = {} /\ (b.Dly > 0 => slept') /\ (i > 0 => slept)
      /\ LiftStatus.Wait = [t \in Task |-> {}]
  BY <1>1, <1>2, SameKernel, LiftRuns
<1> HIDE DEF b
<1>4. /\ Steady(os') /\ Births' /\ Sleeps' /\ HiddenNeverRun' /\ Talk' /\ build' \in Builds
      /\ pc'[Lift] = to /\ i' = i /\ os'.tcb[Lift] = b
  BY <1>1, <1>3, LiftRest
<1>5. Flagged'
  <2>1. ~Blocked'
    BY <1>3, <1>4 DEF Blocked
  <2>2. LiftValues' \subseteq Flag /\ (LiftValues' # {} <=> to \notin {"new", "pend", "pended"})
    BY <1>1, <1>2 DEF Flagged
  <2> QED
    BY <1>1, <1>2, <1>3, <1>4, <2>1, <2>2 DEF Flagged
<1> QED
  BY <1>4, <1>5 DEF IInv

\* The delay of an invocation.
LEMMA LiftDelayStep == ASSUME IInv, LiftDelay, build' = build PROVE IInv'
<1>1. /\ os.Cur = Lift /\ pc[Lift] = "delay" /\ pc' = [pc EXCEPT ![Lift] = "arrive"]
      /\ os' = OSTimeDly(os, InvokeDelay) /\ slept' = TRUE /\ LiftValues' = LiftValues
      /\ UNCHANGED <<LiftStatus, comm, clock, build>>
  BY DEF LiftDelay, Go, Runs
<1>2. Steady(os) /\ Flagged
  BY DEF IInv
<1> DEFINE b == Delayed(os.tcb[Lift], InvokeDelay)
<1>3. Leaves(os', os, Lift, b)
  <2>1. os.Cur \notin {Idle, Step, RTC} /\ InvokeDelay \in Nat
    BY <1>1, TasksDiffer, AppAssumption
  <2> QED
    BY <1>1, <1>2, <2>1, DelaySteady
<1>4. b.Stat = {} /\ LiftStatus.Wait = [t \in Task |-> {}]
  BY <1>1, LiftRuns DEF Delayed
<1> HIDE DEF b
<1>5. /\ Steady(os') /\ Births' /\ Sleeps' /\ HiddenNeverRun' /\ Talk' /\ build' \in Builds
      /\ pc'[Lift] = "arrive" /\ i' = i /\ os'.tcb[Lift] = b
  BY <1>1, <1>3, LiftRest
<1>6. Flagged'
  <2>1. ~Blocked'
    BY <1>4, <1>5 DEF Blocked
  <2> QED
    BY <1>1, <1>2, <1>4, <1>5, <2>1 DEF Flagged
<1> QED
  BY <1>5, <1>6 DEF IInv

\* Every statement of vTaskLIFT.
LEMMA LiftStep == ASSUME IInv, vTaskLIFT, build' = build PROVE IInv'
<1>1. CASE LiftSwitch
  <2>1. PICK to \in {"invoke", "stop", "move", "print", "pend"} : LiftGo("switch", to)
    BY <1>1 DEF LiftSwitch
  <2> QED
    BY <2>1, LiftGoStep
<1>2. CASE LiftPrint
  BY <1>2, LiftGoStep DEF LiftPrint
<1>3. CASE LiftMessage("move", "pend") \/ LiftMessage("stop", "print")
           \/ LiftMessage("depart", "delay") \/ LiftMessage("arrive", "report")
           \/ LiftGo("depart", "arrive")
  BY <1>3, LiftGoStep DEF LiftMessage
<1> QED
  BY <1>1, <1>2, <1>3, LiftCreateStep, LiftPendStep, LiftPendedStep, LiftDelayStep DEF vTaskLIFT

-----------------------------------------------------------------------------
(* vTaskComm: the kernel.                                                     *)

\* What the kernel's tables may say of vTaskComm at statement x.
Seated(k, x) ==
    /\ k.tcb[Comm].Dly > 0 => x = "read"
    /\ InPend(k, Comm) => x \in {"get1", "cal1"}
    /\ Owner(k) = Comm => x \in CommSection
    /\ x \in CommSection /\ ~InPend(k, Comm) => ~Reserves(k) \/ Owner(k) = Comm

\* All but the talk.
CommMoved(x) ==
    /\ Steady(os') /\ Births' /\ Sleeps' /\ HiddenNeverRun' /\ Flagged' /\ build' \in Builds
    /\ pc'[Comm] = x /\ pc'[RTC] = pc[RTC] /\ pc'[MSD] = pc[MSD]

\* A statement of vTaskComm keeps all but the talk.
LEMMA CommRest ==
    ASSUME IInv, NEW x, os.Cur = Comm, Goes(Comm, x), Steady(os'), Persist,
           os'.tcb[Lift] = os.tcb[Lift], Seated(os', x), Reserves(os') <=> Reserves(os),
           Owner(os') = RTC <=> Owner(os) = RTC, UNCHANGED <<LiftStatus, lift, build>>,
           i' \in 0 .. ReplyLen - 1
    PROVE  CommMoved(x)
<1>1. Steady(os) /\ Births /\ Sleeps /\ HiddenNeverRun /\ Flagged /\ build \in Builds
  BY DEF IInv
<1>2. Comm \in Task \ {Start} /\ Comm \in Task \ {Idle}
  BY Tasks7, TasksDiffer
<1>3. pc'[Comm] = x /\ pc'[RTC] = pc[RTC] /\ pc'[MSD] = pc[MSD] /\ pc'[Lift] = pc[Lift]
  BY Tasks7, TasksDiffer DEF Goes
<1>4. Births' /\ HiddenNeverRun'
  BY <1>1, <1>2, Elsewhere, StillHidden
<1>5. Sleeps'
  <2>1. (Made' <=> Made) /\ (Made' <=> Reserves(os')) /\ slept' = slept
    BY DEF Made, Reserves, lift
  <2> QED
    BY <1>1, <1>3, <2>1 DEF Sleeps, Seated
<1>6. Flagged'
  <2>1. (Blocked' <=> Blocked) /\ (Blocked \/ slept) /\ slept' = slept /\ LiftValues' = LiftValues
    BY <1>1, CommRuns DEF Blocked, lift
  <2> QED
    BY <1>1, <1>3, <2>1 DEF Flagged
<1> QED
  BY <1>1, <1>3, <1>4, <1>5, <1>6 DEF CommMoved

\* vTaskComm executes a statement; if it holds the mutex vTaskRTC does not.
LEMMA CommFacts ==
    ASSUME IInv, NEW from, NEW to, Go(Comm, from, to)
    PROVE  /\ os.Cur = Comm /\ ~InPend(os, Comm) /\ pc[Comm] = from /\ Goes(Comm, to)
           /\ os.tcb[Comm].Dly = 0 /\ ~Raised(os) /\ (Blocked \/ slept)
           /\ Steady(os) /\ Births /\ Sleeps /\ Flagged /\ Talk
           /\ Owner(os) \in {None, Comm, RTC} /\ (Owner(os) # None => Reserves(os))
           /\ (Owner(os) = None <=> Available(os, RTCMutex))
           /\ (Made <=> Reserves(os)) /\ (Owner(os) = Comm => from \in CommSection)
           /\ from \in CommSection => /\ pc[RTC] \notin RTCSection
                                      /\ (Reserves(os) => Owner(os) = Comm)
<1>1. /\ os.Cur = Comm /\ ~InPend(os, Comm) /\ pc[Comm] = from /\ pc' = [pc EXCEPT ![Comm] = to]
      /\ Steady(os) /\ Births /\ Sleeps /\ Flagged /\ Talk
  BY DEF Go, Runs, IInv
<1>2. Goes(Comm, to) /\ ~Raised(os) /\ (Blocked \/ slept)
  BY <1>1, Going, CommRuns, Tasks7
<1>3. os.tcb[Comm].Dly = 0
  BY <1>1, RunningTask DEF Free
<1>4. Owned(os) /\ Owner(os) \in {None, Comm, RTC}
  BY <1>1, Mutex
<1>5. /\ (Owner(os) # None => Reserves(os)) /\ (Owner(os) = None <=> Available(os, RTCMutex))
      /\ (Made <=> Reserves(os))
  BY <1>4 DEF Owned, Reserves, Made
<1>6. from \in CommSection => pc[RTC] \notin RTCSection /\ (Reserves(os) => Owner(os) = Comm)
  BY <1>1, <1>5, TasksDiffer DEF Sleeps, RTCSection
<1>7. Owner(os) = Comm => from \in CommSection
  BY <1>1 DEF Sleeps
<1> QED
  BY <1>1, <1>2, <1>3, <1>4, <1>5, <1>6, <1>7

\* A statement that does not call the kernel.
LEMMA CommStays ==
    ASSUME IInv, NEW from, NEW to, Go(Comm, from, to), os' = os,
           UNCHANGED <<LiftStatus, lift, build>>, i' \in 0 .. ReplyLen - 1,
           from \in CommSection <=> to \in CommSection
    PROVE  CommMoved(to)
<1>1. /\ os.Cur = Comm /\ ~InPend(os, Comm) /\ pc[Comm] = from /\ Goes(Comm, to)
      /\ os.tcb[Comm].Dly = 0 /\ Steady(os) /\ (Owner(os) = Comm => from \in CommSection)
      /\ (from \in CommSection => (Reserves(os) => Owner(os) = Comm))
  BY CommFacts
<1>2. Steady(os') /\ Persist
  BY <1>1, SameKernel
<1>3. Seated(os', to)
  BY <1>1 DEF Seated
<1> QED
  BY <1>1, <1>2, <1>3, CommRest

\* The pend: the mutex is not there yet, or free, or vTaskRTC's.
LEMMA CommLocks ==
    ASSUME IInv, NEW from \in {"getPend", "calPend"}, NEW to \in {"get1", "cal1"},
           Locks(Comm, from, to), build' = build
    PROVE  CommMoved(to)
<1>1. Go(Comm, from, to) /\ os' = Locked /\ UNCHANGED <<LiftStatus, comm, lift, clock, build>>
  BY DEF Locks
<1>2. /\ os.Cur = Comm /\ ~InPend(os, Comm) /\ Goes(Comm, to) /\ os.tcb[Comm].Dly = 0
      /\ Steady(os) /\ Owner(os) \in {None, Comm, RTC} /\ (Owner(os) # None => Reserves(os))
      /\ (Owner(os) = None <=> Available(os, RTCMutex)) /\ (Made <=> Reserves(os))
      /\ (Owner(os) = Comm => from \in CommSection)
  BY <1>1, CommFacts
<1>3. Owner(os) \in {None, RTC} /\ to \in CommSection
  BY <1>2 DEF CommSection
<1>4. i' \in 0 .. ReplyLen - 1 /\ UNCHANGED <<LiftStatus, lift, build>>
  BY <1>1 DEF IInv, Talk, InHand, comm
<1> SUFFICES /\ Steady(os') /\ Persist /\ os'.tcb[Lift] = os.tcb[Lift] /\ Seated(os', to)
             /\ (Reserves(os') <=> Reserves(os)) /\ (Owner(os') = RTC <=> Owner(os) = RTC)
  BY <1>2, <1>4, CommRest
<1>5. CASE ~Made
  <2>1. os' = os
    BY <1>1, <1>5 DEF Locked
  <2>2. Seated(os', to)
    BY <1>2, <1>3, <1>5, <2>1 DEF Seated
  <2> QED
    BY <1>2, <2>1, <2>2, SameKernel
<1>6. CASE Made /\ Owner(os) = None
  <2>1. os' = TakeMutex(os, RTCMutex)
    BY <1>1, <1>2, <1>6 DEF Locked, OSMutexPend
  <2>2. /\ Keeps(os', os) /\ Owner(os') = Comm /\ os'.tcb = os.tcb
        /\ (Reserves(os') <=> Reserves(os))
    BY <1>2, <1>6, <2>1, TakeSteady
  <2>3. Seated(os', to)
    BY <1>2, <1>3, <2>2 DEF Seated, InPend
  <2> QED
    BY <1>6, <2>2, <2>3, TasksDiffer, Tasks7 DEF Keeps, Persist
<1>7. CASE Made /\ Owner(os) = RTC
  <2>1. os' = OSMutexPend(os, RTCMutex, TASK_PIP_PRIO, 0)
    BY <1>1, <1>7 DEF Locked
  <2>2. /\ Keeps(os', os) /\ Owner(os') = RTC /\ InPend(os', Comm)
        /\ (Reserves(os') <=> Reserves(os))
    BY <1>2, <1>7, <2>1, LockSleeps
  <2>3. Seated(os', to)
    BY <1>2, <2>2, TasksDiffer DEF Seated, Keeps
  <2> QED
    BY <1>7, <2>2, <2>3 DEF Keeps, Persist
<1> QED
  BY <1>3, <1>5, <1>6, <1>7

\* The post.
LEMMA CommUnlocks ==
    ASSUME IInv, NEW from \in {"getPost", "calPost"}, Unlocks(Comm, from, "send"), build' = build
    PROVE  CommMoved("send")
<1>1. Go(Comm, from, "send") /\ os' = Unlocked /\ UNCHANGED <<LiftStatus, comm, lift, clock, build>>
  BY DEF Unlocks
<1>2. /\ os.Cur = Comm /\ ~InPend(os, Comm) /\ Goes(Comm, "send") /\ os.tcb[Comm].Dly = 0
      /\ Steady(os) /\ ~Raised(os) /\ (Owner(os) # None => Reserves(os)) /\ (Made <=> Reserves(os))
      /\ (from \in CommSection => (Reserves(os) => Owner(os) = Comm))
  BY <1>1, CommFacts
<1>3. (Reserves(os) => Owner(os) = Comm) /\ "send" \notin CommSection
  BY <1>2 DEF CommSection
<1>4. i' \in 0 .. ReplyLen - 1 /\ UNCHANGED <<LiftStatus, lift, build>>
  BY <1>1 DEF IInv, Talk, InHand, comm
<1> SUFFICES /\ Steady(os') /\ Persist /\ os'.tcb[Lift] = os.tcb[Lift] /\ Seated(os', "send")
             /\ (Reserves(os') <=> Reserves(os)) /\ (Owner(os') = RTC <=> Owner(os) = RTC)
  BY <1>2, <1>4, CommRest
<1>5. CASE ~Made
  <2>1. os' = os
    BY <1>1, <1>5 DEF Unlocked
  <2>2. Seated(os', "send")
    BY <1>2, <1>3, <1>5, <2>1, Tasks7 DEF Seated
  <2> QED
    BY <1>2, <2>1, <2>2, SameKernel
<1>6. CASE Made
  <2>1. os' = OSMutexPost(os, RTCMutex, TASK_PIP_PRIO) /\ Owner(os) = os.Cur
    BY <1>1, <1>2, <1>3, <1>6 DEF Unlocked
  <2>2. ~InPend(os, os.Cur)
    BY <1>2
  <2>3. /\ Keeps(os', os) /\ Owner(os') = None /\ os'.tcb = os.tcb
        /\ (Reserves(os') <=> Reserves(os))
    BY <1>2, <2>1, <2>2, FreeSteady
  <2>4. Seated(os', "send")
    BY <1>2, <1>3, <2>3, Tasks7 DEF Seated, InPend
  <2> QED
    BY <1>2, <2>1, <2>3, <2>4, TasksDiffer, Tasks7 DEF Keeps, Persist
<1> QED
  BY <1>5, <1>6

\* The end of a pend that slept: the mutex has been handed over.
LEMMA CommWakesStep == ASSUME IInv, Wakes(Comm), build' = build PROVE IInv'
<1>1. /\ os.Cur = Comm /\ InPend(os, Comm) /\ os' = PendTail(os) /\ pc' = pc
      /\ UNCHANGED <<LiftStatus, comm, lift, clock, build>>
  BY DEF Wakes, Returns
<1>2. Steady(os) /\ Births /\ Sleeps /\ Talk
  BY DEF IInv
<1> DEFINE x == pc[Comm]
<1>3. Goes(Comm, x)
  BY <1>1, <1>2, Tasks7 DEF Births, Goes
<1>4. x \in CommSection /\ os.tcb[Comm].Dly = 0
  BY <1>1, <1>2, RunningTask DEF Sleeps, CommSection, Free
<1>5. Owner(os) = Comm
  BY <1>1, <1>2, Mutex, CommRuns DEF Owned
<1>6. Keeps(os', os) /\ Owner(os') = Comm /\ ~InPend(os', Comm) /\ (Reserves(os') <=> Reserves(os))
  BY <1>1, <1>2, TailSteady
<1> HIDE DEF x
<1>7. Seated(os', x)
  BY <1>4, <1>6 DEF Seated, Keeps
<1>8. i' \in 0 .. ReplyLen - 1 /\ UNCHANGED <<LiftStatus, lift, build>>
  BY <1>1, <1>2 DEF Talk, InHand, comm
<1>9. /\ Steady(os') /\ Persist /\ os'.tcb[Lift] = os.tcb[Lift]
      /\ (Owner(os') = RTC <=> Owner(os) = RTC)
  BY <1>5, <1>6 DEF Keeps, Persist
<1>10. CommMoved(x)
  BY <1>1, <1>3, <1>6, <1>7, <1>8, <1>9, CommRest
<1>11. Talk'
  BY <1>1, <1>2, TalkSame
<1> QED
  BY <1>10, <1>11 DEF CommMoved, IInv

-----------------------------------------------------------------------------
(* vTaskComm: what it says.                                                   *)

\* A time is known by its two halves.
LEMMA Pairs ==
    /\ \A x \in Time, y \in Time : x[1] = y[1] /\ x[2] = y[2] => x = y
    /\ Boot \in Times /\ Whole(Boot) \in Time
<1>1. Boot \in Times
  BY AppAssumption
<1>2. \A x \in Time, y \in Time : x[1] = y[1] /\ x[2] = y[2] => x = y
  BY DEF Time
<1> QED
  BY <1>1, <1>2, Wholes

\* A frame is one of the three.
LEMMA FrameKinds ==
    /\ None \notin Frames
    /\ \A f \in Frames : /\ f.CMD \in {"get", "cal", "lift"}
                         /\ f.CMD = "cal" => f.data \in Times
                         /\ f.CMD = "lift" => f.data \in Flag
  BY AppAssumption DEF Frames

\* The clock is not set, and the times read are as the statement wants them.
LEMMA ClockStill ==
    ASSUME Talk, NEW x, CommMoved(x), pc[Comm] \notin {"cal2", "calSet"},
           x \notin {"cal2", "calSet"},
           UNCHANGED <<time_now, counter, local, record, set, raced, recal>>,
           reply' \in Time, x = "get2" => reply'[1] = time_now[1],
           x = "getPost" => reply' = time_now,
           x = "send" /\ cmd'.CMD = "get" /\ ~raced => reply' \in Current
    PROVE  Timed' /\ (raced \/ Kept)' /\ Logged'
<1>1. /\ time_now' = time_now /\ counter' = counter /\ local' = local /\ record' = record
      /\ set' = set /\ raced' = raced /\ recal' = recal
      /\ pc'[Comm] = x /\ pc'[RTC] = pc[RTC] /\ pc'[MSD] = pc[MSD]
  BY DEF CommMoved
<1>2. ~Calibrating /\ ~Calibrating'
  BY <1>1 DEF Calibrating
<1>3. Timed'
  BY <1>1, <1>2 DEF Talk, Timed
<1>4. (raced \/ Kept)'
  <2>1. Current' = Current
    BY <1>1 DEF Current
  <2> QED
    BY <1>1, <1>2, <2>1 DEF Talk, Kept
<1>5. Logged'
  BY <1>1, <1>2 DEF Talk, Logged, RecordWhole
<1> QED
  BY <1>3, <1>4, <1>5

\* The first statement.
LEMMA CommBeginStep == ASSUME IInv, CommBegin, build' = build PROVE IInv'
<1>1. Go(Comm, "new", "read") /\ os' = os /\ UNCHANGED <<LiftStatus, comm, lift, clock, build>>
  BY DEF CommBegin
<1>2. i' \in 0 .. ReplyLen - 1 /\ Talk /\ pc[Comm] = "new"
  BY <1>1 DEF IInv, Talk, InHand, comm, Go
<1>3. CommMoved("read")
  <2>1. "new" \in CommSection <=> "read" \in CommSection
    BY DEF CommSection
  <2> QED
    BY <1>1, <1>2, <2>1, CommStays
<1>4. InHand'
  BY <1>1, <1>2, <1>3 DEF Talk, InHand, CommMoved, CommSection, comm
<1>5. Timed' /\ (raced \/ Kept)' /\ Logged'
  <2>1. UNCHANGED <<time_now, counter, local, record, set, raced, recal>> /\ reply' \in Time
    BY <1>1, <1>2 DEF clock, Talk, Timed
  <2> QED
    BY <1>2, <1>3, <2>1, ClockStill
<1> QED
  BY <1>3, <1>4, <1>5 DEF CommMoved, Talk, IInv

\* The ring is empty: vTaskComm sleeps, and holds no mutex.
LEMMA CommSleepStep == ASSUME IInv, CommSleep, build' = build PROVE IInv'
<1>1. /\ Go(Comm, "read", "read") /\ os' = OSTimeDly(os, CommDelay)
      /\ UNCHANGED <<LiftStatus, comm, lift, clock, build>>
  BY DEF CommSleep
<1>2. /\ os.Cur = Comm /\ ~InPend(os, Comm) /\ pc[Comm] = "read" /\ Goes(Comm, "read")
      /\ Steady(os) /\ Talk /\ (Owner(os) = Comm => "read" \in CommSection)
  BY <1>1, CommFacts
<1> DEFINE b == Delayed(os.tcb[Comm], CommDelay)
<1>3. Leaves(os', os, Comm, b) /\ b.EventPtr = os.tcb[Comm].EventPtr
  <2>1. os.Cur \notin {Idle, Step, RTC} /\ CommDelay \in Nat
    BY <1>2, TasksDiffer, AppAssumption
  <2>2. Leaves(os', os, Comm, b)
    BY <1>1, <1>2, <2>1, DelaySteady
  <2> QED
    BY <2>2 DEF Delayed
<1> HIDE DEF b
<1>4. /\ Steady(os') /\ os'.PrioTbl = os.PrioTbl /\ os'.ev = os.ev /\ os'.tcb[Lift] = os.tcb[Lift]
      /\ os'.tcb[Comm].EventPtr = os.tcb[Comm].EventPtr
  BY <1>3, Tasks7, TasksDiffer DEF Leaves
<1>5. Persist /\ Owner(os') = Owner(os) /\ (Reserves(os') <=> Reserves(os))
      /\ (InPend(os', Comm) <=> InPend(os, Comm))
  BY <1>4 DEF Persist, Exists, Owner, Reserves, InPend
<1>6. Seated(os', "read")
  BY <1>2, <1>5 DEF Seated, CommSection
<1>7. i' \in 0 .. ReplyLen - 1 /\ UNCHANGED <<LiftStatus, lift, build>>
  BY <1>1, <1>2 DEF Talk, InHand, comm
<1>8. CommMoved("read")
  <2>1. Owner(os') = RTC <=> Owner(os) = RTC
    BY <1>5
  <2> QED
    BY <1>2, <1>4, <1>5, <1>6, <1>7, <2>1, CommRest
<1>9. Talk'
  <2>1. pc'[Comm] = pc[Comm] /\ pc'[RTC] = pc[RTC] /\ pc'[MSD] = pc[MSD]
    BY <1>2, <1>8 DEF CommMoved
  <2> QED
    BY <1>1, <1>2, <2>1, TalkSame
<1> QED
  BY <1>8, <1>9 DEF CommMoved, IInv

\* A frame is read: its command says which statement is next.
LEMMA CommReadStep == ASSUME IInv, CommRead, build' = build PROVE IInv'
<1> DEFINE f == Head(inbox)
           x == Handler(f)
<1>1. /\ inbox # <<>> /\ Go(Comm, "read", x) /\ cmd' = f /\ inbox' = Tail(inbox)
      /\ os' = os /\ i' = i /\ UNCHANGED <<LiftStatus, lift, clock, build>>
  BY DEF CommRead
<1>2. Talk /\ pc[Comm] = "read" /\ inbox \in Seq(Frames) /\ i = 0 /\ i' \in 0 .. ReplyLen - 1
  BY <1>1 DEF IInv, Talk, InHand, Go
<1>3. f \in Frames /\ inbox' \in Seq(Frames)
  BY <1>1, <1>2
<1>4. /\ \/ f.CMD = "get" /\ x = "getPend"
         \/ f.CMD = "cal" /\ x = "calPend"
         \/ f.CMD = "lift" /\ x = "post"
      /\ f # None
  BY <1>3, FrameKinds DEF Handler
<1> HIDE DEF f, x
<1>5. CommMoved(x)
  <2>1. "read" \in CommSection <=> x \in CommSection
    BY <1>4 DEF CommSection
  <2> QED
    BY <1>1, <1>2, <2>1, CommStays
<1>6. InHand'
  BY <1>1, <1>2, <1>3, <1>4, <1>5 DEF Talk, InHand, CommMoved, CommSection
<1>7. Timed' /\ (raced \/ Kept)' /\ Logged'
  <2>1. UNCHANGED <<time_now, counter, local, record, set, raced, recal>> /\ reply' \in Time
    BY <1>1, <1>2 DEF clock, Talk, Timed
  <2>2. x \notin {"cal2", "calSet", "get2", "getPost", "send"}
    BY <1>4
  <2> QED
    BY <1>2, <1>5, <2>1, <2>2, ClockStill
<1> QED
  BY <1>5, <1>6, <1>7 DEF CommMoved, Talk, IInv

\* The pends.
LEMMA CommLockStep ==
    ASSUME IInv, Locks(Comm, "getPend", "get1") \/ Locks(Comm, "calPend", "cal1"), build' = build
    PROVE  IInv'
<1>1. PICK from \in {"getPend", "calPend"}, to \in {"get1", "cal1"} :
            /\ Locks(Comm, from, to) /\ (from = "getPend" <=> to = "get1")
  OBVIOUS
<1>2. Go(Comm, from, to) /\ UNCHANGED <<LiftStatus, comm, lift, clock, build>>
  BY <1>1 DEF Locks
<1>3. CommMoved(to)
  BY <1>1, CommLocks
<1>4. Talk /\ pc[Comm] = from
  BY <1>2 DEF IInv, Go
<1>5. InHand'
  BY <1>1, <1>2, <1>3, <1>4 DEF Talk, InHand, CommMoved, CommSection, comm
<1>6. Timed' /\ (raced \/ Kept)' /\ Logged'
  <2>1. UNCHANGED <<time_now, counter, local, record, set, raced, recal>> /\ reply' \in Time
    BY <1>2, <1>4 DEF clock, Talk, Timed
  <2> QED
    BY <1>3, <1>4, <2>1, ClockStill
<1> QED
  BY <1>3, <1>5, <1>6 DEF CommMoved, Talk, IInv

\* The posts: what is reported then is one time, and not an old one.
LEMMA CommUnlockStep ==
    ASSUME IInv, Unlocks(Comm, "getPost", "send") \/ Unlocks(Comm, "calPost", "send"), build' = build
    PROVE  IInv'
<1>1. PICK from \in {"getPost", "calPost"} : Unlocks(Comm, from, "send")
  OBVIOUS
<1>2. Go(Comm, from, "send") /\ UNCHANGED <<LiftStatus, comm, lift, clock, build>>
  BY <1>1 DEF Unlocks
<1>3. CommMoved("send")
  BY <1>1, CommUnlocks
<1>4. Talk /\ pc[Comm] = from /\ pc[RTC] \notin RTCSection
  BY <1>2, CommFacts DEF CommSection
<1>5. InHand'
  BY <1>1, <1>2, <1>3, <1>4 DEF Talk, InHand, CommMoved, CommSection, comm
<1>6. UNCHANGED <<time_now, counter, local, record, set, raced, recal>> /\ reply' = reply
      /\ reply \in Time /\ cmd' = cmd
  BY <1>2, <1>4 DEF clock, comm, Talk, Timed
<1>7. cmd.CMD = "get" /\ ~raced => reply \in Current
  <2>1. cmd.CMD = "get" => from = "getPost"
    BY <1>1, <1>4 DEF Talk, InHand
  <2>2. from = "getPost" => reply = time_now
    BY <1>4 DEF Talk, Timed
  <2>3. ~raced => time_now \in Current
    BY <1>1, <1>4 DEF Talk, Kept, Calibrating, RTCSection
  <2> QED
    BY <2>1, <2>2, <2>3
<1>8. Timed' /\ (raced \/ Kept)' /\ Logged'
  BY <1>3, <1>4, <1>6, <1>7, ClockStill
<1> QED
  BY <1>3, <1>5, <1>8 DEF CommMoved, Talk, IInv

\* A byte of the reply.
LEMMA SendStep == ASSUME IInv, UART1_Sendbyte, build' = build PROVE IInv'
<1> DEFINE x == IF i = ReplyLen - 1 THEN "read" ELSE "send"
<1>1. /\ Go(Comm, "send", x) /\ os' = os /\ i' = (i + 1) % ReplyLen /\ inbox' = inbox
      /\ cmd' = (IF i = ReplyLen - 1 THEN None ELSE cmd)
      /\ reply' = (IF i = ReplyLen - 1 THEN Whole(Boot) ELSE reply)
      /\ UNCHANGED <<LiftStatus, lift, build>>
      /\ UNCHANGED <<time_now, counter, local, record, set, raced, recal>>
  BY DEF UART1_Sendbyte
<1>2. Talk /\ pc[Comm] = "send" /\ i \in 0 .. ReplyLen - 1 /\ ReplyLen \in Nat \ {0}
  BY <1>1, AppAssumption DEF IInv, Talk, InHand, Go
<1>3. i' \in 0 .. ReplyLen - 1 /\ (i = ReplyLen - 1 => i' = 0) /\ (i # ReplyLen - 1 => i' = i + 1)
  BY <1>1, <1>2
<1>4. x \in {"read", "send"} /\ (x = "read" <=> i = ReplyLen - 1)
  OBVIOUS
<1> HIDE DEF x
<1>5. CommMoved(x)
  <2>1. "send" \in CommSection <=> x \in CommSection
    BY <1>4 DEF CommSection
  <2> QED
    BY <1>1, <1>3, <2>1, CommStays
<1>6. InHand'
  <2>1. i' > 0 => x = "send"
    BY <1>3, <1>4
  <2>2. cmd' \in Frames \cup {None} /\ (cmd' = None <=> x = "read")
    BY <1>1, <1>2, <1>4, FrameKinds DEF Talk, InHand
  <2> QED
    BY <1>1, <1>2, <1>3, <1>4, <1>5, <2>1, <2>2 DEF Talk, InHand, CommMoved, CommSection
<1>7. Timed' /\ (raced \/ Kept)' /\ Logged'
  <2>1. reply' \in Time
    BY <1>1, <1>2, Pairs DEF Talk, Timed
  <2>2. x = "send" /\ cmd'.CMD = "get" /\ ~raced => reply' \in Current
    BY <1>1, <1>2, <1>4 DEF Talk, Kept
  <2>3. x \notin {"cal2", "calSet", "get2", "getPost"}
    BY <1>4
  <2> QED
    BY <1>1, <1>2, <1>5, <2>1, <2>2, <2>3, ClockStill
<1> QED
  BY <1>5, <1>6, <1>7 DEF CommMoved, Talk, IInv

\* prvTimeGet, a half at a time.
LEMMA GetStep ==
    ASSUME IInv, CommGet(1, "get1", "get2") \/ CommGet(2, "get2", "getPost"), build' = build
    PROVE  IInv'
<1>1. PICK n \in 1 .. 2 : CommGet(n, IF n = 1 THEN "get1" ELSE "get2",
                                     IF n = 1 THEN "get2" ELSE "getPost")
  OBVIOUS
<1> DEFINE from == IF n = 1 THEN "get1" ELSE "get2"
           to == IF n = 1 THEN "get2" ELSE "getPost"
<1>2. /\ Go(Comm, from, to) /\ reply' = [reply EXCEPT ![n] = time_now[n]] /\ os' = os
      /\ UNCHANGED <<LiftStatus, comm, lift, build>>
      /\ UNCHANGED <<time_now, counter, local, record, set, raced, recal>>
  BY <1>1 DEF CommGet
<1>3. /\ from \in {"get1", "get2"} /\ (from = "get1" <=> n = 1)
      /\ to \in {"get2", "getPost"} /\ (to = "get2" <=> n = 1)
  OBVIOUS
<1> HIDE DEF from, to
<1>4. Talk /\ pc[Comm] = from /\ i' \in 0 .. ReplyLen - 1 /\ UNCHANGED <<LiftStatus, lift, build>>
  BY <1>2 DEF IInv, Talk, InHand, Go, comm
<1>5. CommMoved(to)
  <2>1. from \in CommSection <=> to \in CommSection
    BY <1>3 DEF CommSection
  <2> QED
    BY <1>2, <1>4, <2>1, CommStays
<1>6. InHand'
  BY <1>2, <1>3, <1>4, <1>5 DEF Talk, InHand, CommMoved, CommSection, comm
<1>7. Timed' /\ (raced \/ Kept)' /\ Logged'
  <2>1. reply \in Time /\ time_now \in Time /\ (from = "get2" => reply[1] = time_now[1])
    BY <1>4 DEF Talk, Timed
  <2>2. reply' \in Time /\ reply'[n] = time_now[n]
    <3>1. time_now[n] \in Times
      BY <2>1, Wholes
    <3> QED
      BY <1>2, <2>1, <3>1 DEF Time
  <2>3. to = "get2" => reply'[1] = time_now[1]
    BY <1>3, <2>2
  <2>4. to = "getPost" => reply' = time_now
    <3>1. to = "getPost" => from = "get2" /\ n = 2
      BY <1>3
    <3>2. n = 2 => reply'[1] = reply[1]
      BY <1>2, <2>1 DEF Time
    <3> QED
      BY <2>1, <2>2, <3>1, <3>2, Pairs
  <2>5. to # "send" /\ pc[Comm] \notin {"cal2", "calSet"} /\ to \notin {"cal2", "calSet"}
    BY <1>3, <1>4
  <2> QED
    BY <1>2, <1>4, <1>5, <2>2, <2>3, <2>4, <2>5, ClockStill
<1> QED
  BY <1>5, <1>6, <1>7 DEF CommMoved, Talk, IInv

\* prvTimeCalibration, a half at a time.
LEMMA CalStep ==
    ASSUME IInv, CommCal(1, "cal1", "cal2") \/ CommCal(2, "cal2", "calSet"), build' = build
    PROVE  IInv'
<1>1. PICK n \in 1 .. 2 : CommCal(n, IF n = 1 THEN "cal1" ELSE "cal2",
                                     IF n = 1 THEN "cal2" ELSE "calSet")
  OBVIOUS
<1> DEFINE from == IF n = 1 THEN "cal1" ELSE "cal2"
           to == IF n = 1 THEN "cal2" ELSE "calSet"
<1>2. /\ Go(Comm, from, to) /\ time_now' = [time_now EXCEPT ![n] = cmd.data] /\ os' = os
      /\ recal' = (pc[MSD] # "new") /\ UNCHANGED <<LiftStatus, comm, lift, build>>
      /\ UNCHANGED <<counter, reply, local, record, set, raced>>
  BY <1>1 DEF CommCal
<1>3. /\ from \in {"cal1", "cal2"} /\ (from = "cal1" <=> n = 1)
      /\ to \in {"cal2", "calSet"} /\ (to = "cal2" <=> n = 1)
  OBVIOUS
<1> HIDE DEF from, to
<1>4. /\ Talk /\ pc[Comm] = from /\ i' \in 0 .. ReplyLen - 1 /\ UNCHANGED <<LiftStatus, lift, build>>
      /\ cmd' = cmd /\ cmd.data \in Times
  <2>1. Talk /\ pc[Comm] = from /\ i' \in 0 .. ReplyLen - 1 /\ cmd' = cmd
    BY <1>2 DEF IInv, Talk, InHand, Go, comm
  <2>2. cmd \in Frames /\ cmd.CMD = "cal"
    BY <1>3, <2>1 DEF Talk, InHand
  <2> QED
    BY <1>2, <2>1, <2>2, FrameKinds
<1>5. pc[RTC] \notin RTCSection
  <2>1. from \in CommSection
    BY <1>3 DEF CommSection
  <2> QED
    BY <1>2, <2>1, CommFacts
<1>6. CommMoved(to)
  <2>1. from \in CommSection <=> to \in CommSection
    BY <1>3 DEF CommSection
  <2> QED
    BY <1>2, <1>4, <2>1, CommStays
<1>7. pc'[Comm] = to /\ pc'[RTC] = pc[RTC] /\ pc'[MSD] = pc[MSD]
  BY <1>6 DEF CommMoved
<1>8. InHand'
  BY <1>2, <1>3, <1>4, <1>7 DEF Talk, InHand, CommSection, comm
<1>9. Calibrating'
  BY <1>3, <1>7 DEF Calibrating
<1>10. Timed'
  <2>1. time_now \in Time /\ (from = "cal2" => time_now[1] = cmd.data)
    BY <1>4 DEF Talk, Timed, Calibrating
  <2>2. time_now' \in Time /\ time_now'[n] = cmd.data /\ (n = 2 => time_now'[1] = time_now[1])
    BY <1>2, <1>4, <2>1 DEF Time
  <2>3. time_now'[1] = cmd.data /\ (to = "calSet" => time_now'[2] = cmd.data)
    BY <1>3, <2>1, <2>2
  <2> QED
    BY <1>2, <1>3, <1>4, <1>7, <1>9, <2>2, <2>3 DEF Talk, Timed
<1>11. (raced \/ Kept)'
  <2>1. Current' = Current
    BY <1>2 DEF Current
  <2> QED
    BY <1>2, <1>3, <1>4, <1>5, <1>7, <1>9, <2>1 DEF Talk, Kept, RTCSection
<1>12. Logged'
  BY <1>2, <1>4, <1>7 DEF Talk, Logged, RecordWhole
<1> QED
  BY <1>6, <1>8, <1>10, <1>11, <1>12 DEF CommMoved, Talk, IInv

\* The counter is set; vTaskRTC may be on its way to set its own.
LEMMA SetStep == ASSUME IInv, CommSet, build' = build PROVE IInv'
<1>1. /\ Go(Comm, "calSet", "calPost") /\ counter' = time_now /\ set' = cmd.data
      /\ raced' = (pc[RTC] \in {"copy2", "set"}) /\ os' = os
      /\ UNCHANGED <<LiftStatus, comm, lift, build>>
      /\ UNCHANGED <<time_now, reply, local, record, recal>>
  BY DEF CommSet
<1>2. Talk /\ pc[Comm] = "calSet" /\ i' \in 0 .. ReplyLen - 1 /\ UNCHANGED <<LiftStatus, lift, build>>
  BY <1>1 DEF IInv, Talk, InHand, Go, comm
<1>3. cmd \in Frames /\ cmd.CMD = "cal" /\ cmd.data \in Times /\ cmd' = cmd
  <2>1. cmd \in Frames /\ cmd.CMD = "cal"
    BY <1>2 DEF Talk, InHand
  <2> QED
    BY <1>1, <2>1, FrameKinds DEF comm
<1>4. pc[RTC] \notin RTCSection
  <2>1. "calSet" \in CommSection
    BY DEF CommSection
  <2> QED
    BY <1>1, <2>1, CommFacts
<1>5. CommMoved("calPost")
  <2>1. "calSet" \in CommSection <=> "calPost" \in CommSection
    BY DEF CommSection
  <2> QED
    BY <1>1, <1>2, <2>1, CommStays
<1>6. pc'[Comm] = "calPost" /\ pc'[RTC] = pc[RTC] /\ pc'[MSD] = pc[MSD] /\ ~Calibrating'
  BY <1>5 DEF CommMoved, Calibrating
<1>7. InHand'
  BY <1>1, <1>2, <1>6 DEF Talk, InHand, CommSection, comm
<1>8. time_now \in Time /\ time_now = Whole(cmd.data)
  <2>1. time_now \in Time /\ time_now[1] = cmd.data /\ time_now[2] = cmd.data
    BY <1>2 DEF Talk, Timed, Calibrating
  <2> QED
    BY <1>3, <2>1, Wholes
<1>9. Timed'
  BY <1>1, <1>2, <1>3, <1>6, <1>8 DEF Talk, Timed
<1>10. (raced \/ Kept)'
  <2>1. time_now' = Whole(set') /\ counter' = Whole(set') /\ time_now' \in Current'
    BY <1>1, <1>8 DEF Current
  <2> QED
    BY <1>1, <1>4, <1>6, <2>1 DEF Kept, RTCSection
<1>11. Logged'
  <2>1. pc[MSD] # "new" => recal
    BY <1>2 DEF Talk, Logged, Calibrating
  <2> QED
    BY <1>1, <1>2, <1>6, <2>1 DEF Talk, Logged, RecordWhole
<1> QED
  BY <1>5, <1>7, <1>9, <1>10, <1>11 DEF CommMoved, Talk, IInv

\* A flag is posted: vTaskLIFT, if it waits, is made ready and has its flags.
LEMMA PostStep == ASSUME IInv, CommPost, build' = build PROVE IInv'
<1> DEFINE f == cmd.data
           r == OSFlagPost(os, LiftStatus, {f})
<1>1. /\ Go(Comm, "post", "read") /\ os' = r.os /\ LiftStatus' = r.grp /\ cmd' = None
      /\ inbox' = inbox /\ i' = i /\ UNCHANGED <<lift, clock, build>>
  BY DEF CommPost
<1>2. /\ os.Cur = Comm /\ ~InPend(os, Comm) /\ pc[Comm] = "post" /\ Goes(Comm, "read")
      /\ (Owner(os) = Comm => "post" \in CommSection)
      /\ Steady(os) /\ Births /\ Sleeps /\ Flagged /\ Talk
  BY <1>1, CommFacts
<1>3. cmd \in Frames /\ f \in Flag /\ i = 0
  <2>1. cmd \in Frames /\ cmd.CMD = "lift" /\ i = 0
    BY <1>2 DEF Talk, InHand
  <2> QED
    BY <2>1, FrameKinds
<1> DEFINE g == LiftStatus
           G == [Flags : SUBSET Flag, Wait : [Task -> SUBSET Flag], Rdy : [Task -> SUBSET Flag]]
<1>4. g \in G /\ WaitsForAny(os, g) /\ g = [Flags |-> g.Flags, Wait |-> g.Wait, Rdy |-> g.Rdy]
      /\ (Blocks(os) <=> Blocked)
  <2>1. g \in G
    BY <1>2 DEF Flagged
  <2>2. Blocks(os) <=> Blocked
    BY DEF Blocks, Blocked
  <2>3. WaitsForAny(os, g)
    BY <1>2, <2>2 DEF Flagged, WaitsForAny
  <2> QED
    BY <2>1, <2>2, <2>3
<1>5. /\ Blocks(os) =>
            /\ Leaves(r.os, os, Lift, Woken(os.tcb[Lift]))
            /\ r.grp = [Flags |-> g.Flags \cup {f}, Wait |-> [t \in Task |-> {}],
                        Rdy |-> [t \in Task |-> IF t = Lift THEN (g.Flags \cup {f}) \cap Flag
                                                            ELSE g.Rdy[t]]]
      /\ ~Blocks(os) =>
            /\ r.os = os
            /\ r.grp = [Flags |-> g.Flags \cup {f}, Wait |-> [t \in Task |-> {}],
                        Rdy |-> [t \in Task |-> g.Rdy[t]]]
  <2> HIDE DEF f
  <2> QED
    BY <1>2, <1>3, <1>4, FlagPostSteady
<1> HIDE DEF r
<1>6. /\ Steady(os') /\ os'.PrioTbl = os.PrioTbl /\ os'.ev = os.ev /\ os'.tcb[Comm] = os.tcb[Comm]
      /\ (os'.tcb[Lift].Dly > 0 => os.tcb[Lift].Dly > 0) /\ ~Blocked'
  <2>1. CASE Blocks(os)
    <3>1. Leaves(os', os, Lift, Woken(os.tcb[Lift]))
      BY <1>1, <1>5, <2>1
    <3>2. os.tcb[Lift] \in TCB(Vals)
      BY <1>2, Tasks7 DEF Steady, Sound, KernelState
    <3>3. Woken(os.tcb[Lift]).Dly = 0 /\ "FLAG" \notin Woken(os.tcb[Lift]).Stat
      BY <3>2 DEF Woken, TCB
    <3>4. /\ Steady(os') /\ os'.PrioTbl = os.PrioTbl /\ os'.ev = os.ev
          /\ os'.tcb[Comm] = os.tcb[Comm] /\ os'.tcb[Lift] = Woken(os.tcb[Lift])
      BY <3>1, Tasks7, TasksDiffer DEF Leaves
    <3>5. os'.tcb[Lift].Dly = 0
      BY <3>3, <3>4
    <3>6. ~Blocked'
      BY <3>3, <3>4 DEF Blocked
    <3> QED
      BY <3>4, <3>5, <3>6
  <2>2. CASE ~Blocks(os)
    <3>1. os' = os
      BY <1>1, <1>5, <2>2
    <3> QED
      BY <1>2, <2>2, <3>1 DEF Blocks, Blocked
  <2> QED
    BY <2>1, <2>2
<1>7. pc'[Comm] = "read" /\ pc'[RTC] = pc[RTC] /\ pc'[MSD] = pc[MSD] /\ pc'[Lift] = pc[Lift]
  BY <1>2, Tasks7, TasksDiffer DEF Goes
<1>8. Persist /\ Owner(os') = Owner(os) /\ (Reserves(os') <=> Reserves(os))
      /\ (InPend(os', Comm) <=> InPend(os, Comm)) /\ (Made' <=> Made)
  BY <1>6 DEF Persist, Exists, Owner, Reserves, InPend, Made
<1>9. Births' /\ HiddenNeverRun'
  <2>1. Comm \in Task \ {Start} /\ Comm \in Task \ {Idle}
    BY Tasks7, TasksDiffer
  <2> QED
    BY <1>1, <1>2, <1>8, <2>1, Elsewhere, StillHidden DEF IInv
<1>10. Sleeps'
  <2>1. slept' = slept /\ Owner(os) # Comm
    BY <1>1, <1>2 DEF lift, CommSection
  <2> QED
    BY <1>2, <1>6, <1>7, <1>8, <2>1 DEF Sleeps, CommSection
<1>11. Flagged'
  <2>1. slept' = slept /\ LiftValues' = LiftValues
    BY <1>1 DEF lift
  <2>2. /\ LiftStatus' \in G /\ LiftStatus'.Wait = [t \in Task |-> {}]
        /\ Blocked => LiftStatus'.Rdy[Lift] # {}
        /\ ~Blocked => LiftStatus'.Rdy[Lift] = g.Rdy[Lift]
    <3> HIDE DEF f
    <3>1. CASE Blocks(os)
      <4>1. LiftStatus' = [Flags |-> g.Flags \cup {f}, Wait |-> [t \in Task |-> {}],
                           Rdy |-> [t \in Task |-> IF t = Lift THEN (g.Flags \cup {f}) \cap Flag
                                                               ELSE g.Rdy[t]]]
        BY <1>1, <1>5, <3>1
      <4>2. \A t \in Task : g.Rdy[t] \subseteq Flag
        BY <1>4
      <4>3. LiftStatus' \in G
        BY <1>3, <1>4, <4>1, <4>2
      <4>4. f \in LiftStatus'.Rdy[Lift]
        BY <1>3, <4>1, Tasks7
      <4> QED
        BY <1>4, <3>1, <4>1, <4>3, <4>4
    <3>2. CASE ~Blocks(os)
      <4>1. LiftStatus' = [Flags |-> g.Flags \cup {f}, Wait |-> [t \in Task |-> {}],
                           Rdy |-> [t \in Task |-> g.Rdy[t]]]
        BY <1>1, <1>5, <3>2
      <4>2. LiftStatus' \in G
        BY <1>3, <1>4, <4>1
      <4> QED
        BY <1>4, <3>2, <4>1, <4>2, Tasks7
    <3> QED
      BY <3>1, <3>2
  <2>3. pc'[Lift] = "pended" => LiftStatus'.Rdy[Lift] # {}
    BY <1>2, <1>7, <2>2 DEF Flagged
  <2> HIDE DEF f
  <2> QED
    BY <1>1, <1>2, <1>3, <1>6, <1>7, <2>1, <2>2, <2>3 DEF Flagged
<1>12. CommMoved("read")
  BY <1>1, <1>6, <1>7, <1>9, <1>10, <1>11 DEF CommMoved, IInv
<1>13. InHand'
  BY <1>1, <1>2, <1>3, <1>7 DEF Talk, InHand, CommSection
<1>14. Timed' /\ (raced \/ Kept)' /\ Logged'
  <2>1. UNCHANGED <<time_now, counter, local, record, set, raced, recal>> /\ reply' \in Time
    BY <1>1, <1>2 DEF clock, Talk, Timed
  <2> QED
    BY <1>2, <1>12, <2>1, ClockStill
<1> QED
  BY <1>12, <1>13, <1>14 DEF CommMoved, Talk, IInv

\* Every statement of vTaskComm.
LEMMA CommStep == ASSUME IInv, vTaskComm, build' = build PROVE IInv'
  BY CommBeginStep, CommReadStep, CommSleepStep, CommWakesStep, SendStep, PostStep, CommLockStep,
     GetStep, CommUnlockStep, CalStep, SetStep DEF vTaskComm

-----------------------------------------------------------------------------
(* vTaskRTC and vTaskMSD.                                                     *)

\* While vTaskRTC executes a statement vTaskComm is asleep or in its pend, and
\* vTaskMSD has not begun.
LEMMA RTCFacts ==
    ASSUME IInv, NEW from, NEW to, Go(RTC, from, to)
    PROVE  /\ os.Cur = RTC /\ ~InPend(os, RTC) /\ pc[RTC] = from /\ Goes(RTC, to)
           /\ Steady(os) /\ Talk /\ (Reserves(os) <=> from # "new") /\ (Made <=> Reserves(os))
           /\ (Owner(os) = RTC <=> from \in RTCSection)
           /\ pc[Comm] \in {"read", "get1", "cal1"} /\ ~Calibrating /\ pc[MSD] = "new"
           /\ (~Raised(os) => pc[Comm] = "read" /\ ~InPend(os, Comm) /\ Owner(os) # Comm)
           /\ (Raised(os) => pc[Comm] \in {"get1", "cal1"} /\ InPend(os, Comm) /\ Owner(os) = RTC)
           /\ Owner(os) \in {None, Comm, RTC} /\ (Owner(os) = None <=> Available(os, RTCMutex))
<1>1. /\ os.Cur = RTC /\ ~InPend(os, RTC) /\ pc[RTC] = from /\ pc' = [pc EXCEPT ![RTC] = to]
      /\ Steady(os) /\ Births /\ Sleeps /\ HiddenNeverRun /\ Talk
  BY DEF Go, Runs, IInv
<1>2. /\ Exists(os, RTC) /\ Goes(RTC, to)
      /\ (~Raised(os) => pc[Comm] = "read" /\ ~InPend(os, Comm) /\ Owner(os) # Comm)
      /\ (Raised(os) => pc[Comm] \in {"get1", "cal1"} /\ InPend(os, Comm) /\ Owner(os) = RTC)
  BY <1>1, Going, RTCRuns, Mutex, Tasks7
<1>3. Owned(os) /\ Owner(os) \in {None, Comm, RTC}
  BY <1>1, Mutex
<1>4. (Reserves(os) <=> from # "new") /\ (Made <=> Reserves(os)) /\ (Owner(os) = RTC <=> from \in RTCSection)
  BY <1>1 DEF Sleeps, Reserves, Made
<1>5. Owner(os) = None <=> Available(os, RTCMutex)
  BY <1>3 DEF Owned
<1>6. pc[MSD] = "new"
  <2>1. RTC \in build
    BY <1>1, <1>2 DEF Births
  <2>2. Hidden(MSD)
    BY <2>1, Priorities DEF Hidden
  <2> QED
    BY <1>1, <2>2, Tasks7, TasksDiffer DEF HiddenNeverRun
<1>7. pc[Comm] \in {"read", "get1", "cal1"} /\ ~Calibrating
  <2>1. pc[Comm] \in {"read", "get1", "cal1"}
    BY <1>2
  <2> QED
    BY <2>1 DEF Calibrating
<1> QED
  BY <1>1, <1>2, <1>3, <1>4, <1>5, <1>6, <1>7

\* All but the clock.
RTCMoved(x) ==
    /\ Steady(os') /\ Births' /\ Sleeps' /\ HiddenNeverRun' /\ Flagged' /\ build' \in Builds
    /\ InHand' /\ Logged'
    /\ pc'[RTC] = x /\ pc'[Comm] = pc[Comm] /\ pc[Comm] \in {"read", "get1", "cal1"}
    /\ ~Calibrating /\ ~Calibrating'

\* A statement of vTaskRTC keeps all but the clock.
LEMMA RTCRest ==
    ASSUME IInv, NEW from, NEW to, Go(RTC, from, to), Keeps(os', os), Reserves(os') <=> to # "new",
           Owner(os') = RTC <=> to \in RTCSection, InPend(os', Comm) <=> InPend(os, Comm),
           InPend(os', Comm) \/ Owner(os') # Comm, UNCHANGED <<LiftStatus, comm, lift, build>>
    PROVE  RTCMoved(to)
<1>1. Steady(os) /\ Births /\ Sleeps /\ HiddenNeverRun /\ Flagged /\ Talk /\ build \in Builds
  BY DEF IInv
<1>2. /\ os.Cur = RTC /\ Goes(RTC, to) /\ pc[MSD] = "new" /\ pc[Comm] \in {"read", "get1", "cal1"}
      /\ (~Raised(os) => pc[Comm] = "read" /\ ~InPend(os, Comm))
      /\ (Raised(os) => pc[Comm] \in {"get1", "cal1"} /\ InPend(os, Comm))
  BY RTCFacts
<1>3. RTC \in Task \ {Start} /\ RTC \in Task \ {Idle}
  BY Tasks7, TasksDiffer
<1>4. pc'[RTC] = to /\ pc'[Comm] = pc[Comm] /\ pc'[MSD] = "new" /\ pc'[Lift] = pc[Lift]
  BY <1>2, Tasks7, TasksDiffer DEF Goes
<1>5. Steady(os') /\ Persist /\ os'.tcb[Lift] = os.tcb[Lift] /\ os'.tcb[Comm].Dly = os.tcb[Comm].Dly
  BY DEF Keeps, Persist
<1>6. Births' /\ HiddenNeverRun'
  BY <1>1, <1>2, <1>3, <1>5, Elsewhere, StillHidden
<1>7. Sleeps'
  <2>1. slept' = slept /\ (Made' <=> Reserves(os'))
    BY DEF lift, Made, Reserves
  <2>2. Owner(os') = Comm => pc[Comm] \in {"get1", "cal1"}
    BY <1>2
  <2>3. pc[Comm] \in CommSection => InPend(os', Comm)
    BY <1>2 DEF CommSection
  <2> QED
    BY <1>1, <1>4, <1>5, <2>1, <2>2, <2>3 DEF Sleeps, CommSection
<1>8. Flagged'
  <2>1. UNCHANGED <<LiftStatus, lift, i>>
    BY DEF comm
  <2> QED
    BY <1>1, <1>4, <1>5, <2>1, FlaggedSame
<1>9. InHand'
  <2>1. inbox' = inbox /\ cmd' = cmd /\ i' = i
    BY DEF comm
  <2> QED
    BY <1>1, <1>4, <2>1 DEF Talk, InHand
<1>10. Logged'
  BY <1>4 DEF Logged, RecordWhole
<1>11. ~Calibrating /\ ~Calibrating'
  BY <1>2, <1>4 DEF Calibrating
<1> QED
  BY <1>1, <1>2, <1>4, <1>5, <1>6, <1>7, <1>8, <1>9, <1>10, <1>11 DEF RTCMoved

\* A statement that does not call the kernel.
LEMMA RTCStays ==
    ASSUME IInv, NEW from, NEW to, Go(RTC, from, to), os' = os, from # "new", to # "new",
           from \in RTCSection <=> to \in RTCSection, UNCHANGED <<LiftStatus, comm, lift, build>>
    PROVE  RTCMoved(to)
<1>1. /\ Steady(os) /\ (Reserves(os) <=> from # "new") /\ (Owner(os) = RTC <=> from \in RTCSection)
      /\ (~Raised(os) => Owner(os) # Comm) /\ (Raised(os) => InPend(os, Comm))
  BY RTCFacts
<1>2. Keeps(os', os)
  BY <1>1 DEF Keeps
<1>3. /\ (Reserves(os') <=> to # "new") /\ (Owner(os') = RTC <=> to \in RTCSection)
      /\ (InPend(os', Comm) <=> InPend(os, Comm)) /\ (InPend(os', Comm) \/ Owner(os') # Comm)
  BY <1>1
<1> QED
  BY <1>2, <1>3, RTCRest

\* A call of the kernel changes nothing of the clock.
LEMMA RTCQuiet ==
    ASSUME Talk, NEW x, RTCMoved(x), UNCHANGED clock,
           \/ pc[RTC] = "new" /\ x = "copy1"
           \/ pc[RTC] = "pend" /\ x = "load"
           \/ pc[RTC] = "release" /\ x = "pend"
    PROVE  Timed' /\ (raced \/ Kept)'
<1>1. /\ time_now' = time_now /\ counter' = counter /\ reply' = reply /\ local' = local
      /\ record' = record /\ set' = set /\ raced' = raced /\ recal' = recal
  BY DEF clock
<1>2. Current' = Current
  BY <1>1 DEF Current
<1>3. Timed'
  BY <1>1 DEF Talk, Timed, RTCMoved, RTCSection
<1>4. (raced \/ Kept)'
  BY <1>1, <1>2 DEF Talk, Kept, RTCMoved, RTCSection
<1> QED
  BY <1>3, <1>4

\* The mutex is created.
LEMMA RTCCreateStep == ASSUME IInv, RTCCreate, build' = build PROVE IInv'
<1>1. /\ Go(RTC, "new", "copy1") /\ os' = OSMutexCreate(os, RTCMutex, TASK_PIP_PRIO)
      /\ UNCHANGED <<LiftStatus, comm, lift, clock, build>>
  BY DEF RTCCreate
<1>2. /\ Steady(os) /\ Talk /\ pc[RTC] = "new" /\ ~Reserves(os)
      /\ (Owner(os) = RTC <=> "new" \in RTCSection)
      /\ (~Raised(os) => Owner(os) # Comm) /\ (Raised(os) => Owner(os) = RTC)
  BY <1>1, RTCFacts
<1>3. Keeps(os', os) /\ Reserves(os') /\ os'.tcb = os.tcb /\ Owner(os') = Owner(os)
  BY <1>1, <1>2, MutexCreateSteady
<1>4. RTCMoved("copy1")
  <2>1. Owner(os) # RTC /\ Owner(os) # Comm /\ "copy1" \notin RTCSection
    BY <1>2 DEF RTCSection
  <2>2. InPend(os', Comm) <=> InPend(os, Comm)
    BY <1>3 DEF InPend
  <2> QED
    BY <1>1, <1>3, <2>1, <2>2, RTCRest
<1>5. Timed' /\ (raced \/ Kept)'
  BY <1>1, <1>2, <1>4, RTCQuiet
<1> QED
  BY <1>4, <1>5 DEF RTCMoved, Talk, IInv

\* The pend never sleeps: vTaskComm keeps no mutex over a sleep.
LEMMA RTCLockStep == ASSUME IInv, RTCLock("pend", "load"), build' = build PROVE IInv'
<1>1. Go(RTC, "pend", "load") /\ os' = Locked /\ UNCHANGED <<LiftStatus, comm, lift, clock, build>>
  BY DEF RTCLock, Locks
<1>2. /\ os.Cur = RTC /\ Steady(os) /\ Talk /\ pc[RTC] = "pend" /\ Reserves(os) /\ Made
      /\ (Owner(os) = RTC <=> "pend" \in RTCSection)
      /\ (~Raised(os) => Owner(os) # Comm) /\ (Raised(os) => Owner(os) = RTC)
      /\ Owner(os) \in {None, Comm, RTC} /\ (Owner(os) = None <=> Available(os, RTCMutex))
  BY <1>1, RTCFacts
<1>3. Available(os, RTCMutex) /\ "load" \in RTCSection
  BY <1>2 DEF RTCSection
<1>4. os' = TakeMutex(os, RTCMutex)
  BY <1>1, <1>2, <1>3 DEF Locked, OSMutexPend
<1>5. Keeps(os', os) /\ Owner(os') = RTC /\ os'.tcb = os.tcb /\ Reserves(os')
  BY <1>2, <1>3, <1>4, TakeSteady
<1>6. RTCMoved("load")
  <2>1. (InPend(os', Comm) <=> InPend(os, Comm)) /\ Owner(os') # Comm
    BY <1>5, TasksDiffer DEF InPend
  <2> QED
    BY <1>1, <1>3, <1>5, <2>1, RTCRest
<1>7. Timed' /\ (raced \/ Kept)'
  BY <1>1, <1>2, <1>6, RTCQuiet
<1> QED
  BY <1>6, <1>7 DEF RTCMoved, Talk, IInv

\* The post hands the mutex over, if vTaskComm waits.
LEMMA RTCUnlockStep == ASSUME IInv, Unlocks(RTC, "release", "pend"), build' = build PROVE IInv'
<1>1. /\ Go(RTC, "release", "pend") /\ os' = Unlocked
      /\ UNCHANGED <<LiftStatus, comm, lift, clock, build>>
  BY DEF Unlocks
<1>2. /\ os.Cur = RTC /\ ~InPend(os, RTC) /\ Steady(os) /\ Talk /\ pc[RTC] = "release"
      /\ Reserves(os) /\ Made /\ (Owner(os) = RTC <=> "release" \in RTCSection)
      /\ (Raised(os) => InPend(os, Comm))
  BY <1>1, RTCFacts
<1>3. Owner(os) = os.Cur /\ ~InPend(os, os.Cur) /\ "pend" \notin RTCSection
  BY <1>2 DEF RTCSection
<1>4. os' = OSMutexPost(os, RTCMutex, TASK_PIP_PRIO)
  BY <1>1, <1>2 DEF Unlocked
<1>5. RTCMoved("pend")
  <2>1. CASE Raised(os)
    <3>1. Keeps(os', os) /\ Owner(os') = Comm /\ InPend(os', Comm) /\ Reserves(os')
      BY <1>2, <1>4, <2>1, HandOver
    <3>2. (Owner(os') = RTC <=> "pend" \in RTCSection) /\ (InPend(os', Comm) <=> InPend(os, Comm))
      BY <1>2, <1>3, <2>1, <3>1, TasksDiffer
    <3> QED
      BY <1>1, <3>1, <3>2, RTCRest
  <2>2. CASE ~Raised(os)
    <3>1. Keeps(os', os) /\ Owner(os') = None /\ os'.tcb = os.tcb /\ Reserves(os')
      BY <1>2, <1>3, <1>4, <2>2, FreeSteady
    <3>2. /\ (Owner(os') = RTC <=> "pend" \in RTCSection) /\ Owner(os') # Comm
          /\ (InPend(os', Comm) <=> InPend(os, Comm))
      BY <1>3, <3>1, Tasks7 DEF InPend
    <3> QED
      BY <1>1, <3>1, <3>2, RTCRest
  <2> QED
    BY <2>1, <2>2
<1>6. Timed' /\ (raced \/ Kept)'
  BY <1>1, <1>2, <1>5, RTCQuiet
<1> QED
  BY <1>5, <1>6 DEF RTCMoved, Talk, IInv

\* The copy of time_now, a half at a time.
LEMMA CopyStep ==
    ASSUME IInv, RTCCopy(1, "copy1", "copy2") \/ RTCCopy(2, "copy2", "set"), build' = build
    PROVE  IInv'
<1>1. PICK n \in 1 .. 2 : RTCCopy(n, IF n = 1 THEN "copy1" ELSE "copy2",
                                     IF n = 1 THEN "copy2" ELSE "set")
  OBVIOUS
<1> DEFINE from == IF n = 1 THEN "copy1" ELSE "copy2"
           to == IF n = 1 THEN "copy2" ELSE "set"
<1>2. /\ Go(RTC, from, to) /\ local' = [local EXCEPT ![n] = time_now[n]] /\ os' = os
      /\ UNCHANGED <<LiftStatus, comm, lift, build>>
      /\ UNCHANGED <<time_now, counter, reply, record, set, raced, recal>>
  BY <1>1 DEF RTCCopy
<1>3. /\ from \in {"copy1", "copy2"} /\ (from = "copy1" <=> n = 1)
      /\ to \in {"copy2", "set"} /\ (to = "copy2" <=> n = 1)
  OBVIOUS
<1> HIDE DEF from, to
<1>4. Talk /\ pc[RTC] = from
  BY <1>2, RTCFacts
<1>5. RTCMoved(to)
  <2>1. (from \in RTCSection <=> to \in RTCSection) /\ from # "new" /\ to # "new"
    BY <1>3 DEF RTCSection
  <2> QED
    BY <1>2, <2>1, RTCStays
<1>6. time_now \in Time /\ local \in Time
  BY <1>4 DEF Talk, Timed
<1>7. local' \in Time /\ local'[n] = time_now[n] /\ (n = 2 => local'[1] = local[1])
  <2>1. time_now[n] \in Times
    BY <1>6, Wholes
  <2> QED
    BY <1>2, <1>6, <2>1 DEF Time
<1>8. Timed'
  BY <1>2, <1>3, <1>4, <1>5, <1>7 DEF Talk, Timed, RTCMoved, RTCSection
<1>9. (raced \/ Kept)'
  <2>1. CASE raced
    BY <1>2, <2>1
  <2>2. CASE ~raced
    <3>1. Kept /\ ~Calibrating
      BY <1>4, <1>5, <2>2 DEF Talk, RTCMoved
    <3>2. time_now = Whole(set) /\ time_now \in Current
      BY <1>3, <1>4, <3>1 DEF Kept
    <3>3. from = "copy2" => local[1] = set
      BY <1>4, <3>1 DEF Kept
    <3>4. local'[n] = set
      BY <1>7, <3>2, Wholes
    <3>5. to = "copy2" => local'[1] = set
      BY <1>3, <3>4
    <3>6. to = "set" => local' = Whole(set)
      <4>1. to = "set" => from = "copy2" /\ n = 2
        BY <1>3
      <4> QED
        BY <1>7, <3>3, <3>4, <4>1, Wholes
    <3>7. Current' = Current
      BY <1>2 DEF Current
    <3> QED
      BY <1>2, <1>3, <1>4, <1>5, <3>1, <3>2, <3>5, <3>6, <3>7 DEF Kept, RTCMoved, RTCSection
  <2> QED
    BY <2>1, <2>2
<1> QED
  BY <1>5, <1>8, <1>9 DEF RTCMoved, Talk, IInv

\* The counter is set to the copy.
LEMMA RTCSetStep == ASSUME IInv, RTCSet, build' = build PROVE IInv'
<1>1. /\ Go(RTC, "set", "pend") /\ counter' = local /\ local' = Whole(Boot) /\ os' = os
      /\ UNCHANGED <<LiftStatus, comm, lift, build>>
      /\ UNCHANGED <<time_now, reply, record, set, raced, recal>>
  BY DEF RTCSet
<1>2. Talk /\ pc[RTC] = "set"
  BY <1>1, RTCFacts
<1>3. RTCMoved("pend")
  <2>1. "set" \in RTCSection <=> "pend" \in RTCSection
    BY DEF RTCSection
  <2> QED
    BY <1>1, <2>1, RTCStays
<1>4. Timed'
  BY <1>1, <1>2, <1>3, Pairs DEF Talk, Timed, RTCMoved, RTCSection
<1>5. (raced \/ Kept)'
  <2>1. Current' = Current
    BY <1>1 DEF Current
  <2> QED
    BY <1>1, <1>2, <1>3, <2>1 DEF Talk, Kept, RTCMoved, RTCSection
<1> QED
  BY <1>3, <1>4, <1>5 DEF RTCMoved, Talk, IInv

\* The counter is converted, holding the mutex.
LEMMA RTCLoadStep == ASSUME IInv, RTCLoad, build' = build PROVE IInv'
<1>1. /\ Go(RTC, "load", "store1") /\ local' = [n \in 1 .. 2 |-> Conv[counter[n]]] /\ os' = os
      /\ UNCHANGED <<LiftStatus, comm, lift, build>>
      /\ UNCHANGED <<time_now, counter, reply, record, set, raced, recal>>
  BY DEF RTCLoad
<1>2. Talk /\ pc[RTC] = "load"
  BY <1>1, RTCFacts
<1>3. RTCMoved("store1")
  <2>1. "load" \in RTCSection <=> "store1" \in RTCSection
    BY DEF RTCSection
  <2> QED
    BY <1>1, <2>1, RTCStays
<1>4. local' \in Time /\ local'[1] = Conv[counter[1]] /\ local'[2] = Conv[counter[2]]
  <2>1. counter \in Time
    BY <1>2 DEF Talk, Timed, RTCSection
  <2>2. \A n \in 1 .. 2 : Conv[counter[n]] \in Times
    BY <2>1, Wholes, AppAssumption
  <2> QED
    BY <1>1, <2>2 DEF Time
<1>5. Timed'
  BY <1>1, <1>2, <1>3, <1>4 DEF Talk, Timed, RTCMoved, RTCSection
<1>6. (raced \/ Kept)'
  <2>1. CASE raced
    BY <1>1, <2>1
  <2>2. CASE ~raced
    <3>1. Kept /\ ~Calibrating
      BY <1>2, <1>3, <2>2 DEF Talk, RTCMoved
    <3>2. counter = Whole(set)
      BY <1>2, <3>1 DEF Kept, RTCSection
    <3>3. local' = Whole(Conv[set])
      BY <1>4, <3>2, Wholes
    <3>4. Current' = Current
      BY <1>1 DEF Current
    <3> QED
      BY <1>1, <1>2, <1>3, <3>1, <3>3, <3>4 DEF Kept, RTCMoved, RTCSection
  <2> QED
    BY <2>1, <2>2
<1> QED
  BY <1>3, <1>5, <1>6 DEF RTCMoved, Talk, IInv

\* And stored, a half at a time, where nobody reads it.
LEMMA StoreStep ==
    ASSUME IInv, RTCStore(1, "store1", "store2") \/ RTCStore(2, "store2", "release"), build' = build
    PROVE  IInv'
<1>1. PICK n \in 1 .. 2 : RTCStore(n, IF n = 1 THEN "store1" ELSE "store2",
                                      IF n = 1 THEN "store2" ELSE "release")
  OBVIOUS
<1> DEFINE from == IF n = 1 THEN "store1" ELSE "store2"
           to == IF n = 1 THEN "store2" ELSE "release"
<1>2. /\ Go(RTC, from, to) /\ time_now' = [time_now EXCEPT ![n] = local[n]] /\ os' = os
      /\ local' = (IF n = 2 THEN Whole(Boot) ELSE local)
      /\ UNCHANGED <<LiftStatus, comm, lift, build>>
      /\ UNCHANGED <<counter, reply, record, set, raced, recal>>
  BY <1>1 DEF RTCStore
<1>3. /\ from \in {"store1", "store2"} /\ (from = "store1" <=> n = 1)
      /\ to \in {"store2", "release"} /\ (to = "store2" <=> n = 1)
  OBVIOUS
<1> HIDE DEF from, to
<1>4. Talk /\ pc[RTC] = from
  BY <1>2, RTCFacts
<1>5. RTCMoved(to)
  <2>1. (from \in RTCSection <=> to \in RTCSection) /\ from # "new" /\ to # "new"
    BY <1>3 DEF RTCSection
  <2> QED
    BY <1>2, <2>1, RTCStays
<1>6. time_now \in Time /\ local \in Time
  BY <1>4 DEF Talk, Timed
<1>7. time_now' \in Time /\ time_now'[n] = local[n] /\ (n = 2 => time_now'[1] = time_now[1])
  <2>1. local[n] \in Times
    BY <1>6, Wholes
  <2> QED
    BY <1>2, <1>6, <2>1 DEF Time
<1>8. Timed'
  <2>1. local' \in Time
    BY <1>2, <1>6, Pairs
  <2> QED
    BY <1>2, <1>3, <1>4, <1>5, <1>7, <2>1 DEF Talk, Timed, RTCMoved, RTCSection
<1>9. (raced \/ Kept)'
  <2>1. CASE raced
    BY <1>2, <2>1
  <2>2. CASE ~raced
    <3>1. Kept /\ ~Calibrating
      BY <1>4, <1>5, <2>2 DEF Talk, RTCMoved
    <3>2. local = Whole(Conv[set]) /\ (from = "store2" => time_now[1] = Conv[set])
      BY <1>3, <1>4, <3>1 DEF Kept
    <3>3. time_now'[n] = Conv[set] /\ time_now'[1] = Conv[set]
      BY <1>3, <1>7, <3>2, Wholes
    <3>4. to = "release" => time_now' = Whole(Conv[set])
      <4>1. to = "release" => n = 2
        BY <1>3
      <4> QED
        BY <1>7, <3>3, <4>1, Wholes
    <3>5. to = "release" => time_now' \in Current'
      BY <1>2, <3>4 DEF Current
    <3>6. counter' = Whole(set')
      BY <1>2, <1>3, <1>4, <3>1 DEF Kept, RTCSection
    <3> QED
      BY <1>2, <1>3, <1>4, <1>5, <3>1, <3>3, <3>5, <3>6 DEF Kept, RTCMoved, RTCSection
  <2> QED
    BY <2>1, <2>2
<1> QED
  BY <1>5, <1>8, <1>9 DEF RTCMoved, Talk, IInv

\* Every statement of vTaskRTC; it is never in a pend that sleeps.
LEMMA RTCStep == ASSUME IInv, vTaskRTC, build' = build PROVE IInv'
<1>1. ~Wakes(RTC)
  <2>1. CalmTask(RTC, os.tcb[RTC])
    BY Tasks7 DEF IInv, Steady, Sound, Calm
  <2> QED
    BY <2>1, TasksDiffer DEF CalmTask, Wakes, Returns, InPend
<1> QED
  BY <1>1, RTCCreateStep, CopyStep, RTCSetStep, RTCLockStep, RTCLoadStep, StoreStep,
     RTCUnlockStep DEF vTaskRTC

\* vTaskMSD: all but the times.
MSDMoved(x) ==
    /\ Steady(os') /\ Births' /\ Sleeps' /\ HiddenNeverRun' /\ Flagged' /\ build' \in Builds
    /\ InHand' /\ Talk /\ ~raced /\ Kept /\ time_now = Whole(set) /\ ~Calibrating /\ ~Calibrating'
    /\ pc'[RTC] = pc[RTC] /\ pc'[Comm] = "read" /\ pc[Comm] = "read" /\ pc'[MSD] = x

\* When it runs there is no vTaskRTC, and vTaskComm sleeps.
LEMMA MSDRest ==
    ASSUME IInv, NEW from, NEW to, Go(MSD, from, to), NEW b, Leaves(os', os, MSD, b),
           UNCHANGED <<LiftStatus, comm, lift, build>>
    PROVE  MSDMoved(to) /\ pc[MSD] = from
<1>1. /\ Steady(os) /\ Births /\ Sleeps /\ HiddenNeverRun /\ Flagged /\ Talk /\ build \in Builds
      /\ os.Cur = MSD /\ pc[MSD] = from /\ pc' = [pc EXCEPT ![MSD] = to]
  BY DEF IInv, Go, Runs
<1>2. MSD \in Task \ {Start} /\ MSD \in Task \ {Idle} /\ Goes(MSD, to)
  BY <1>1, Going, Tasks7, TasksDiffer
<1>3. pc'[RTC] = pc[RTC] /\ pc'[Comm] = pc[Comm] /\ pc'[MSD] = to /\ pc'[Lift] = pc[Lift]
  BY <1>2, Tasks7, TasksDiffer DEF Goes
<1>4. pc[Comm] = "read" /\ pc[RTC] = "new"
  BY <1>1, MSDRuns
<1>5. /\ Steady(os') /\ os'.PrioTbl = os.PrioTbl /\ os'.ev = os.ev
      /\ os'.tcb[Comm] = os.tcb[Comm] /\ os'.tcb[Lift] = os.tcb[Lift]
  BY Tasks7, TasksDiffer DEF Leaves
<1>6. Persist /\ Untouched(os', os)
  BY <1>5 DEF Persist, Exists, Untouched, Owner, Reserves
<1>7. Births' /\ HiddenNeverRun'
  BY <1>1, <1>2, <1>6, Elsewhere, StillHidden
<1>8. Sleeps' /\ Flagged'
  <2>1. slept' = slept /\ UNCHANGED <<LiftStatus, lift, i>>
    BY DEF lift, comm
  <2> QED
    BY <1>1, <1>3, <1>5, <1>6, <2>1, SleepsSame, FlaggedSame
<1>9. InHand'
  <2>1. inbox' = inbox /\ cmd' = cmd /\ i' = i
    BY DEF comm
  <2> QED
    BY <1>1, <1>3, <2>1 DEF Talk, InHand
<1>10. ~raced /\ ~Calibrating /\ ~Calibrating'
  BY <1>1, <1>3, <1>4 DEF Talk, Timed, Calibrating
<1>11. Kept /\ time_now = Whole(set)
  BY <1>1, <1>4, <1>10 DEF Talk, Kept
<1> QED
  BY <1>1, <1>3, <1>4, <1>5, <1>7, <1>8, <1>9, <1>10, <1>11 DEF MSDMoved

\* The clock is as it was; the record may not be.
LEMMA MSDClock ==
    ASSUME NEW x, MSDMoved(x), UNCHANGED <<time_now, counter, reply, local, set, raced>>,
           record' \in Time, recal' \in BOOLEAN
    PROVE  Timed' /\ (raced \/ Kept)'
<1>0. /\ time_now' = time_now /\ counter' = counter /\ reply' = reply /\ local' = local
      /\ set' = set /\ raced' = raced
  OBVIOUS
<1>1. Timed'
  BY <1>0 DEF MSDMoved, Talk, Timed
<1>2. Kept'
  <2>1. Current' = Current
    BY <1>0 DEF Current
  <2> QED
    BY <1>0, <2>1 DEF MSDMoved, Kept
<1> QED
  BY <1>1, <1>2

\* The clock is read, a half at a time.
LEMMA MSDReadStep ==
    ASSUME IInv, MSDRead(1, "new", "read2") \/ MSDRead(2, "read2", "sleep"), build' = build
    PROVE  IInv'
<1>1. PICK n \in 1 .. 2 : MSDRead(n, IF n = 1 THEN "new" ELSE "read2",
                                     IF n = 1 THEN "read2" ELSE "sleep")
  OBVIOUS
<1> DEFINE from == IF n = 1 THEN "new" ELSE "read2"
           to == IF n = 1 THEN "read2" ELSE "sleep"
<1>2. /\ Go(MSD, from, to) /\ record' = [record EXCEPT ![n] = time_now[n]] /\ os' = os
      /\ recal' = (IF n = 1 THEN FALSE ELSE recal)
      /\ UNCHANGED <<LiftStatus, comm, lift, build>>
      /\ UNCHANGED <<time_now, counter, reply, local, set, raced>>
  BY <1>1 DEF MSDRead
<1>3. /\ from \in {"new", "read2"} /\ (from = "new" <=> n = 1)
      /\ to \in {"read2", "sleep"} /\ (to = "read2" <=> n = 1)
  OBVIOUS
<1> HIDE DEF from, to
<1>4. MSDMoved(to) /\ pc[MSD] = from
  <2>1. Leaves(os', os, MSD, os.tcb[MSD])
    BY <1>2, SameKernel DEF IInv
  <2> QED
    BY <1>2, <2>1, MSDRest
<1>5. record \in Time /\ recal \in BOOLEAN /\ time_now \in Time /\ time_now = Whole(set)
  BY <1>4 DEF MSDMoved, Talk, Timed
<1>6. record' \in Time /\ record'[n] = set /\ (n = 2 => record'[1] = record[1])
  <2>1. time_now[n] \in Times /\ time_now[n] = set
    BY <1>5, Wholes
  <2> QED
    BY <1>2, <1>5, <2>1 DEF Time
<1>7. Timed' /\ (raced \/ Kept)'
  <2>1. recal' \in BOOLEAN
    BY <1>2, <1>5
  <2> QED
    BY <1>2, <1>4, <1>6, <2>1, MSDClock
<1>8. Logged'
  <2>1. pc'[MSD] = to /\ ~Calibrating'
    BY <1>4 DEF MSDMoved
  <2>2. to = "read2" => record'[1] = set'
    BY <1>2, <1>3, <1>6
  <2>3. to = "sleep" => record'[1] = record'[2] \/ recal'
    <3>1. from = "read2" => record[1] = set \/ recal
      BY <1>4 DEF MSDMoved, Talk, Logged
    <3> QED
      BY <1>2, <1>3, <1>6, <3>1
  <2> QED
    BY <1>3, <2>1, <2>2, <2>3 DEF Logged, RecordWhole
<1> QED
  BY <1>4, <1>7, <1>8 DEF MSDMoved, Talk, IInv

\* And it sleeps.
LEMMA MSDSleepStep == ASSUME IInv, MSDSleep, build' = build PROVE IInv'
<1>1. /\ Go(MSD, "sleep", "new") /\ os' = OSTimeDly(os, MSDDelay)
      /\ record' = Whole(Boot) /\ recal' = FALSE /\ UNCHANGED <<LiftStatus, comm, lift, build>>
      /\ UNCHANGED <<time_now, counter, reply, local, set, raced>>
  BY DEF MSDSleep
<1> DEFINE b == Delayed(os.tcb[MSD], MSDDelay)
<1>2. Leaves(os', os, MSD, b)
  <2>1. os.Cur = MSD /\ os.Cur \notin {Idle, Step, RTC} /\ MSDDelay \in Nat /\ Steady(os)
    BY <1>1, TasksDiffer, AppAssumption DEF Go, Runs, IInv
  <2> QED
    BY <1>1, <2>1, DelaySteady
<1> HIDE DEF b
<1>3. MSDMoved("new")
  BY <1>1, <1>2, MSDRest
<1>4. Timed' /\ (raced \/ Kept)'
  BY <1>1, <1>3, MSDClock, Pairs
<1>5. Logged'
  BY <1>3 DEF MSDMoved, Logged, RecordWhole
<1> QED
  BY <1>3, <1>4, <1>5 DEF MSDMoved, Talk, IInv

-----------------------------------------------------------------------------
(* The rest, and the theorems.                                                *)

\* A frame comes in.
LEMMA ReceiveStep == ASSUME IInv, Receive PROVE IInv'
<1>1. /\ inbox' \in Seq(Frames) /\ os' = os /\ LiftStatus' = LiftStatus /\ build' = build
      /\ pc' = pc /\ cmd' = cmd /\ i' = i /\ lift' = lift /\ clock' = clock
  BY DEF Receive, IInv, Talk, InHand
<1>2. /\ LiftValues' = LiftValues /\ slept' = slept /\ time_now' = time_now /\ counter' = counter
      /\ reply' = reply /\ local' = local /\ record' = record /\ set' = set /\ raced' = raced
      /\ recal' = recal
  BY <1>1 DEF lift, clock
<1>3. Steady(os') /\ Births' /\ Sleeps' /\ HiddenNeverRun' /\ build' \in Builds
  BY <1>1, <1>2 DEF IInv, Births, Sleeps, HiddenNeverRun, Hidden, Made
<1>4. Flagged'
  BY <1>1, <1>2 DEF IInv, Flagged, Blocked
<1>5. InHand'
  BY <1>1 DEF IInv, Talk, InHand
<1>6. (Calibrating' <=> Calibrating) /\ Current' = Current
  BY <1>1, <1>2 DEF Calibrating, Current
<1>7. Timed' /\ (raced \/ Kept)' /\ Logged'
  BY <1>1, <1>2, <1>6 DEF IInv, Talk, Timed, Kept, Logged, RecordWhole
<1> QED
  BY <1>3, <1>4, <1>5, <1>7 DEF Talk, IInv

\* A tick: a delay gets shorter; what a task waits for it does not touch.
LEMMA TickStep == ASSUME IInv, Tick PROVE IInv'
<1>1. os' = OSIntExit(OSTimeTick(OSIntEnter(os))) /\ UNCHANGED <<LiftStatus, build, pc, comm, lift, clock>>
  BY DEF Tick, SysTick, Leave
<1>2. Steady(os) /\ Births /\ Sleeps /\ HiddenNeverRun /\ Flagged /\ Talk
  BY DEF IInv
<1>3. /\ Steady(os') /\ os'.tcb = [t \in Task |-> Ticked(os.tcb[t])]
      /\ os'.PrioTbl = os.PrioTbl /\ os'.ev = os.ev
  BY <1>1, <1>2, TickSteady
<1>4. \A t \in Task : /\ os'.tcb[t].Dly > 0 => os.tcb[t].Dly > 0
                      /\ os'.tcb[t].EventPtr = os.tcb[t].EventPtr
                      /\ os'.tcb[t].Stat = os.tcb[t].Stat
  <2> TAKE t \in Task
  <2>1. os.tcb[t] \in TCB(Vals) /\ (os.tcb[t].Stat # {} => os.tcb[t].Dly = 0)
    BY <1>2 DEF Steady, Sound, KernelState, Calm, CalmTask
  <2> DEFINE b == os.tcb[t]
             r == Ticked(b)
  <2>2. /\ r.EventPtr = b.EventPtr /\ (b.Dly # 1 => r.Stat = b.Stat)
        /\ (b.Dly = 1 => r.Stat = b.Stat \ PendAny) /\ (r.Dly = 0 <=> b.Dly \in {0, 1})
        /\ r.Dly \in Nat /\ b.Dly \in Nat
    BY <2>1, TickedType DEF TCB
  <2>3. os'.tcb[t] = r
    BY <1>3
  <2>4. r.Stat = b.Stat
    <3>1. CASE b.Dly = 1
      <4>1. b.Stat = {}
        BY <2>1, <3>1
      <4> QED
        BY <2>2, <3>1, <4>1
    <3>2. CASE b.Dly # 1
      BY <2>2, <3>2
    <3> QED
      BY <3>1, <3>2
  <2>5. r.Dly > 0 => b.Dly > 0
    BY <2>2
  <2> QED
    BY <2>2, <2>3, <2>4, <2>5
<1>5. /\ slept' = slept /\ pc'[Comm] = pc[Comm] /\ pc'[RTC] = pc[RTC] /\ pc'[Lift] = pc[Lift]
      /\ pc'[MSD] = pc[MSD] /\ UNCHANGED <<LiftStatus, lift, i>> /\ UNCHANGED <<comm, clock>>
  BY <1>1 DEF lift, comm
<1>6. \A u : Exists(os', u) <=> Exists(os, u)
  BY <1>3 DEF Exists
<1>7. Births' /\ HiddenNeverRun'
  <2>1. Births'
    BY <1>1, <1>2, <1>6 DEF Births
  <2>2. HiddenNeverRun'
    BY <1>1, <1>2 DEF HiddenNeverRun, Hidden
  <2> QED
    BY <2>1, <2>2
<1>8. Sleeps'
  <2>1. /\ (os'.tcb[Comm].Dly > 0 => os.tcb[Comm].Dly > 0) /\ (InPend(os', Comm) <=> InPend(os, Comm))
        /\ (os'.tcb[Lift].Dly > 0 => os.tcb[Lift].Dly > 0)
        /\ Owner(os') = Owner(os) /\ (Made' <=> Made)
    BY <1>3, <1>4, Tasks7 DEF InPend, Owner, Made
  <2> QED
    BY <1>2, <1>5, <2>1 DEF Sleeps
<1>9. Flagged' /\ Talk'
  <2>1. os'.tcb[Lift].Stat = os.tcb[Lift].Stat
    BY <1>4, Tasks7
  <2> QED
    BY <1>2, <1>5, <2>1, FlaggedSame, TalkSame
<1>10. build' \in Builds
  BY <1>1 DEF IInv
<1> QED
  BY <1>3, <1>7, <1>8, <1>9, <1>10 DEF IInv

\* Every step.
LEMMA NextKeeps == IInv /\ [Next]_vars => IInv'
<1> SUFFICES ASSUME IInv, [Next]_vars PROVE IInv'
  OBVIOUS
<1>1. CASE Tasks
  <2>1. build' = build
    BY <1>1 DEF Tasks
  <2>2. CASE Task_Start
    BY <2>1, <2>2, StartStatStep, CreatesStep, StartDeleteStep DEF Task_Start
  <2>3. CASE vTaskStepMotor \/ vTaskLIFT \/ vTaskComm \/ vTaskRTC
    BY <2>1, <2>3, StepMotorStep, LiftStep, CommStep, RTCStep
  <2>4. CASE vTaskMSD
    BY <2>1, <2>4, MSDReadStep, MSDSleepStep DEF vTaskMSD
  <2> QED
    BY <1>1, <2>2, <2>3, <2>4 DEF Tasks
<1>2. CASE Receive \/ Tick
  BY <1>2, ReceiveStep, TickStep
<1>3. CASE UNCHANGED vars
  <2>1. /\ os' = os /\ LiftStatus' = LiftStatus /\ build' = build /\ pc' = pc /\ inbox' = inbox
        /\ cmd' = cmd /\ i' = i /\ lift' = lift /\ clock' = clock
    BY <1>3 DEF vars, comm
  <2>2. /\ LiftValues' = LiftValues /\ slept' = slept /\ time_now' = time_now /\ counter' = counter
        /\ reply' = reply /\ local' = local /\ record' = record /\ set' = set /\ raced' = raced
        /\ recal' = recal
    BY <2>1 DEF lift, clock
  <2>3. Steady(os') /\ Births' /\ Sleeps' /\ HiddenNeverRun' /\ build' \in Builds
    BY <2>1, <2>2 DEF IInv, Births, Sleeps, HiddenNeverRun, Hidden, Made
  <2>4. Flagged' /\ Talk'
    <3>1. pc'[Comm] = pc[Comm] /\ pc'[RTC] = pc[RTC] /\ pc'[Lift] = pc[Lift] /\ pc'[MSD] = pc[MSD]
          /\ UNCHANGED <<LiftStatus, lift, i>> /\ UNCHANGED <<comm, clock>>
          /\ os'.tcb[Lift].Stat = os.tcb[Lift].Stat
      BY <2>1 DEF comm
    <3> QED
      BY <3>1, FlaggedSame, TalkSame DEF IInv
  <2> QED
    BY <2>3, <2>4 DEF IInv
<1> QED
  BY <1>1, <1>2, <1>3 DEF Next

\* The invariant.
THEOREM AppInvariant == Spec => []IInv
  BY InitIInv, NextKeeps, PTL DEF Spec

\* Between their pends and their posts vTaskComm and vTaskRTC exclude each other;
\* so the time reported to the host, the counter and the time logged are whole,
\* and the last one set, unless the host set it while vTaskRTC was between its
\* copy of time_now and RTC_SetCounter, for which it takes no mutex (taskRTC.c).
THEOREM AppClockRight == Spec => []ClockRight
<1>1. IInv => ClockRight
  <2> SUFFICES ASSUME IInv PROVE ClockRight
    OBVIOUS
  <2>1. Steady(os) /\ Sleeps /\ Flagged /\ InHand /\ Timed /\ (raced \/ Kept) /\ Logged
    BY DEF IInv, Talk
  <2>2. Owned(os) /\ Owner(os) \in {None, Comm, RTC} /\ os.Cur \in Task
    BY <2>1, Mutex, RunningTask
  <2>3. TypeOK
    BY <2>1, <2>2 DEF TypeOK, Steady, MayPend, Flagged, InHand, Owner
  <2>4. MutualExclusion
    <3>1. Made => ~(Owner(os) = RTC /\ Owner(os) = Comm)
      BY TasksDiffer
    <3>2. InSection(RTC) => pc[RTC] \in RTCSection
      BY <2>1 DEF InSection, Timed, RTCSection
    <3>3. InSection(Comm) => pc[Comm] \in CommSection /\ ~InPend(os, Comm)
      BY <2>1 DEF InSection, InHand, CommSection
    <3> QED
      BY <2>1, <3>1, <3>2, <3>3 DEF MutualExclusion, Sleeps, RTCSection
  <2>5. ReplyCurrent /\ ClockKept
    BY <2>1 DEF ReplyCurrent, ClockKept, Kept, Current
  <2> QED
    BY <2>1, <2>3, <2>4, <2>5 DEF ClockRight, Logged
<1> QED
  BY <1>1, AppInvariant, PTL

\* vTaskLIFT never sleeps in OSFlagPend over a flag: neither one that OSFlagPost
\* set while the task was busy nor one set while it waited (os_flag.c, taskLIFT.c).
THEOREM AppFlagsWakeLift == Spec => []FlagsWakeLift
<1>1. IInv => FlagsWakeLift
  BY DEF IInv, Flagged, FlagsWakeLift, Blocked
<1> QED
  BY <1>1, AppInvariant, PTL

\* A printf of vTaskLIFT comes between two bytes of a reply of vTaskComm only
\* after a delay of an invocation: vTaskLIFT is the more urgent task and both
\* poll USART1 without a lock (usart.c, main.c).
THEOREM AppReplyUnbroken == Spec => ReplyUnbroken
<1>1. IInv /\ [Next]_vars => [LiftPrint /\ i > 0 => slept]_vars
  <2> SUFFICES ASSUME IInv, LiftPrint, i > 0 PROVE slept
    OBVIOUS
  <2>1. os.Cur = Lift
    BY DEF LiftPrint, LiftGo, Go, Runs
  <2> QED
    BY <2>1, LiftRuns
<1> QED
  BY <1>1, AppInvariant, PTL DEF Spec, ReplyUnbroken

\* A build with vTaskStepMotor or vTaskRTC, which never sleep, never gives the
\* processor to a task below it (app.c, where both lines are commented out).
THEOREM AppHiddenNeverRun == Spec => []HiddenNeverRun
<1>1. IInv => HiddenNeverRun
  BY DEF IInv
<1> QED
  BY <1>1, AppInvariant, PTL
================================================================================
