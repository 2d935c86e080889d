---------------------------------- MODULE App ----------------------------------
(* The tasks app.c creates, over the kernel: Task_Start, vTaskStepMotor,      *)
(* vTaskLIFT, vTaskComm, and vTaskRTC and vTaskMSD, whose lines app.c has     *)
(* commented out: build says which of them a build has. Modelled is what the  *)
(* tasks share: the processor, the event flags of the lift, the clock, its    *)
(* mutex, and the transmitter USART1. What they do alone is in PTO, Comm,     *)
(* Lift and Logger.                                                           *)
EXTENDS Rtos, OSFlag, OSMutex, Sequences

CONSTANTS
    Start, Step, Lift, Comm, RTC, MSD,      \* the tasks
    BasePrio,       \* app_cfg.h
    Builds,         \* sets of the optional tasks Step, RTC and MSD
    RTCMutex, TASK_PIP_PRIO,
    CommDelay, MSDDelay, InvokeDelay,   \* ticks: 60, 1000, any
    Flag,           \* flags of LiftStatus: "Invoke", and "Other" for the rest
    Boot, Sent, Times,  \* calendar times: the initial time_now, what the host sends, all
    Conv,           \* what a calendar time written to the clock reads back as
    ReplyLen, MaxInbox      \* bounds: bytes of a reply, frames in the ring

Optional == {Step, RTC, MSD}
Frames == [CMD : {"get"}, data : {None}] \cup [CMD : {"cal"}, data : Sent]
          \cup [CMD : {"lift"}, data : Flag]
ASSUME AppAssumption ==
    /\ Task = {Start, Lift, Comm, Idle} \cup Optional /\ Event = {RTCMutex}
    /\ Idle \notin {Start, Lift, Comm} \cup Optional
    /\ BasePrio \in [Task -> Prios] /\ BasePrio[Idle] = OS_TASK_IDLE_PRIO
    /\ \A t, u \in Task : t # u => BasePrio[t] # BasePrio[u]
    /\ TASK_PIP_PRIO \in Prios /\ \A t \in Task : TASK_PIP_PRIO < BasePrio[t]
    /\ BasePrio[Lift] < BasePrio[Start] /\ BasePrio[Start] < BasePrio[Step]
    /\ BasePrio[Step] < BasePrio[Comm] /\ BasePrio[Comm] < BasePrio[RTC]
    /\ BasePrio[RTC] < BasePrio[MSD]
    /\ Builds \subseteq SUBSET Optional
    /\ Boot \in Times \ Sent /\ Sent \subseteq Times /\ Conv \in [Times -> Times]
    /\ {CommDelay, MSDDelay, InvokeDelay} \subseteq Nat /\ ReplyLen \in Nat \ {0}
    /\ None \notin Frames

VARIABLES
    LiftStatus,
    build, pc,          \* the build, and each task's next statement
    inbox, cmd,         \* frames received and not yet read; the one in hand
    i,                  \* bytes of the reply sent
    LiftValues, slept,  \* the flags in hand; has it slept since it last waited?
    time_now, counter,  \* as two fields each: a copy can be half old
    reply, local, record,   \* what vTaskComm, vTaskRTC and vTaskMSD have read,
                            \* Whole(Boot) when it is used up
    \* History, for the properties only.
    set, raced, recal,  \* the last time set; was it while vTaskRTC was about to
                        \* set its own; was it since the record was begun
    ticked              \* no statement was executed since the last tick

clock == <<time_now, counter, reply, local, record, set, raced, recal>>
comm == <<inbox, cmd, i>>
lift == <<LiftValues, slept>>
vars == <<os, LiftStatus, build, pc, comm, lift, clock, ticked>>

Whole(v) == <<v, v>>

Init ==
    /\ build \in Builds
    /\ os = OSStart([t \in {Start, Idle} |-> BasePrio[t]], [e \in Event |-> OSMutexCreated])
    /\ LiftStatus = OSFlagCreate
    /\ pc = [t \in Task |-> "new"]
    /\ inbox = <<>> /\ cmd = None /\ i = 0
    /\ LiftValues = {} /\ slept = FALSE
    /\ time_now = Whole(Boot) /\ counter = Whole(None)
    /\ reply = Whole(Boot) /\ local = Whole(Boot) /\ record = Whole(Boot)
    /\ set = Boot /\ raced = FALSE /\ recal = FALSE /\ ticked = FALSE

Go(t, from, to) == /\ Runs(t) /\ pc[t] = from
                   /\ pc' = [pc EXCEPT ![t] = to]

-----------------------------------------------------------------------------
(* Task_Start creates the tasks in this order, then deletes itself.           *)

StartStat == Go(Start, "new", "step") /\ os' = OSTimeDly(os, 2)
             /\ UNCHANGED <<LiftStatus, comm, lift, clock>>

Creates(t, from, to) ==
    /\ Go(Start, from, to)
    /\ os' = IF t \in build \cup {Lift, Comm} THEN OSTaskCreate(os, t, BasePrio[t]) ELSE os
    /\ UNCHANGED <<LiftStatus, comm, lift, clock>>

StartDelete == Go(Start, "delete", "deleted") /\ os' = OSTaskDelSelf(os)
               /\ UNCHANGED <<LiftStatus, comm, lift, clock>>

Task_Start == StartStat \/ Creates(Step, "step", "lift") \/ Creates(Lift, "lift", "comm")
              \/ Creates(Comm, "comm", "rtc") \/ Creates(RTC, "rtc", "msd")
              \/ Creates(MSD, "msd", "delete") \/ StartDelete

\* The empty loop.
vTaskStepMotor == Go(Step, "new", "loop") /\ UNCHANGED <<os, LiftStatus, comm, lift, clock>>

-----------------------------------------------------------------------------
(* vTaskLIFT.                                                                 *)

LiftCreate == Go(Lift, "new", "pend") /\ LiftStatus' = OSFlagCreate
              /\ UNCHANGED <<os, comm, lift, clock>>

Takes(r, to) ==
    /\ os' = r.os /\ LiftStatus' = r.grp /\ slept' = (slept /\ to = "switch")
    /\ LiftValues' = IF to = "switch" THEN r.grp.Rdy[Lift] ELSE {}
    /\ UNCHANGED <<comm, clock>>

\* Mutant: the task blocks even when a flag is set.
LiftPendBlind == Go(Lift, "pend", "pended")
                 /\ Takes(OS_FlagBlock(os, LiftStatus, Flag, 0), "pended")

LiftPend == LET to == IF LiftStatus.Flags = {} THEN "pended" ELSE "switch"
            IN  Go(Lift, "pend", to) /\ Takes(OSFlagPend(os, LiftStatus, Flag, 0), to)

LiftPended == Go(Lift, "pended", "switch") /\ Takes(OSFlagPendTail(os, LiftStatus), "switch")

\* A printf on USART1, a message on UART4, or the end of a case; what the task
\* keeps of the flags is in Lift.
LiftGo(from, to) ==
    /\ Go(Lift, from, to)
    /\ LiftValues' = IF to = "pend" THEN {} ELSE LiftValues
    /\ UNCHANGED <<os, LiftStatus, comm, slept, clock>>

\* Mutant: after each byte the task sleeps, as UART4_Sendbyte once did.
LiftMessageSleeps(from, to) == Go(Lift, from, to) /\ os' = OSTimeDly(os, 1)
                               /\ UNCHANGED <<LiftStatus, comm, lift, clock>>

LiftMessage(from, to) == LiftGo(from, to)

\* The switch: an Invoke prints, may have to travel, and prints again; of the
\* others Stop sends a message and prints, some send a message, some print and
\* some do neither; a combination does nothing.
LiftSwitch ==
    \E to \in CASE LiftValues = {"Invoke"} -> {"invoke"}
                [] LiftValues = {"Other"} -> {"stop", "move", "print", "pend"}
                [] OTHER -> {"pend"} :
        LiftGo("switch", to)

LiftDelay ==
    /\ Go(Lift, "delay", "arrive")
    /\ os' = OSTimeDly(os, InvokeDelay) /\ slept' = TRUE
    /\ UNCHANGED <<LiftStatus, comm, LiftValues, clock>>

LiftPrint == LiftGo("print", "pend") \/ LiftGo("invoke", "depart") \/ LiftGo("report", "print")

vTaskLIFT ==
    \/ LiftCreate \/ LiftPend \/ LiftPended \/ LiftSwitch \/ LiftPrint \/ LiftDelay
    \/ LiftMessage("move", "pend") \/ LiftMessage("stop", "print")
    \/ LiftMessage("depart", "delay") \/ LiftMessage("arrive", "report")
    \/ LiftGo("depart", "arrive")       \* already there

-----------------------------------------------------------------------------
(* vTaskComm: a frame at a time.                                              *)

Handler(f) == CASE f.CMD = "get" -> "getPend"
                [] f.CMD = "cal" -> "calPend" [] f.CMD = "lift" -> "post"

CommRead ==
    /\ inbox # <<>>
    /\ Go(Comm, "read", Handler(Head(inbox))) /\ cmd' = Head(inbox) /\ inbox' = Tail(inbox)
    /\ UNCHANGED <<os, LiftStatus, i, lift, clock>>

\* Mutant: the loop does not sleep when the ring is empty.
CommSleepNot ==
    /\ inbox = <<>>
    /\ Go(Comm, "read", "read")
    /\ UNCHANGED <<os, LiftStatus, comm, lift, clock>>

CommSleep ==
    /\ inbox = <<>>
    /\ Go(Comm, "read", "read") /\ os' = OSTimeDly(os, CommDelay)
    /\ UNCHANGED <<LiftStatus, comm, lift, clock>>

CommBegin == Go(Comm, "new", "read") /\ UNCHANGED <<os, LiftStatus, comm, lift, clock>>

\* RTCMutex is null until vTaskRTC has created it: the kernel finds no mutex at
\* address 0 and returns an error nobody looks at.
Made == os.PrioTbl[TASK_PIP_PRIO] # None
Locked == IF Made THEN OSMutexPend(os, RTCMutex, TASK_PIP_PRIO, 0) ELSE os
Unlocked == IF Made THEN OSMutexPost(os, RTCMutex, TASK_PIP_PRIO) ELSE os

Locks(t, from, to) == Go(t, from, to) /\ os' = Locked
                      /\ UNCHANGED <<LiftStatus, comm, lift, clock>>
Unlocks(t, from, to) == Go(t, from, to) /\ os' = Unlocked
                        /\ UNCHANGED <<LiftStatus, comm, lift, clock>>

\* The end of a pend that slept; the next statement is set already.
Wakes(t) == Returns(t) /\ os' = PendTail(os)
            /\ UNCHANGED <<LiftStatus, pc, comm, lift, clock>>

\* prvTimeGet
CommGet(n, from, to) ==
    /\ Go(Comm, from, to)
    /\ reply' = [reply EXCEPT ![n] = time_now[n]]
    /\ UNCHANGED <<os, LiftStatus, comm, lift, time_now, counter, local, record, set, raced, recal>>

\* prvTimeCalibration
CommCal(n, from, to) ==
    /\ Go(Comm, from, to)
    /\ time_now' = [time_now EXCEPT ![n] = cmd.data]
    /\ recal' = (pc[MSD] # "new")
    /\ UNCHANGED <<os, LiftStatus, comm, lift, counter, reply, local, record, set, raced>>

CommSet ==
    /\ Go(Comm, "calSet", "calPost")
    /\ counter' = time_now /\ set' = cmd.data
    /\ raced' = (pc[RTC] \in {"copy2", "set"})
    /\ UNCHANGED <<os, LiftStatus, comm, lift, time_now, reply, local, record, recal>>

\* prvLift
CommPost ==
    /\ Go(Comm, "post", "read")
    /\ LET r == OSFlagPost(os, LiftStatus, {cmd.data}) IN os' = r.os /\ LiftStatus' = r.grp
    /\ cmd' = None
    /\ UNCHANGED <<inbox, i, lift, clock>>

\* UART1_Sendarray
UART1_Sendbyte ==
    /\ Go(Comm, "send", IF i = ReplyLen - 1 THEN "read" ELSE "send")
    /\ i' = (i + 1) % ReplyLen /\ cmd' = IF i = ReplyLen - 1 THEN None ELSE cmd
    /\ reply' = IF i = ReplyLen - 1 THEN Whole(Boot) ELSE reply    \* prvSendBuFlush
    /\ UNCHANGED <<os, LiftStatus, inbox, lift, time_now, counter, local, record, set, raced, recal>>

vTaskComm ==
    \/ CommBegin \/ CommRead \/ CommSleep \/ Wakes(Comm) \/ UART1_Sendbyte \/ CommPost
    \/ Locks(Comm, "getPend", "get1") \/ CommGet(1, "get1", "get2") \/ CommGet(2, "get2", "getPost")
    \/ Unlocks(Comm, "getPost", "send")
    \/ Locks(Comm, "calPend", "cal1") \/ CommCal(1, "cal1", "cal2") \/ CommCal(2, "cal2", "calSet")
    \/ CommSet \/ Unlocks(Comm, "calPost", "send")

-----------------------------------------------------------------------------
(* vTaskRTC.                                                                  *)

RTCCreate == Go(RTC, "new", "copy1") /\ os' = OSMutexCreate(os, RTCMutex, TASK_PIP_PRIO)
             /\ UNCHANGED <<LiftStatus, comm, lift, clock>>

\* time_now is passed by value, without the mutex.
RTCCopy(n, from, to) ==
    /\ Go(RTC, from, to)
    /\ local' = [local EXCEPT ![n] = time_now[n]]
    /\ UNCHANGED <<os, LiftStatus, comm, lift, time_now, counter, reply, record, set, raced, recal>>

RTCSet ==
    /\ Go(RTC, "set", "pend")
    /\ counter' = local /\ local' = Whole(Boot)
    /\ UNCHANGED <<os, LiftStatus, comm, lift, time_now, reply, record, set, raced, recal>>

\* Mutant: the mutex is not taken.
RTCLockNot(from, to) == Go(RTC, from, to) /\ UNCHANGED <<os, LiftStatus, comm, lift, clock>>
RTCLock(from, to) == Locks(RTC, from, to)

\* xRTCTimeConvUnixToCalendar of the counter, and the assignment to time_now.
RTCLoad ==
    /\ Go(RTC, "load", "store1")
    /\ local' = [n \in 1 .. 2 |-> Conv[counter[n]]]
    /\ UNCHANGED <<os, LiftStatus, comm, lift, time_now, counter, reply, record, set, raced, recal>>

RTCStore(n, from, to) ==
    /\ Go(RTC, from, to)
    /\ time_now' = [time_now EXCEPT ![n] = local[n]]
    /\ local' = IF n = 2 THEN Whole(Boot) ELSE local
    /\ UNCHANGED <<os, LiftStatus, comm, lift, counter, reply, record, set, raced, recal>>

vTaskRTC ==
    \/ RTCCreate \/ RTCCopy(1, "copy1", "copy2") \/ RTCCopy(2, "copy2", "set") \/ RTCSet
    \/ RTCLock("pend", "load") \/ Wakes(RTC)
    \/ RTCLoad \/ RTCStore(1, "store1", "store2") \/ RTCStore(2, "store2", "release")
    \/ Unlocks(RTC, "release", "pend")

-----------------------------------------------------------------------------
(* vTaskMSD, as far as it reads the clock: field by field, without the mutex. *)

MSDRead(n, from, to) ==
    /\ Go(MSD, from, to)
    /\ record' = [record EXCEPT ![n] = time_now[n]]
    /\ recal' = IF n = 1 THEN FALSE ELSE recal
    /\ UNCHANGED <<os, LiftStatus, comm, lift, time_now, counter, reply, local, set, raced>>

MSDSleep == Go(MSD, "sleep", "new") /\ os' = OSTimeDly(os, MSDDelay)
            /\ record' = Whole(Boot) /\ recal' = FALSE
            /\ UNCHANGED <<LiftStatus, comm, lift, time_now, counter, reply, local, set, raced>>

vTaskMSD == MSDRead(1, "new", "read2") \/ MSDRead(2, "read2", "sleep") \/ MSDSleep

-----------------------------------------------------------------------------
Tasks == /\ Task_Start \/ vTaskStepMotor \/ vTaskLIFT \/ vTaskComm \/ vTaskRTC \/ vTaskMSD
         /\ ticked' = FALSE /\ UNCHANGED build

\* A frame has been received whole.
Receive ==
    /\ Len(inbox) < MaxInbox
    /\ \E f \in Frames : inbox' = Append(inbox, f)
    /\ UNCHANGED <<os, LiftStatus, build, pc, cmd, i, lift, clock, ticked>>

\* A statement takes less than two ticks; an empty loop has none.
Tick ==
    /\ os.Cur \in {Idle, Step} \/ ~ticked
    /\ SysTick /\ ticked' = TRUE
    /\ UNCHANGED <<LiftStatus, build, pc, comm, lift, clock>>

Next == Tasks \/ Receive \/ Tick

\* The processor executes the running task, and time goes on. Nothing makes
\* the host send.
Spec == Init /\ [][Next]_vars
FairSpec == Spec /\ WF_vars(Tasks) /\ WF_vars(Tick)

-----------------------------------------------------------------------------
(* Properties.                                                                *)

InSection(t) == ~InPend(os, t)
                /\ pc[t] \in {"get1", "get2", "getPost", "cal1", "cal2", "calSet", "calPost",
                              "load", "store1", "store2", "release"}

TypeOK ==
    /\ os.Cur \in Task /\ os.IntNesting = 0 /\ os.LockNesting = 0
    /\ LiftStatus.Flags \subseteq Flag /\ LiftValues \subseteq Flag
    /\ LiftValues # {} <=> pc[Lift] \notin {"new", "pend", "pended"}
    /\ i \in 0 .. ReplyLen - 1 /\ (i > 0 => pc[Comm] = "send")
    /\ cmd = None <=> pc[Comm] \in {"new", "read"}
    /\ os.ev[RTCMutex].Ptr \in {None, Comm, RTC}

\* vTaskComm and vTaskRTC never are both between their pend and their post,
\* although vTaskComm may go through a mutex that is not there yet.
MutualExclusion == ~(InSection(Comm) /\ InSection(RTC))

\* A time that is reported is the last one set, or what the clock makes of it,
\* and never half of one and half of another: unless the host set it while
\* vTaskRTC was on its way to set its own.
ReplyCurrent ==
    pc[Comm] = "send" /\ cmd.CMD = "get" =>
        reply \in {Whole(set), Whole(Conv[set])} \/ raced

\* So the clock runs from the time that was confirmed to the host.
ClockKept == set # Boot => counter = Whole(set) \/ raced

\* The fields of a logged time belong together unless it was set meanwhile.
RecordWhole == pc[MSD] = "sleep" => record[1] = record[2] \/ recal

\* What vTaskLIFT prints falls between the bytes of a reply only if the task
\* slept through an invocation since it last waited for a flag: one that waits
\* is not made to print there.
ReplyUnbroken == [][LiftPrint /\ i > 0 => slept]_vars

\* A task less urgent than one that never sleeps never runs.
Hidden(t) == \E b \in build \cap {Step, RTC} : BasePrio[b] < BasePrio[t]
HiddenNeverRun == \A t \in Task \ {Idle} : Hidden(t) => pc[t] = "new"

\* Every other task comes round for ever: vTaskComm, and down to the least
\* urgent of them once the host is silent.
Low == IF MSD \in build /\ ~Hidden(MSD) THEN MSD ELSE IF RTC \in build THEN RTC ELSE Comm
OthersGoOn ==
    ~Hidden(Comm) => /\ []<>(Runs(Comm) /\ pc[Comm] = "read")
                     /\ <>[](inbox = <<>>) =>
                            []<>(Runs(Low) /\ pc[Low] \in {"read", "pend", "sleep"})

\* vTaskLIFT does not sleep over a flag that is set: neither one posted while it
\* was busy, nor one posted between its test and its sleep.
FlagsWakeLift == LiftStatus.Flags # {} => "FLAG" \notin os.tcb[Lift].Stat

\* The clock is read, set and logged whole, by tasks that lock it out of one
\* another's way once vTaskRTC has made the mutex.
ClockRight == TypeOK /\ MutualExclusion /\ ReplyCurrent /\ ClockKept /\ RecordWhole

\* Which tasks run: all those, and only those, above which every task sleeps.
TasksGoOn == []HiddenNeverRun /\ OthersGoOn
================================================================================
