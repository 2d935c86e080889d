--------------------------------- MODULE Sensors ---------------------------------
(* The two sensor tasks together over the kernel: vTaskSR04 suspends          *)
(* vTask2305, which is the more urgent one, while it measures.                *)
EXTENDS SR04, AM2305

CONSTANTS TASK_SR04_PRIO

ASSUME SensorsAssumption ==
    /\ Task = {SR04Task, AM2305Task, Idle} /\ SR04Task # Idle /\ AM2305Task \notin {SR04Task, Idle}
    /\ Event = {SR04CommMbox, AM2305Sem} /\ SR04CommMbox # AM2305Sem
    /\ TASK_SR04_PRIO \in Prios
    /\ TASK_AM2305_PRIO < TASK_SR04_PRIO /\ TASK_SR04_PRIO < OS_TASK_IDLE_PRIO

VARIABLE ticked     \* no statement was executed since the last tick

vars == <<os, vS, vA, ticked>>

Prio == [t \in Task |-> IF t = SR04Task THEN TASK_SR04_PRIO
                        ELSE IF t = AM2305Task THEN TASK_AM2305_PRIO ELSE OS_TASK_IDLE_PRIO]

Created == [e \in Event |-> IF e = SR04CommMbox THEN OSMboxCreate(None) ELSE OSSemCreate(0)]

\* Both tasks have run up to their first delay or statement: vTask2305 sleeps.
Init ==
    /\ os = OSTimeDly(OSStart(Prio, Created), AM2305Delay)
    /\ SR04Init /\ AM2305Init /\ ticked = FALSE

Tasks == /\ (SR04Step /\ UNCHANGED vA) \/ (AM2305Step /\ UNCHANGED vS)
         /\ ticked' = FALSE
Echo == (EchoRises \/ EchoFalls) /\ UNCHANGED <<vA, ticked>>
Answer == (SensorEdge \/ NoiseEdge) /\ UNCHANGED <<vS, ticked>>

\* A statement takes less than two ticks (vTask2305 waits a millisecond for the
\* sensor, and prints): between two ticks a running task executes one.
Tick ==
    /\ Busy => ~ticked
    /\ SysTick /\ SR04Time /\ ticked' = TRUE /\ UNCHANGED vA

Next == Tasks \/ Echo \/ Answer \/ Tick

\* The processor never stops executing the running task, time never stops,
\* and the echo's edges come when they are due.
Fairness == WF_vars(Tasks) /\ WF_vars(Tick) /\ WF_vars(Echo)

Spec == Init /\ [][Next]_vars
FairSpec == Spec /\ Fairness

-----------------------------------------------------------------------------
(* Properties.                                                                *)

TypeOK ==
    /\ os.Cur \in Task /\ os.IntNesting = 0 /\ os.LockNesting = 0
    /\ os.ev[AM2305Sem].Cnt \in 0 .. SemMax /\ os.ev[SR04CommMbox].Ptr \in {None, PP}
    /\ EXTI_LINE7_FLAG \in 0 .. 2 /\ fSR04Distance \in 0 .. 255
    /\ sonar \in {"quiet", "armed", "high"} /\ (TIM2 = None \/ TIM2 \in Nat)
    /\ EXTI_LINE0_FLAG \in Nat /\ answer \in 0 .. Edges
    /\ DOMAIN THBuff = 1 .. BuffLen - 1

\* The distance is never older than one trigger. Unless a message was already
\* queued when the trigger was made, it is that of this trigger, and the byte
\* holds it whole: the time-out keeps out the echoes it could not.
DistanceFresh ==
    [][SR04Read => /\ age' <= 1
                   /\ ~queued => age' = 0 /\ fSR04Distance' = Centimetres(pulse.ticks)]_vars

\* The temperature task is held exactly while the range finder measures, and
\* its own answer, however late, never finds a second count in the semaphore.
HeldWhileMeasuring ==
    "SUSPEND" \in os.tcb[AM2305Task].Stat <=>
        pcS \in {"trigger", "pend", "pended", "resumeOk", "resumeErr"}
OneCount ==
    /\ os.ev[AM2305Sem].Cnt <= 1
    /\ os.ev[AM2305Sem].Cnt = 1 /\ pcA \in {"start", "pend"} => ended # "posted"

\* What is reported is what the sensor sent, unless an edge was counted that
\* belongs to no answer, or to the one before: then it may be all zeros.
ReadingIsSensors ==
    [][AM2305Check => reading' \in {"none", "sensor"} \/ carried > 0 \/ noise > 0]_vars

\* A stamp past the end of THBuff takes an edge the sensor did not send, in the
\* measurement or, since the interrupt is enabled while the task sleeps first of
\* all, before it: later no more than one edge is counted before a measurement.
StampsFit == EXTI_LINE0_FLAG >= BuffLen => noise > 0 \/ carried > 1

\* Neither task stops the other for ever.
BothGoOn == /\ []<>(pcS = "trigger")
            /\ []<>(pcA = "start")

\* Neither the other task nor the sensor, nor an edge of an answer that comes late,
\* spoils a measurement or the memory after THBuff.
Undisturbed == TypeOK /\ HeldWhileMeasuring /\ OneCount /\ StampsFit
================================================================================
