---------------------------------- MODULE SR04 ----------------------------------
(* The ultrasonic range finder: vTaskSR04, its interrupt, and the sensor.     *)
(* The task triggers the sensor; the sensor answers with an echo pulse whose  *)
(* two edges interrupt; the handler times the pulse with TIM2 and posts a     *)
(* pointer to the one variable that holds the result. The task waits for it   *)
(* SR04Ticks, and triggers again after SR04Delay.                             *)
(*                                                                            *)
(* While it waits the task keeps the temperature task suspended.             *)
EXTENDS Rtos, OSMbox

CONSTANTS
    SR04Task,
    SR04CommMbox,
    TASK_AM2305_PRIO,
    SR04Ticks,      \* ticks given to OSMboxPend: 5
    SR04Delay,      \* ticks between two measurements: 50
    Echoes,         \* lengths of an echo in ticks; the sensor's own limit is 38
    TickPulse,      \* counts of TIM2 in a tick: 1000
    PP              \* the pointer posted: always to the same variable

ASSUME SR04Assumption ==
    /\ SR04Task \in Task /\ SR04CommMbox \in Event /\ TASK_AM2305_PRIO \in Prios
    /\ SR04Ticks \in Nat \ {0} /\ SR04Delay \in Nat \ {0} /\ TickPulse \in Nat \ {0}
    /\ Echoes \subseteq 0 .. SR04Delay - 1
    /\ ((SR04Ticks + 2) * TickPulse * 340) \div 20000 < 256    \* 119 in the code
    /\ PP # None

VARIABLES
    pcS,                \* the next statement of vTaskSR04
    EXTI_LINE7_FLAG,    \* edges of the echo still to come
    pulse,              \* *pp: the length last measured, and of which trigger it is
    TIM2,               \* ticks counted, or None when the timer is stopped
    sonar, echo,        \* the sensor: quiet, armed, or high for echo ticks more
    fSR04Distance,
    \* History, for the properties only.
    age,                \* triggers since the one fSR04Distance belongs to (0, 1 or 2)
    queued              \* a message was in the mailbox at the last trigger

vS == <<pcS, EXTI_LINE7_FLAG, pulse, TIM2, sonar, echo, fSR04Distance, age, queued>>

NoPulse == [ticks |-> 0, age |-> 2]

SR04Init ==
    /\ pcS = "suspend" /\ EXTI_LINE7_FLAG = 0
    /\ pulse = NoPulse /\ TIM2 = None /\ sonar = "quiet" /\ echo = 0
    /\ fSR04Distance = 0 /\ age = 2 /\ queued = FALSE

\* Centimetres of a pulse, cut to the byte fSR04Distance is.
Centimetres(ticks) == (ticks * TickPulse * 340) \div 20000

Distance(ticks) == Centimetres(ticks) % 256

Older(n) == IF n < 2 THEN n + 1 ELSE n

-----------------------------------------------------------------------------
(* vTaskSR04.                                                                 *)

SR04Suspend ==
    /\ Runs(SR04Task) /\ pcS = "suspend"
    /\ os' = OSTaskSuspend(os, TASK_AM2305_PRIO)
    /\ pcS' = "trigger"
    /\ UNCHANGED <<EXTI_LINE7_FLAG, pulse, TIM2, sonar, echo, fSR04Distance, age, queued>>

\* The flag is set while the trigger line is high; the sensor starts at its
\* falling edge. It may not answer at all.
SR04Trigger ==
    /\ Runs(SR04Task) /\ pcS = "trigger"
    /\ EXTI_LINE7_FLAG' = 2
    /\ sonar' \in {"armed", "quiet"} /\ echo' = 0
    /\ pulse' = [pulse EXCEPT !.age = Older(@)] /\ age' = Older(age)
    /\ queued' = (os.ev[SR04CommMbox].Ptr # None)
    /\ pcS' = "pend"
    /\ UNCHANGED <<os, TIM2, fSR04Distance>>

SR04Pend ==
    /\ Runs(SR04Task) /\ pcS = "pend"
    /\ os' = OSMboxPend(os, SR04CommMbox, SR04Ticks)
    /\ pcS' = IF os.ev[SR04CommMbox].Ptr # None THEN "resumeOk" ELSE "pended"
    /\ UNCHANGED <<EXTI_LINE7_FLAG, pulse, TIM2, sonar, echo, fSR04Distance, age, queued>>

\* Mutant: the error code is not looked at.
SR04PendReturnsOk ==
    /\ Returns(SR04Task)
    /\ os' = PendTail(os)
    /\ pcS' = "resumeOk"
    /\ UNCHANGED <<EXTI_LINE7_FLAG, pulse, TIM2, sonar, echo, fSR04Distance, age, queued>>

SR04PendReturns ==
    /\ Returns(SR04Task)
    /\ os' = PendTail(os)
    /\ pcS' = IF os.tcb[SR04Task].StatPend = "OK" THEN "resumeOk" ELSE "resumeErr"
    /\ UNCHANGED <<EXTI_LINE7_FLAG, pulse, TIM2, sonar, echo, fSR04Distance, age, queued>>

\* Mutant: the temperature task is resumed only after a measurement.
SR04ResumeOk ==
    /\ Runs(SR04Task) /\ pcS \in {"resumeOk", "resumeErr"}
    /\ os' = IF pcS = "resumeOk" THEN OSTaskResume(os, TASK_AM2305_PRIO) ELSE os
    /\ pcS' = IF pcS = "resumeOk" THEN "read" ELSE "delay"
    /\ UNCHANGED <<EXTI_LINE7_FLAG, pulse, TIM2, sonar, echo, fSR04Distance, age, queued>>

\* The temperature task may run before the next statement does.
SR04Resume ==
    /\ Runs(SR04Task) /\ pcS \in {"resumeOk", "resumeErr"}
    /\ os' = OSTaskResume(os, TASK_AM2305_PRIO)
    /\ pcS' = IF pcS = "resumeOk" THEN "read" ELSE "delay"
    /\ UNCHANGED <<EXTI_LINE7_FLAG, pulse, TIM2, sonar, echo, fSR04Distance, age, queued>>

\* The pulse is read through the pointer, now.
SR04Read ==
    /\ Runs(SR04Task) /\ pcS = "read"
    /\ fSR04Distance' = Distance(pulse.ticks) /\ age' = pulse.age
    /\ pcS' = "delay"
    /\ UNCHANGED <<os, EXTI_LINE7_FLAG, pulse, TIM2, sonar, echo, queued>>

SR04Sleep ==
    /\ Runs(SR04Task) /\ pcS = "delay"
    /\ os' = OSTimeDly(os, SR04Delay)
    /\ pcS' = "suspend"
    /\ UNCHANGED <<EXTI_LINE7_FLAG, pulse, TIM2, sonar, echo, fSR04Distance, age, queued>>

SR04Step == SR04Suspend \/ SR04Trigger \/ SR04Pend \/ SR04PendReturns \/ SR04Resume
            \/ SR04Read \/ SR04Sleep

-----------------------------------------------------------------------------
(* The interrupt, at both edges of the echo.                                  *)

\* vtaskSR04Handle on kernel state k, entered from the handler.
vtaskSR04Handle(k) ==
    CASE EXTI_LINE7_FLAG = 2 ->
            /\ TIM2' = 0 /\ EXTI_LINE7_FLAG' = 1
            /\ Leave(k) /\ UNCHANGED pulse
      [] EXTI_LINE7_FLAG = 1 ->
            /\ pulse' = [ticks |-> TIM2, age |-> 0]
            /\ TIM2' = None /\ EXTI_LINE7_FLAG' = 0
            /\ Leave(OSMboxPost(k, SR04CommMbox, PP))
      [] OTHER -> Leave(k) /\ UNCHANGED <<pulse, TIM2, EXTI_LINE7_FLAG>>

EchoRises ==
    /\ sonar = "armed"
    /\ vtaskSR04Handle(OSIntEnter(os))
    /\ sonar' = "high" /\ echo' \in Echoes
    /\ UNCHANGED <<pcS, fSR04Distance, age, queued>>

EchoFalls ==
    /\ sonar = "high" /\ echo = 0
    /\ vtaskSR04Handle(OSIntEnter(os))
    /\ sonar' = "quiet" /\ UNCHANGED echo
    /\ UNCHANGED <<pcS, fSR04Distance, age, queued>>

\* Time passes for the timer and the sensor; an edge that is due comes first.
SR04Time ==
    /\ sonar = "quiet" \/ (sonar = "high" /\ echo > 0)
    /\ echo' = IF echo > 0 THEN echo - 1 ELSE 0
    /\ TIM2' = IF TIM2 = None THEN None ELSE TIM2 + 1
    /\ UNCHANGED <<pcS, EXTI_LINE7_FLAG, pulse, sonar, fSR04Distance, age, queued>>
================================================================================
