--------------------------------- MODULE AM2305 ---------------------------------
(* The temperature sensor: vTask2305 and its interrupt. The sensor answers a  *)
(* start pulse with falling edges; the handler counts them and stamps each    *)
(* with TIM3, which it starts at the first; at the last one it posts the      *)
(* semaphore. The task waits AM2305Ticks for it, decodes the stamps if the    *)
(* count is right, clears the count and only then masks the interrupt.        *)
EXTENDS Rtos, OSSem

CONSTANTS
    AM2305Task,
    AM2305Sem,
    AM2305Ticks,    \* ticks given to OSSemPend: 20
    AM2305Delay,    \* ticks between two measurements: 5000
    Edges,          \* edges of one answer: 42
    Noise           \* most edges in a measurement that the sensor did not send

ASSUME AM2305Assumption ==
    /\ AM2305Task \in Task /\ AM2305Sem \in Event
    /\ AM2305Ticks \in Nat \ {0} /\ AM2305Delay \in Nat \ {0}
    /\ Edges \in Nat /\ Edges > 2 /\ Noise \in Nat

VARIABLES
    pcA,                \* the next statement of vTask2305
    EXTI0,              \* EXTI0_ON: the interrupt is not masked
    EXTI_LINE0_FLAG,    \* the edges counted
    THBuff,             \* their stamps: which edge of the answer, or Frozen
    TIM3,               \* the timer runs
    answer,             \* the next edge the sensor will send, 0 when it is done
    \* History, for the properties only.
    reading,            \* what this measurement set Tem_Now and Hum_now from
    ended,              \* how the last pend ended
    noise, carried      \* edges not of the answer: noise, and those counted
                        \* before the interrupt was unmasked

vA == <<pcA, EXTI0, EXTI_LINE0_FLAG, THBuff, TIM3, answer, reading, ended, noise, carried>>

Frozen == 0             \* the timer stood still: every such stamp is the same
Foreign == Edges + 1    \* a stamp of an edge that is not the sensor's
BuffLen == Edges + 2    \* THBuff[44]; slot 0 is not used

\* The task has created its semaphore and sleeps; the interrupt is enabled.
AM2305Init ==
    /\ pcA = "boot" /\ EXTI0 = TRUE /\ EXTI_LINE0_FLAG = 0
    /\ THBuff = [i \in 1 .. BuffLen - 1 |-> Frozen]
    /\ TIM3 = FALSE /\ answer = 0
    /\ reading = "none" /\ ended = "none" /\ noise = 0 /\ carried = 0

-----------------------------------------------------------------------------
(* vTask2305.                                                                 *)

\* EXTI0_OFF after the first delay; the count is left as it is.
AM2305Boot ==
    /\ Runs(AM2305Task) /\ pcA = "boot"
    /\ EXTI0' = FALSE /\ pcA' = "start"
    /\ UNCHANGED <<os, EXTI_LINE0_FLAG, THBuff, TIM3, answer, reading, ended, noise, carried>>

\* The start pulse; the sensor answers, or not. memset clears 44 bytes, eleven
\* of the 44 words of THBuff.
AM2305Start ==
    /\ Runs(AM2305Task) /\ pcA = "start"
    /\ EXTI0' = TRUE
    /\ answer' \in {0, 1}
    /\ noise' = 0 /\ carried' = EXTI_LINE0_FLAG /\ reading' = "none"
    /\ pcA' = "pend"
    /\ UNCHANGED <<os, EXTI_LINE0_FLAG, THBuff, TIM3, ended>>

AM2305Pend ==
    /\ Runs(AM2305Task) /\ pcA = "pend"
    /\ os' = OSSemPend(os, AM2305Sem, AM2305Ticks)
    /\ pcA' = IF os.ev[AM2305Sem].Cnt > 0 THEN "check" ELSE "pended"
    /\ ended' = IF os.ev[AM2305Sem].Cnt > 0 THEN "atOnce" ELSE ended
    /\ UNCHANGED <<EXTI0, EXTI_LINE0_FLAG, THBuff, TIM3, answer, reading, noise, carried>>

AM2305PendReturns ==
    /\ Returns(AM2305Task)
    /\ os' = PendTail(os)
    /\ pcA' = "check"
    /\ ended' = IF os.tcb[AM2305Task].StatPend = "OK" THEN "posted" ELSE "timedOut"
    /\ UNCHANGED <<EXTI0, EXTI_LINE0_FLAG, THBuff, TIM3, answer, reading, noise, carried>>

\* The bits are differences of stamps 2 .. Edges. Stamps of the answer's own
\* edges give its bytes; equal stamps give bytes of 0, whose check sum is 0;
\* of any others the check sum decides.
Stamps == {THBuff[i] : i \in 2 .. Edges}
Decode ==
    CASE \A i \in 2 .. Edges : THBuff[i] = i -> reading' = "sensor"
      [] Stamps = {Frozen} -> reading' = "zero"
      [] OTHER -> reading' \in {reading, "mixed"}

\* Mutant: the pend's result decides, not the count.
AM2305CheckResult ==
    /\ Runs(AM2305Task) /\ pcA = "check"
    /\ IF ended # "timedOut" THEN Decode ELSE UNCHANGED reading
    /\ pcA' = "reset"
    /\ UNCHANGED <<os, EXTI0, EXTI_LINE0_FLAG, THBuff, TIM3, answer, ended, noise, carried>>

\* The pend's result is not looked at: the count is.
AM2305Check ==
    /\ Runs(AM2305Task) /\ pcA = "check"
    /\ IF EXTI_LINE0_FLAG = Edges THEN Decode ELSE UNCHANGED reading
    /\ pcA' = "reset"
    /\ UNCHANGED <<os, EXTI0, EXTI_LINE0_FLAG, THBuff, TIM3, answer, ended, noise, carried>>

\* The old stamps stay in the code; each is written again before it is read,
\* so the model forgets them here.
AM2305Reset ==
    /\ Runs(AM2305Task) /\ pcA = "reset"
    /\ EXTI_LINE0_FLAG' = 0
    /\ THBuff' = [i \in 1 .. BuffLen - 1 |-> Frozen]
    /\ pcA' = "mask"
    /\ UNCHANGED <<os, EXTI0, TIM3, answer, reading, ended, noise, carried>>

AM2305Mask ==
    /\ Runs(AM2305Task) /\ pcA = "mask"
    /\ EXTI0' = FALSE /\ TIM3' = FALSE
    /\ pcA' = "delay"
    /\ UNCHANGED <<os, EXTI_LINE0_FLAG, THBuff, answer, reading, ended, noise, carried>>

AM2305Sleep ==
    /\ Runs(AM2305Task) /\ pcA = "delay"
    /\ os' = OSTimeDly(os, AM2305Delay)
    /\ pcA' = "start"
    /\ UNCHANGED <<EXTI0, EXTI_LINE0_FLAG, THBuff, TIM3, answer, reading, ended, noise, carried>>

AM2305Step == AM2305Boot \/ AM2305Start \/ AM2305Pend \/ AM2305PendReturns
              \/ AM2305Check \/ AM2305Reset \/ AM2305Mask \/ AM2305Sleep

-----------------------------------------------------------------------------
(* The interrupt, at a falling edge.                                          *)

\* Mutant: every edge from the last one on posts.
vtask2305HandleFrom(edge) ==
    LET n    == EXTI_LINE0_FLAG + 1
        runs == TIM3 \/ n = 1
        k    == OSIntEnter(os)
    IN  /\ EXTI_LINE0_FLAG' = n
        /\ THBuff' = IF n < BuffLen
                     THEN [THBuff EXCEPT ![n] = IF runs THEN edge ELSE Frozen] ELSE THBuff
        /\ TIM3' = (runs /\ n # Edges)
        /\ Leave(IF n >= Edges THEN OSSemPost(k, AM2305Sem) ELSE k)

\* vtask2305Handle; edge is the edge of the answer this is, or Foreign. A
\* stamp past the end of THBuff is not modelled but for the count.
vtask2305Handle(edge) ==
    LET n    == EXTI_LINE0_FLAG + 1
        runs == TIM3 \/ n = 1
        k    == OSIntEnter(os)
    IN  /\ EXTI_LINE0_FLAG' = n
        /\ THBuff' = IF n < BuffLen
                     THEN [THBuff EXCEPT ![n] = IF runs THEN edge ELSE Frozen] ELSE THBuff
        /\ TIM3' = (runs /\ n # Edges)
        /\ Leave(IF n = Edges THEN OSSemPost(k, AM2305Sem) ELSE k)

\* Two edges are 80 us apart: at most one falls between the two statements
\* that clear the count and mask the interrupt, and the last does not come
\* before the task, which has nothing else to do, is in its pend.
Spaced == /\ pcA = "mask" => EXTI_LINE0_FLAG = 0
          /\ pcA = "pend" => EXTI_LINE0_FLAG + 1 < Edges

\* The sensor keeps its own time: it may be slow.
SensorEdge ==
    /\ answer > 0
    /\ answer' = IF answer = Edges THEN 0 ELSE answer + 1
    /\ IF EXTI0 THEN Spaced /\ vtask2305Handle(answer)
                ELSE UNCHANGED <<os, EXTI_LINE0_FLAG, THBuff, TIM3>>
    /\ UNCHANGED <<pcA, EXTI0, reading, ended, noise, carried>>

NoiseEdge ==
    /\ EXTI0 /\ Spaced /\ noise < Noise
    /\ noise' = noise + 1
    /\ vtask2305Handle(Foreign)
    /\ UNCHANGED <<pcA, EXTI0, answer, reading, ended, carried>>
================================================================================
