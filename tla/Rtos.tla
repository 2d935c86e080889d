---------------------------------- MODULE Rtos ----------------------------------
(* The kernel as the tasks of the application see it: one variable, the      *)
(* running task's turn, and the interrupt bracket.                           *)
EXTENDS OSCore

VARIABLE os

\* Task t executes its own code, outside any pend.
Runs(t) == os.Cur = t /\ ~InPend(os, t)

\* Task t executes the end of its pend.
Returns(t) == os.Cur = t /\ InPend(os, t)

\* k was reached inside an interrupt handler that is now left.
Leave(k) == os' = OSIntExit(k)

\* SysTick_Handler.
SysTick == Leave(OSTimeTick(OSIntEnter(os)))

\* Some task other than the idle task has something to do.
Busy == os.Cur # Idle
================================================================================
