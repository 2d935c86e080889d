---------------------------------- MODULE PTO ----------------------------------
(***************************************************************************)
(* The stepper-motor pulse generator of src/BSP/PTO/pto.c.                 *)
(*                                                                         *)
(* A task calls PTO_HZ_NUM (move to an absolute position) or PTO_Home (run *)
(* in reverse until a limit switch fires).  Timer TIM1 then emits one      *)
(* pulse per period; the interrupt of each pulse counts the position and   *)
(* walks a ramp: accelerate, cruise, decelerate, stop.  The limit-switch   *)
(* interrupts EXTI1 and EXTI4 have a higher priority than TIM1 and may     *)
(* preempt both the task and the TIM1 interrupt.                           *)
(*                                                                         *)
(* Abstractions.  A frequency is its level Freq / ACC_HZ_MIN, and a timer  *)
(* period is the level whose period it is (0 when the motor is stopped).   *)
(* PTO_Home takes any frequency; only a period of its own matters, so that *)
(* one below the first level stands for the first.  The statements of one  *)
(* case of the TIM1 interrupt are one step.  The update flag of TIM1 is    *)
(* set exactly while isr # "none", and an interrupt is served before the   *)
(* next period ends (ten microseconds is the shortest period unit).  EXTI2 *)
(* changes no state and has no action.                                     *)
(***************************************************************************)
EXTENDS Integers

CONSTANTS
    Half,               \* 2^31: u32 values are 0 .. 2*Half-1, s32 -Half .. Half-1
    Byte,               \* 256: the number of values of a u8
    TableLen,           \* 50: the length of the step tables
    PulseNum_Buf,       \* pulses emitted at each level of the ramp
    PulseNum_Sum_Buf,   \* partial sums of PulseNum_Buf
    Garbage,            \* what a read outside the tables may return
    Positions,          \* the Pulse_Num arguments of the callers
    Levels,             \* the Freq arguments of the callers, as levels: those
                        \* beyond TableLen, which nothing checks, included
    CallWhileMoving,    \* may the task call while the timer runs?
    MaxCalls,           \* bound: calls of the task in a behaviour
    MaxLimits,          \* bound: limit interrupts in a behaviour
    Limits              \* limit interrupts: "off", "atomic" with respect to
                        \* the TIM1 interrupt, or "nested" inside it

DISABLE == 0
ENABLE == 1
U32 == 0 .. 2 * Half - 1
Steps == 0 .. TableLen - 1

ASSUME SizesAssumption ==
    /\ Half \in Nat \ {0}
    /\ Byte \in Nat
    /\ TableLen \in Nat \ {0}
    /\ TableLen < Byte
    /\ Garbage \subseteq U32 /\ Garbage # {}
    /\ Positions \subseteq U32
    /\ Levels \subseteq Nat
    /\ CallWhileMoving \in BOOLEAN
    /\ MaxCalls \in Nat /\ MaxLimits \in Nat
    /\ Limits \in {"off", "atomic", "nested"}

(* What vPTOConfig computes: pulses of each level, and their partial sums. *)
(* PTOTable.tla has its loops, and PTO_proofs.tla the proof that they do.  *)
RampTables(pulses, sums) ==
    /\ pulses \in [Steps -> 2 .. Half - 1]
    /\ sums \in [Steps -> Nat]
    /\ sums[0] = pulses[0]
    /\ \A n \in Steps \ {0} : sums[n] = sums[n - 1] + pulses[n]
    /\ \A m, n \in Steps : m <= n => sums[m] <= sums[n]

ASSUME TableAssumption == RampTables(PulseNum_Buf, PulseNum_Sum_Buf)

VARIABLES
    MotorActionState, MotorDir, PinE0, HomeFlag,
    ACC_Status_Flag, DEC_Status_Flag, MotorCycleTarget, MotorCycleReal,
    PulseNum_Global, PulseNum_TEMP, PulseNum_ConstantVel,
    tempflag,           \* the static variable of TIM1_UP_IRQHandler
    TIM1,               \* is the timer, and with it the pulse output, on?
    pc, goal, rel, freq,  \* the task: next statement, Pulse_Num, PulseNum_Rel,
                        \* and the Freq of PTO_Home
    isr, reg, branch,   \* the TIM1 interrupt: stage, loaded value, switch value
    move, start, out, caught,   \* history, see below
    calls, fires        \* calls and limit interrupts so far

(* move tells how the last command went: "armed" between reading the       *)
(* position and enabling the timer, "run" while it executes undisturbed,   *)
(* "done" when the ramp stopped by itself, "homed" after a limit switch    *)
(* stopped the motor, "broken" once a limit interrupt or another call      *)
(* interfered or the ramp was planned beyond the tables, "none" otherwise. *)
(* start is the position the move started from and out the pulses emitted  *)
(* since (at most 2*Half are counted).  caught is what the last limit      *)
(* interrupt that stopped the motor came upon: the stage of the TIM1       *)
(* interrupt, the "call" of a task, or "none" of these.                    *)

ramp == << MotorActionState, MotorDir, MotorCycleReal, TIM1 >>
profile == << ACC_Status_Flag, DEC_Status_Flag, MotorCycleTarget,
              PulseNum_ConstantVel >>
task == << goal, rel, PinE0, start, caught >>
isrvars == << isr, reg, branch >>
vars == << ramp, profile, pc, task, freq, HomeFlag, PulseNum_Global,
           PulseNum_TEMP, tempflag, isrvars, move, out, calls, fires >>

-----------------------------------------------------------------------------
(* Machine arithmetic.                                                     *)

Wrap(x) ==
    IF x < 0 THEN x + 2 * Half ELSE IF x >= 2 * Half THEN x - 2 * Half ELSE x
Signed(u) == IF u >= Half THEN u - 2 * Half ELSE u
Negate(s) == IF s = -Half THEN s ELSE -s

\* (u32)abs(PulseNum_Global - PulseNum_TEMP)
Travelled ==
    LET d == Signed(Wrap(PulseNum_Global - PulseNum_TEMP))
    IN  IF d < 0 THEN -d ELSE d

\* Reading PulseNum_Buf, also at an index outside it.
PulseRead(i) == IF i \in Steps THEN { PulseNum_Buf[i] } ELSE Garbage

\* Mutant: the table read one entry late.
CycleReadNext(i) == IF i + 1 \in Steps THEN { i + 2 } ELSE Garbage

\* The period that MotorCycle_Buf holds for the level after i.
CycleRead(i) == IF i \in Steps THEN { i + 1 } ELSE Garbage

\* PulseNum_Sum_Buf as PTO_HZ_NUM reads it, up to the level it was asked for.
SumsRead ==
    { [i \in 0 .. ACC_Status_Flag - 1 |->
           IF i \in Steps THEN PulseNum_Sum_Buf[i] ELSE beyond[i]] :
        beyond \in [TableLen .. ACC_Status_Flag - 1 -> Garbage] }

\* Mutant: the origin of a phase is the current position.
PhaseOriginHere == PulseNum_Global

\* One pulse before the current position, where a phase begins.
PhaseOrigin ==
    IF MotorDir > 1 THEN Wrap(PulseNum_Global + 1) ELSE Wrap(PulseNum_Global - 1)

-----------------------------------------------------------------------------
Init ==
    /\ MotorActionState = 0 /\ MotorDir = 0 /\ PinE0 = 1 /\ HomeFlag = 0
    /\ ACC_Status_Flag = 0 /\ DEC_Status_Flag = 0
    /\ MotorCycleTarget = 0 /\ MotorCycleReal = 0
    /\ PulseNum_Global = 0 /\ PulseNum_TEMP = 0 /\ PulseNum_ConstantVel = 0
    /\ tempflag = 0 /\ TIM1 = DISABLE
    /\ pc = "idle" /\ goal = 0 /\ rel = 0 /\ freq = 0
    /\ isr = "none" /\ reg = 0 /\ branch = 0
    /\ move = "none" /\ start = 0 /\ out = 0 /\ caught = "none"
    /\ calls = 0 /\ fires = 0

-----------------------------------------------------------------------------
(* The calling task.  It runs only when no interrupt is being served.      *)

MayCall ==
    /\ pc = "idle" /\ isr = "none"
    /\ CallWhileMoving \/ TIM1 = DISABLE
    /\ calls < MaxCalls

\* A new call has not met a limit yet.
CallBegins == caught' = IF caught = "call" THEN "none" ELSE caught

\* PTO_HZ_NUM, up to the ramp flags, which are u8.
HzNum(level, position) ==
    /\ MayCall
    /\ calls' = calls + 1
    /\ pc' = "rel"
    /\ goal' = position
    /\ MotorCycleTarget' = level
    /\ ACC_Status_Flag' = level % Byte
    /\ DEC_Status_Flag' = level % Byte
    /\ move' = IF TIM1 = ENABLE THEN "broken" ELSE "none"
    /\ CallBegins
    /\ UNCHANGED << ramp, rel, PinE0, start, PulseNum_ConstantVel, HomeFlag,
                    PulseNum_Global, PulseNum_TEMP, tempflag, freq, isrvars,
                    out, fires >>

\* PulseNum_Rel = Pulse_Num - PulseNum_Global
ReadPosition ==
    /\ pc = "rel" /\ isr = "none"
    /\ pc' = "dir"
    /\ rel' = Signed(Wrap(goal - PulseNum_Global))
    /\ start' = PulseNum_Global
    /\ move' = IF TIM1 = ENABLE THEN "broken" ELSE "armed"
    /\ UNCHANGED << ramp, profile, goal, PinE0, caught, HomeFlag, PulseNum_Global,
                    PulseNum_TEMP, tempflag, freq, isrvars, out,
                    calls, fires >>

\* Direction of the move and of the direction pin.
SetDirection ==
    /\ pc = "dir" /\ isr = "none"
    /\ pc' = "plan"
    /\ MotorDir' = IF rel = 0 THEN 0 ELSE IF rel > 0 THEN 1 ELSE 2
    /\ PinE0' = IF rel < 0 THEN 2 ELSE 1
    /\ rel' = IF rel < 0 THEN Negate(rel) ELSE rel
    /\ UNCHANGED << MotorActionState, MotorCycleReal, TIM1, profile, goal, start, caught,
                    HomeFlag, PulseNum_Global, PulseNum_TEMP, tempflag, freq,
                    isrvars, move, out, calls, fires >>

\* The level the move is executed with, of the partial sums s: the requested one
\* when the distance holds a full ramp, else the highest one whose double ramp is
\* shorter.
Suits(l, s) ==
    /\ rel # 0
    /\ \/ /\ l = ACC_Status_Flag
          /\ rel > 2 * s[l - 1] - 1
       \/ /\ rel < 2 * s[ACC_Status_Flag - 1]
          /\ rel > 2 * s[l - 1]
          /\ \A j \in l + 1 .. ACC_Status_Flag : rel <= 2 * s[j - 1]

\* PTO_HZ_NUM_Start, the pulse counts of the phases.
Plan ==
    /\ pc = "plan" /\ isr = "none"
    /\ \E s \in SumsRead, l \in 1 .. ACC_Status_Flag :
          /\ Suits(l, s)
          /\ ACC_Status_Flag' = l
          /\ DEC_Status_Flag' = l
          /\ PulseNum_ConstantVel' = Wrap(rel - 2 * s[l - 1])
          /\ move' = IF move = "armed" /\ l > TableLen THEN "broken" ELSE move
    /\ pc' = "go"
    /\ UNCHANGED << ramp, MotorCycleTarget, task, HomeFlag,
                    PulseNum_Global, PulseNum_TEMP, tempflag, freq, isrvars,
                    out, calls, fires >>

\* PTO_HZ_NUM returns without starting the timer.
NoMove ==
    /\ pc = "plan" /\ isr = "none"
    /\ \E s \in SumsRead : \A l \in 1 .. ACC_Status_Flag : ~Suits(l, s)
    /\ pc' = "idle"
    /\ move' = IF move = "armed" THEN "none" ELSE move
    /\ UNCHANGED << ramp, profile, task, HomeFlag,
                    PulseNum_Global, PulseNum_TEMP, tempflag, freq, isrvars,
                    out, calls, fires >>

\* PTO_HZ_NUM_Start, MotorActionState = 1.
StartRamp ==
    /\ pc = "go" /\ isr = "none"
    /\ pc' = "cycle"
    /\ MotorActionState' = 1
    /\ UNCHANGED << MotorDir, MotorCycleReal, TIM1, profile, task, HomeFlag,
                    PulseNum_Global, PulseNum_TEMP, tempflag, freq, isrvars,
                    move, out, calls, fires >>

\* PTO_Cycle(MotorCycle_Buf[0])
StartCycle ==
    /\ pc = "cycle" /\ isr = "none"
    /\ pc' = "enable"
    /\ MotorCycleReal' \in CycleRead(0)
    /\ UNCHANGED << MotorActionState, MotorDir, TIM1, profile, task, HomeFlag,
                    PulseNum_Global, PulseNum_TEMP, tempflag, freq, isrvars,
                    move, out, calls, fires >>

\* TIM_Cmd(TIM1, ENABLE), the last statement of both calls.
StartTimer ==
    /\ pc = "enable" /\ isr = "none"
    /\ pc' = "idle"
    /\ TIM1' = ENABLE
    /\ out' = 0
    /\ move' = IF move = "armed" THEN "run" ELSE move
    /\ UNCHANGED << MotorActionState, MotorDir, MotorCycleReal, profile, task,
                    HomeFlag, PulseNum_Global, PulseNum_TEMP, tempflag, freq,
                    isrvars, calls, fires >>

\* PTO_Home, up to the direction pin.
Home(level) ==
    /\ MayCall
    /\ calls' = calls + 1
    /\ pc' = "home"
    /\ freq' = level
    /\ MotorCycleReal' = level
    /\ MotorDir' = 2
    /\ PinE0' = 2
    /\ move' = IF TIM1 = ENABLE THEN "broken" ELSE "none"
    /\ CallBegins
    /\ UNCHANGED << MotorActionState, TIM1, profile, goal, rel, start, HomeFlag,
                    PulseNum_Global, PulseNum_TEMP, tempflag, isrvars, out,
                    fires >>

\* PTO_Home, PTO_Cycle.
HomeCycle ==
    /\ pc = "home" /\ isr = "none"
    /\ pc' = "enable"
    /\ freq' = 0
    /\ MotorCycleReal' = freq
    /\ UNCHANGED << MotorActionState, MotorDir, TIM1, profile, task, HomeFlag,
                    PulseNum_Global, PulseNum_TEMP, tempflag, isrvars, move, out,
                    calls, fires >>

-----------------------------------------------------------------------------
(* PTO_Stop, called by the TIM1 interrupt and by the limit interrupts.     *)

\* Mutant: the ramp keeps its state.
PTO_StopKeepsState ==
    /\ TIM1' = DISABLE
    /\ MotorCycleReal' = 0
    /\ MotorDir' = 0
    /\ MotorActionState' = MotorActionState

PTO_Stop ==
    /\ TIM1' = DISABLE
    /\ MotorCycleReal' = 0
    /\ MotorDir' = 0
    /\ MotorActionState' = 0

-----------------------------------------------------------------------------
(* Timer TIM1 and its interrupt, in the stages between which a limit       *)
(* interrupt can preempt it.                                               *)

\* A period ends: one more pulse is out and the interrupt is pending.
TIM1_Update ==
    /\ TIM1 = ENABLE /\ isr = "none"
    /\ isr' = "enter"
    /\ out' = IF move = "run" /\ out < 2 * Half THEN out + 1 ELSE out
    /\ UNCHANGED << ramp, profile, pc, task, freq, HomeFlag, PulseNum_Global,
                    PulseNum_TEMP, tempflag, reg, branch, move,
                    calls, fires >>

\* Mutant: reverse pulses are counted forward.
LoadPositionForward ==
    /\ isr = "enter"
    /\ isr' = IF MotorDir = 0 THEN "switch" ELSE "count"
    /\ reg' = IF MotorDir = 0 THEN reg ELSE Wrap(PulseNum_Global + 1)
    /\ UNCHANGED << ramp, profile, pc, task, freq, HomeFlag, PulseNum_Global,
                    PulseNum_TEMP, tempflag, branch, move, out, calls, fires >>

\* Load PulseNum_Global, if the direction says it is to be counted.
LoadPosition ==
    /\ isr = "enter"
    /\ isr' = IF MotorDir = 0 THEN "switch" ELSE "count"
    /\ reg' = CASE MotorDir = 1 -> Wrap(PulseNum_Global + 1)
                [] MotorDir = 2 -> Wrap(PulseNum_Global - 1)
                [] OTHER -> reg
    /\ UNCHANGED << ramp, profile, pc, task, freq, HomeFlag, PulseNum_Global,
                    PulseNum_TEMP, tempflag, branch, move, out,
                    calls, fires >>

StorePosition ==
    /\ isr = "count"
    /\ isr' = "switch"
    /\ PulseNum_Global' = reg
    /\ reg' = 0
    /\ UNCHANGED << ramp, profile, pc, task, freq, HomeFlag, PulseNum_TEMP,
                    tempflag, branch, move, out,
                    calls, fires >>

\* switch(MotorActionState)
Switch ==
    /\ isr = "switch"
    /\ isr' = "case"
    /\ branch' = MotorActionState
    /\ UNCHANGED << ramp, profile, pc, task, freq, HomeFlag, PulseNum_Global,
                    PulseNum_TEMP, tempflag, reg, move, out,
                    calls, fires >>

\* The end of the interrupt, after the branch for MotorActionState = s.
EndCase(s) ==
    /\ isr = "case" /\ branch = s
    /\ isr' = "none"
    /\ branch' = 0
    /\ UNCHANGED << profile, pc, task, freq, HomeFlag, PulseNum_Global, reg, out,
                    calls, fires >>

NoCase ==
    /\ EndCase(0)
    /\ UNCHANGED << ramp, PulseNum_TEMP, tempflag, move >>

\* case 1
StartAccelerating ==
    /\ EndCase(1)
    /\ tempflag' = 0
    /\ PulseNum_TEMP' = PhaseOrigin
    /\ MotorActionState' = 2
    /\ UNCHANGED << MotorDir, MotorCycleReal, TIM1, move >>

\* case 2: the current level has emitted its pulses.
AccelStep == \E n \in PulseRead(tempflag) : Travelled > Wrap(n - 1)
AccelWithinStep == \E n \in PulseRead(tempflag) : Travelled <= Wrap(n - 1)
NextFlag == IF tempflag = Byte - 1 THEN 0 ELSE tempflag + 1
PrevFlag == IF tempflag = 0 THEN Byte - 1 ELSE tempflag - 1

KeepAccelerating ==
    /\ EndCase(2)
    /\ AccelWithinStep
    /\ UNCHANGED << ramp, PulseNum_TEMP, tempflag, move >>

NextAccelStep ==
    /\ EndCase(2)
    /\ AccelStep
    /\ NextFlag # ACC_Status_Flag
    /\ PulseNum_TEMP' = PulseNum_Global
    /\ tempflag' = NextFlag
    /\ IF NextFlag < ACC_Status_Flag
       THEN MotorCycleReal' \in CycleRead(NextFlag)
       ELSE UNCHANGED MotorCycleReal
    /\ UNCHANGED << MotorActionState, MotorDir, TIM1, move >>

EndAccelerating ==
    /\ EndCase(2)
    /\ AccelStep
    /\ NextFlag = ACC_Status_Flag
    /\ PulseNum_TEMP' = PulseNum_Global
    /\ \/ /\ PulseNum_ConstantVel = 0
          /\ tempflag' = 0
          /\ MotorActionState' = 4
          /\ MotorCycleReal' = MotorCycleReal
       \/ /\ PulseNum_ConstantVel # 0
          /\ tempflag' = NextFlag
          /\ MotorActionState' = 3
          /\ MotorCycleReal' = MotorCycleTarget
    /\ UNCHANGED << MotorDir, TIM1, move >>

\* case 3; the u32 subtraction wraps when PulseNum_ConstantVel is 0.
Cruise ==
    /\ EndCase(3)
    /\ IF Travelled > Wrap(PulseNum_ConstantVel - 1)
       THEN tempflag' = 0 /\ MotorActionState' = 4
       ELSE UNCHANGED << tempflag, MotorActionState >>
    /\ UNCHANGED << MotorDir, MotorCycleReal, TIM1, PulseNum_TEMP, move >>

\* case 4
StartDecelerating ==
    /\ EndCase(4)
    /\ tempflag' = DEC_Status_Flag
    /\ PulseNum_TEMP' = PhaseOrigin
    /\ MotorCycleReal' \in CycleRead(DEC_Status_Flag - 1)
    /\ MotorActionState' = 5
    /\ UNCHANGED << MotorDir, TIM1, move >>

\* case 5
KeepDecelerating ==
    /\ EndCase(5)
    /\ \E n \in PulseRead(tempflag - 1) : Travelled <= Wrap(n - 1)
    /\ UNCHANGED << ramp, PulseNum_TEMP, tempflag, move >>

DecelStep ==
    /\ EndCase(5)
    /\ \E n \in PulseRead(tempflag - 1) : Travelled > Wrap(n - 1)
    /\ PulseNum_TEMP' = PulseNum_Global
    /\ tempflag' = PrevFlag

NextDecelStep ==
    /\ DecelStep
    /\ PrevFlag > 0
    /\ MotorCycleReal' \in CycleRead(PrevFlag - 1)
    /\ UNCHANGED << MotorActionState, MotorDir, TIM1, move >>

EndDecelerating ==
    /\ DecelStep
    /\ PrevFlag = 0
    /\ PTO_Stop
    /\ move' = IF move = "run" THEN "done" ELSE move

TIM1_UP_IRQHandler ==
    \/ LoadPosition \/ StorePosition \/ Switch \/ NoCase
    \/ StartAccelerating \/ KeepAccelerating \/ NextAccelStep \/ EndAccelerating
    \/ Cruise
    \/ StartDecelerating \/ KeepDecelerating \/ NextDecelStep \/ EndDecelerating

-----------------------------------------------------------------------------
(* The limit-switch interrupts.  They run to completion: no interrupt of   *)
(* the program preempts them and changes the same state.                   *)

LimitsMayFire ==
    /\ fires < MaxLimits
    /\ \/ Limits = "nested"
       \/ Limits = "atomic" /\ isr = "none"

\* A limit interrupt stops the motor at the position that becomes 0.
LimitStop ==
    /\ PTO_Stop
    /\ PulseNum_Global' = 0
    /\ HomeFlag' = 1
    /\ move' = IF pc = "idle" THEN "homed" ELSE "none"
    /\ caught' = IF isr = "none" /\ pc # "idle" THEN "call" ELSE isr
    /\ UNCHANGED << profile, pc, goal, rel, PinE0, start, freq, PulseNum_TEMP,
                    tempflag, isrvars, out, calls >>

\* EXTI1_IRQHandler
EXTI1 ==
    /\ LimitsMayFire
    /\ fires' = fires + 1
    /\ \/ HomeFlag = 0 /\ LimitStop
       \/ /\ HomeFlag # 0
          /\ PulseNum_Global' = 0
          /\ move' = IF TIM1 = ENABLE \/ pc # "idle" THEN "broken" ELSE "none"
          /\ UNCHANGED << ramp, profile, pc, task, freq, HomeFlag, PulseNum_TEMP,
                          tempflag, isrvars, out,
                          calls >>

\* EXTI4_IRQHandler
EXTI4 ==
    /\ LimitsMayFire
    /\ fires' = fires + 1
    /\ LimitStop

-----------------------------------------------------------------------------
Call ==
    \/ \E l \in Levels, p \in Positions : HzNum(l, p)
    \/ \E l \in Levels \ {0} : Home(l)

TaskStep ==
    \/ ReadPosition \/ SetDirection \/ Plan \/ NoMove
    \/ StartRamp \/ StartCycle \/ HomeCycle \/ StartTimer

Next == Call \/ TaskStep \/ TIM1_Update \/ TIM1_UP_IRQHandler \/ EXTI1 \/ EXTI4

\* The timer is hardware, an interrupt runs to its end, and the task goes on
\* when no interrupt is pending.  Nothing makes the task call, or a switch fire.
Fairness ==
    /\ WF_vars(TIM1_Update)
    /\ WF_vars(TIM1_UP_IRQHandler)
    /\ WF_vars(TaskStep)

Spec == Init /\ [][Next]_vars
FairSpec == Spec /\ Fairness

-----------------------------------------------------------------------------
(* Properties.                                                             *)

TypeOK ==
    /\ MotorActionState \in 0 .. 5
    /\ MotorDir \in 0 .. 2
    /\ PinE0 \in 1 .. 2
    /\ HomeFlag \in 0 .. 1
    /\ ACC_Status_Flag \in 0 .. Byte - 1
    /\ DEC_Status_Flag \in 0 .. Byte - 1
    /\ MotorCycleTarget \in Nat
    /\ MotorCycleReal \in Nat
    /\ PulseNum_Global \in U32
    /\ PulseNum_TEMP \in U32
    /\ PulseNum_ConstantVel \in U32
    /\ tempflag \in 0 .. Byte - 1
    /\ TIM1 \in {DISABLE, ENABLE}
    /\ pc \in {"idle", "rel", "dir", "plan", "go", "cycle", "home", "enable"}
    /\ goal \in U32
    /\ rel \in -Half .. Half - 1
    /\ freq \in Nat
    /\ isr \in {"none", "enter", "count", "switch", "case"}
    /\ reg \in U32
    /\ branch \in 0 .. 5
    /\ move \in {"none", "armed", "run", "done", "homed", "broken"}
    /\ start \in U32
    /\ out \in Nat
    /\ caught \in {"none", "call", "enter", "count", "switch", "case"}
    /\ calls \in 0 .. MaxCalls
    /\ fires \in 0 .. MaxLimits

\* Pulses emitted by the first k levels of a ramp, and the position n pulses
\* after the start of the move.
Sum(k) == IF k = 0 THEN 0 ELSE PulseNum_Sum_Buf[k - 1]
At(n) == IF MotorDir = 1 THEN Wrap(start + n) ELSE Wrap(start - n)

\* Pulses of the move that the handler has counted, and those it has both
\* counted and run its switch for.
Counted == IF isr \in {"enter", "count"} THEN out - 1 ELSE out
Handled == IF isr = "none" THEN out ELSE out - 1

\* Where the ramp is after Handled pulses: the strengthening that makes
\* MoveExact inductive.  Each phase bounds the ramp index by the tables.
PhaseStart ==
    /\ MotorActionState = 1
    /\ Handled = 0

PhaseAccelerate ==
    /\ MotorActionState = 2
    /\ tempflag < ACC_Status_Flag
    /\ PulseNum_TEMP = At(Sum(tempflag))
    /\ Handled >= 1
    /\ Sum(tempflag) <= Handled /\ Handled < Sum(tempflag + 1)

PhaseCruise ==
    /\ MotorActionState = 3
    /\ PulseNum_TEMP = At(Sum(ACC_Status_Flag))
    /\ Sum(ACC_Status_Flag) <= Handled
    /\ Handled < Sum(ACC_Status_Flag) + PulseNum_ConstantVel

PhaseTurn ==
    /\ MotorActionState = 4
    /\ Handled = Sum(ACC_Status_Flag) + PulseNum_ConstantVel

PhaseDecelerate ==
    /\ MotorActionState = 5
    /\ tempflag \in 1 .. ACC_Status_Flag
    /\ PulseNum_TEMP = At(rel - Sum(tempflag))
    /\ rel - Sum(tempflag) <= Handled /\ Handled < rel - Sum(tempflag - 1)

Phase ==
    PhaseStart \/ PhaseAccelerate \/ PhaseCruise \/ PhaseTurn \/ PhaseDecelerate

\* The statements of PTO_HZ_NUM_Start, after the pulse counts.
Starting == {"go", "cycle", "enable"}

\* The task between reading the position and starting the timer.
Armed ==
    /\ TIM1 = DISABLE /\ isr = "none"
    /\ pc \in {"dir", "plan"} \cup Starting
    /\ start = PulseNum_Global
    /\ pc = "dir" => rel = Signed(Wrap(goal - start))
    /\ pc # "dir" => /\ MotorDir = 0 => rel = 0
                     /\ rel >= 0 => /\ goal = At(rel)
                                    /\ MotorDir # 0 => PinE0 = MotorDir
    /\ pc \in {"cycle", "enable"} => MotorActionState = 1
    /\ pc = "enable" => MotorCycleReal = 1

\* The profile of the move covers its distance.
Profiled ==
    /\ ACC_Status_Flag \in 1 .. TableLen
    /\ DEC_Status_Flag = ACC_Status_Flag
    /\ rel > 0
    /\ rel = 2 * Sum(ACC_Status_Flag) + PulseNum_ConstantVel

Running ==
    /\ TIM1 = ENABLE
    /\ pc = "idle"
    /\ MotorDir \in 1 .. 2 /\ PinE0 = MotorDir
    /\ goal = At(rel)
    /\ isr \in {"enter", "count", "switch", "case"} => out >= 1
    /\ PulseNum_Global = At(Counted)
    /\ isr = "count" => reg = At(out)
    /\ isr = "case" => branch = MotorActionState
    /\ Phase

Stopped ==
    /\ TIM1 = DISABLE /\ isr = "none" /\ pc = "idle"
    /\ PulseNum_Global = goal /\ out = rel

\* Every move is on course: between its phases, the counted position, the
\* reference position and the ramp index agree with the pulses emitted
\* (TIM1_UP_IRQHandler and PTO_HZ_NUM as a whole).
OnCourse ==
    /\ move = "armed" => Armed /\ (pc \in Starting => Profiled /\ MotorDir # 0)
    /\ move = "run" => Running /\ Profiled
    /\ move = "done" => Stopped

\* A move whose ramp is within the tables and that nothing interferes with stops by
\* itself exactly at the position it was commanded to, after exactly as many
\* pulses as the distance it read: the phases of TIM1_UP_IRQHandler lose no pulse
\* and add none at their borders, in both directions and across the wrap of the
\* counter.
MoveExact == move = "done" => PulseNum_Global = goal /\ out = rel

\* After a limit interrupt has stopped the motor, the timer stays off until the
\* next call, and the position stays 0 unless the limit came upon a pulse being
\* counted: TIM1_UP_IRQHandler, of lower priority, then stores the position it had
\* read before (EXTI1_IRQHandler, EXTI4_IRQHandler at any stage of it).
HomeZero ==
    move = "homed" => /\ TIM1 = DISABLE
                      /\ PulseNum_Global = 0 \/ (caught = "count" /\ isr # "count")

\* With the timer off, no call and no interrupt under way, the ramp is in
\* state 0, "no action" (pto.c:4), with no period loaded: nothing an aborted
\* move leaves behind would be resumed by PTO_Home, which does not set the state.
\* Again with one exception: the limit came upon a case of the switch, which then
\* puts the state and the period of the ramp back.
StoppedIsIdle ==
    TIM1 = DISABLE /\ pc = "idle" /\ isr = "none"
        => (MotorActionState = 0 /\ MotorCycleReal = 0) \/ caught = "case"

\* When calls wait for the end of a move, pulses come out with direction 0, "no
\* action" (pto.c:6), and uncounted, in one case only: a limit interrupt stopped
\* the motor inside this very call of PTO_HZ_NUM or PTO_Home, which then enables
\* the timer.
UncountedOnlyAfterLimit ==
    [][ TIM1' = ENABLE /\ MotorDir' = 0 /\ ~(TIM1 = ENABLE /\ MotorDir = 0)
        => pc = "enable" /\ caught = "call" /\ HomeFlag = 1 ]_vars

\* The frequency of a move changes by one level at a time, which is what keeps the
\* acceleration at ACC_HZ_MIN per ACC_PERIOD (pto.h:33), but at the two ends of
\* the cruise of a move too short for its frequency, or of a frequency that the u8
\* ramp flag cuts: PTO_HZ_NUM shortens the ramp and not MotorCycleTarget
\* (TIM1_UP_IRQHandler).
RampGradual ==
    [][ move = "run" /\ move' = "run"
        => \/ MotorCycleReal' - MotorCycleReal \in -1 .. 1
           \/ /\ ACC_Status_Flag < MotorCycleTarget
              /\ \/ MotorActionState = 2 /\ MotorActionState' = 3
                 \/ MotorActionState = 4 /\ MotorActionState' = 5 ]_vars

\* PTO_HZ_NUM drops a distance without a pulse only when it holds no more than
\* twice the shortest ramp: the strict comparisons leave no other distance out
\* between two levels (PTO_HZ_NUM).
DropsOnlyShortMoves ==
    [][ pc = "plan" /\ pc' = "idle"
        => ACC_Status_Flag = 0 \/ rel <= 2 * PulseNum_Sum_Buf[0] ]_vars

Left == IF move = "run" THEN rel - Counted ELSE 0
Fate == CASE move = "run" -> "moving" [] move = "done" -> "done" [] OTHER -> "free"
Promise == INSTANCE PositionMove
    WITH pos <- PulseNum_Global,
         dir <- IF MotorDir = 2 THEN 2 ELSE 1,
         left <- Left,
         fate <- Fate

\* The generator implements PositionMove: whatever interferes, a move counts one
\* pulse at a time in one direction, and is only ever done with no pulse left.
ImplementsMove == Promise!MoveSafe

\* The same with fairness: no phase of TIM1_UP_IRQHandler runs on for ever, so a
\* move ends unless something interferes with it.
KeepsPromise == Promise!MoveSpec

\* A limit stops the motor for good: at 0, with nothing left to resume, and the
\* timer enabled again only by the call the limit interrupted; but for a limit
\* inside the count or the switch of a pulse's interrupt.
LimitHolds == [](HomeZero /\ StoppedIsIdle) /\ UncountedOnlyAfterLimit

\* PTO_HZ_NUM finds a profile that fits the distance, and its frequencies do not
\* jump, but for moves too short for either.
ProfileFits == RampGradual /\ DropsOnlyShortMoves
================================================================================
