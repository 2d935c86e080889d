------------------------------- MODULE PTO_proofs ------------------------------
(* Proofs about PTO, for every table, word size, set of callers' arguments  *)
(* and kind of interference.                                                *)
EXTENDS PTO, WellFoundedInduction, TLAPS

-----------------------------------------------------------------------------
(* Machine arithmetic and tables.                                          *)

\* Wrapping addition stays in u32 (++ and -- of PulseNum_Global).
LEMMA WrapType ==
    ASSUME NEW x \in -2 * Half .. 4 * Half - 1
    PROVE  Wrap(x) \in U32
BY SizesAssumption DEF Wrap, U32

\* A u32 read as an s32.
LEMMA SignedType ==
    ASSUME NEW u \in U32
    PROVE  Signed(u) \in -Half .. Half - 1
BY SizesAssumption DEF Signed, U32

\* The distance between two positions of a move, counted modulo 2*Half, is the
\* number of pulses between them, in either direction.
LEMMA Distance ==
    ASSUME NEW s \in U32, NEW a \in 0 .. Half - 1, NEW b \in 0 .. Half - 1, a <= b
    PROVE  /\ Signed(Wrap(Wrap(s + b) - Wrap(s + a))) = b - a
           /\ b > a => Signed(Wrap(Wrap(s - b) - Wrap(s - a))) = a - b
           /\ b = a => Signed(Wrap(Wrap(s - b) - Wrap(s - a))) = 0
BY SizesAssumption DEF Signed, Wrap, U32

\* Moving by the signed difference of two positions leads from one to the other.
LEMMA Reaches ==
    ASSUME NEW s \in U32, NEW g \in U32
    PROVE  /\ Signed(Wrap(g - s)) >= 0 => Wrap(s + Signed(Wrap(g - s))) = g
           /\ Signed(Wrap(g - s)) < 0 => Wrap(s - (-Signed(Wrap(g - s)))) = g
BY SizesAssumption DEF Signed, Wrap, U32

\* One more pulse is one step of the position.
LEMMA Advance ==
    ASSUME NEW s \in U32, NEW n \in 0 .. Half - 1
    PROVE  /\ Wrap(Wrap(s + n) + 1) = Wrap(s + (n + 1))
           /\ Wrap(Wrap(s - n) - 1) = Wrap(s - (n + 1))
           /\ Wrap(Wrap(s + (n + 1)) - 1) = Wrap(s + n)
           /\ Wrap(Wrap(s - (n + 1)) + 1) = Wrap(s - n)
BY SizesAssumption DEF Wrap, U32

\* The partial sums as the invariant uses them.
LEMMA SumFacts ==
    /\ Sum(0) = 0
    /\ \A k \in 0 .. TableLen : Sum(k) \in Nat
    /\ \A k \in Steps : Sum(k + 1) = Sum(k) + PulseNum_Buf[k]
    /\ \A k \in Steps : PulseNum_Buf[k] \in Nat /\ PulseNum_Buf[k] >= 2
    /\ \A j, k \in 0 .. TableLen : j <= k => Sum(j) <= Sum(k)
<1>1. Sum(0) = 0
  BY DEF Sum
<1>2. ASSUME NEW k \in 0 .. TableLen PROVE Sum(k) \in Nat
  BY SizesAssumption, TableAssumption DEF RampTables, Sum, Steps
<1>3. ASSUME NEW k \in Steps PROVE Sum(k + 1) = Sum(k) + PulseNum_Buf[k]
  <2>1. CASE k = 0
    BY <2>1, SizesAssumption, TableAssumption DEF RampTables, Sum, Steps
  <2>2. CASE k # 0
    BY <2>2, SizesAssumption, TableAssumption DEF RampTables, Sum, Steps
  <2> QED
    BY <2>1, <2>2
<1>4. \A k \in Steps : PulseNum_Buf[k] \in Nat /\ PulseNum_Buf[k] >= 2
  BY SizesAssumption, TableAssumption DEF RampTables, Steps
<1>5. ASSUME NEW j \in 0 .. TableLen, NEW k \in 0 .. TableLen, j <= k
      PROVE  Sum(j) <= Sum(k)
  <2>1. CASE j = 0
    BY <2>1, <1>1, <1>2, SizesAssumption
  <2>2. CASE j # 0
    <3>1. j - 1 \in Steps /\ k - 1 \in Steps /\ j - 1 <= k - 1
      BY <2>2, <1>5, SizesAssumption DEF Steps
    <3>2. PulseNum_Sum_Buf[j - 1] <= PulseNum_Sum_Buf[k - 1]
      BY <3>1, TableAssumption DEF RampTables
    <3> QED
      BY <2>2, <3>2, <1>5 DEF Sum
  <2> QED
    BY <2>1, <2>2
<1> QED
  BY <1>1, <1>2, <1>3, <1>4, <1>5

-----------------------------------------------------------------------------
(* Type correctness.                                                       *)

USE SizesAssumption DEF ENABLE, DISABLE

\* The partial sums PTO_HZ_NUM reads: those of the table, and beyond it anything
\* that is not negative.
LEMMA SumsReadType ==
    ASSUME NEW s \in SumsRead
    PROVE  /\ \A i \in 0 .. ACC_Status_Flag - 1 : s[i] \in Nat
           /\ \A i \in 0 .. ACC_Status_Flag - 1 : i \in Steps => s[i] = PulseNum_Sum_Buf[i]
<1> DEFINE n == ACC_Status_Flag
<1>1. PICK beyond \in [TableLen .. n - 1 -> Garbage] :
          s = [i \in 0 .. n - 1 |-> IF i \in Steps THEN PulseNum_Sum_Buf[i] ELSE beyond[i]]
  BY DEF SumsRead
<1>2. ASSUME NEW i \in 0 .. n - 1
      PROVE  s[i] \in Nat /\ (i \in Steps => s[i] = PulseNum_Sum_Buf[i])
  <2>1. s[i] = IF i \in Steps THEN PulseNum_Sum_Buf[i] ELSE beyond[i]
    BY <1>1
  <2>2. CASE i \in Steps
    BY <2>1, <2>2, TableAssumption DEF RampTables
  <2>3. CASE i \notin Steps
    <3>1. i \in TableLen .. n - 1
      BY <1>2, <2>3 DEF Steps
    <3>2. beyond[i] \in Garbage
      BY <3>1, <1>1
    <3>3. \A g \in Garbage : g \in Nat
      BY DEF U32
    <3>4. beyond[i] \in Nat
      BY <3>2, <3>3
    <3> QED
      BY <2>1, <2>3, <3>4
  <2> QED
    BY <2>2, <2>3
<1> QED
  BY <1>2

\* A period read from the table or beyond it, and that of a level of the table.
LEMMA CycleReadType ==
    /\ \A i \in Int : \A c \in CycleRead(i) : c \in Nat
    /\ \A i \in Steps : \A c \in CycleRead(i) : c = i + 1
BY DEF CycleRead, Steps, U32

\* The pulse count of the cruise never underflows, whoever interferes with the
\* task and whatever is read beyond the table (PTO_HZ_NUM_Start).
LEMMA CruiseType ==
    ASSUME TypeOK, NEW s \in SumsRead, NEW l \in 1 .. ACC_Status_Flag, Suits(l, s)
    PROVE  Wrap(rel - 2 * s[l - 1]) \in U32
<1>1. l - 1 \in 0 .. ACC_Status_Flag - 1
  BY DEF TypeOK
<1>2. s[l - 1] \in Nat
  BY <1>1, SumsReadType
<1>3. rel \in -Half .. Half - 1 /\ rel - 2 * s[l - 1] >= 0
  BY <1>2 DEF Suits, TypeOK
<1> QED
  BY <1>2, <1>3 DEF Wrap, U32

\* Every variable keeps its type, in particular the ramp flags, the ramp index and
\* the counters their machine width, under every interleaving and for every level
\* the callers ask for.
LEMMA TypeInductive == TypeOK /\ [Next]_vars => TypeOK'
<1> SUFFICES ASSUME TypeOK, [Next]_vars
             PROVE  TypeOK'
  OBVIOUS
<1> USE DEF U32
<1>1. ASSUME NEW l \in Levels, NEW p \in Positions, HzNum(l, p) PROVE TypeOK'
  <2>1. l \in Nat /\ l % Byte \in 0 .. Byte - 1
    BY SizesAssumption
  <2> QED
    BY <1>1, <2>1 DEF TypeOK, HzNum, CallBegins, MayCall, ramp, isrvars
<1>2. ASSUME NEW l \in Levels \ {0}, Home(l) PROVE TypeOK'
  <2>1. l \in Nat
    BY SizesAssumption
  <2> QED
    BY <1>2, <2>1 DEF TypeOK, Home, CallBegins, MayCall, profile, isrvars
<1>3. CASE ReadPosition
  <2>1. Signed(Wrap(goal - PulseNum_Global)) \in -Half .. Half - 1
    BY DEF Signed, Wrap, TypeOK
  <2> QED
    BY <1>3, <2>1 DEF TypeOK, ReadPosition, ramp, profile, isrvars
<1>4. CASE SetDirection
  BY <1>4 DEF TypeOK, SetDirection, Negate, profile, isrvars
<1>5. CASE Plan
  BY <1>5, CruiseType DEF TypeOK, Plan, ramp, task, isrvars
<1>6. CASE NoMove
  BY <1>6 DEF TypeOK, NoMove, ramp, profile, task, isrvars
<1>7. CASE StartRamp \/ StartTimer
  BY <1>7 DEF TypeOK, StartRamp, StartTimer, profile, task, isrvars
<1>27. CASE StartCycle
  BY <1>27, CycleReadType DEF TypeOK, StartCycle, profile, task, isrvars
<1>8. CASE HomeCycle
  BY <1>8 DEF TypeOK, HomeCycle, profile, task, isrvars
<1>9. CASE TIM1_Update
  BY <1>9 DEF TypeOK, TIM1_Update, ramp, profile, task
<1>10. CASE LoadPosition
  BY <1>10 DEF TypeOK, LoadPosition, Wrap, ramp, profile, task
<1>11. CASE StorePosition
  BY <1>11 DEF TypeOK, StorePosition, ramp, profile, task
<1>12. CASE Switch
  BY <1>12 DEF TypeOK, Switch, ramp, profile, task
<1>13. CASE NoCase
  BY <1>13 DEF TypeOK, NoCase, EndCase, ramp, profile, task
<1>14. PhaseOrigin \in U32
  BY DEF TypeOK, PhaseOrigin, Wrap
<1>15. CASE StartAccelerating
  BY <1>15, <1>14 DEF TypeOK, StartAccelerating, EndCase, profile, task
<1>16. CASE KeepAccelerating
  BY <1>16 DEF TypeOK, KeepAccelerating, EndCase, ramp, profile, task
<1>17. CASE NextAccelStep
  <2>1. NextFlag \in 0 .. Byte - 1
    BY DEF NextFlag, TypeOK
  <2>2. MotorCycleReal' \in Nat
    BY <1>17, <2>1, CycleReadType DEF NextAccelStep, TypeOK
  <2> QED
    BY <1>17, <2>1, <2>2 DEF TypeOK, NextAccelStep, EndCase, profile, task
<1>18. CASE EndAccelerating
  BY <1>18 DEF TypeOK, EndAccelerating, NextFlag, EndCase, profile, task
<1>19. CASE Cruise
  BY <1>19 DEF TypeOK, Cruise, EndCase, profile, task
<1>20. CASE StartDecelerating
  BY <1>20, <1>14, CycleReadType DEF TypeOK, StartDecelerating, EndCase, profile, task
<1>21. CASE KeepDecelerating
  BY <1>21 DEF TypeOK, KeepDecelerating, EndCase, ramp, profile, task
<1>22. CASE NextDecelStep
  <2>1. PrevFlag \in 0 .. Byte - 1
    BY DEF PrevFlag, TypeOK
  <2>2. MotorCycleReal' \in Nat
    BY <1>22, <2>1, CycleReadType DEF NextDecelStep
  <2> QED
    BY <1>22, <2>1, <2>2 DEF TypeOK, NextDecelStep, DecelStep, EndCase, profile, task
<1>23. CASE EndDecelerating
  BY <1>23 DEF TypeOK, EndDecelerating, DecelStep, PTO_Stop, PrevFlag, EndCase,
               profile, task
<1>24. CASE EXTI1
  BY <1>24 DEF TypeOK, EXTI1, LimitsMayFire, LimitStop, PTO_Stop, ramp, profile,
               task, isrvars
<1>25. CASE EXTI4
  BY <1>25 DEF TypeOK, EXTI4, LimitsMayFire, LimitStop, PTO_Stop, profile, task,
               isrvars
<1>26. CASE UNCHANGED vars
  BY <1>26 DEF TypeOK, vars, ramp, profile, task, isrvars
<1> QED
  BY <1>1, <1>2, <1>3, <1>4, <1>5, <1>6, <1>7, <1>8, <1>9, <1>10, <1>11, <1>12,
     <1>13, <1>15, <1>16, <1>17, <1>18, <1>19, <1>20, <1>21, <1>22, <1>23, <1>24,
     <1>25, <1>26, <1>27
     DEF Next, Call, TaskStep, TIM1_UP_IRQHandler

\* TypeOK is an invariant of the pulse generator.
THEOREM TypeCorrect == Spec => []TypeOK
<1>1. Init => TypeOK
  BY DEF Init, TypeOK, U32
<1> QED
  BY <1>1, TypeInductive, PTL DEF Spec

-----------------------------------------------------------------------------
(* The move invariant.                                                     *)

\* The sums of two levels of a ramp.
LEMMA SumOfLevels ==
    ASSUME NEW n \in 1 .. TableLen, NEW k \in 1 .. n
    PROVE  /\ Sum(n) \in Nat /\ Sum(k) \in Nat /\ Sum(k - 1) \in Nat
           /\ PulseNum_Buf[k - 1] \in Nat /\ PulseNum_Buf[k - 1] >= 2
           /\ Sum(k) = Sum(k - 1) + PulseNum_Buf[k - 1]
           /\ Sum(k) <= Sum(n)
<1>1. /\ k - 1 \in Steps /\ (k - 1) + 1 = k
      /\ k \in 0 .. TableLen /\ n \in 0 .. TableLen /\ k - 1 \in 0 .. TableLen
  BY DEF Steps
<1> QED
  BY <1>1, SumFacts

\* A running move has pulses left.
LEMMA PulsesLeft ==
    ASSUME TypeOK, Running, Profiled
    PROVE  Handled \in 0 .. rel - 1 /\ rel < Half
<1> DEFINE n == ACC_Status_Flag
<1> DEFINE k == tempflag
<1>1. /\ n \in 1 .. TableLen /\ PulseNum_ConstantVel \in Nat /\ Handled \in Int
      /\ rel > 0 /\ rel < Half /\ rel = 2 * Sum(n) + PulseNum_ConstantVel
      /\ k \in Nat
  BY DEF Profiled, TypeOK, U32, Handled
<1>2. Sum(n) \in Nat /\ Sum(n) >= 2
  <2>1. n \in 1 .. n
    BY <1>1
  <2> QED
    BY <1>1, <2>1, SumOfLevels
<1>3. CASE MotorActionState = 1 /\ Handled = 0
  BY <1>1, <1>3
<1>4. CASE k < n /\ Handled >= 1 /\ Handled < Sum(k + 1)
  <2>1. k + 1 \in 1 .. n
    BY <1>1, <1>4
  <2>2. Sum(k + 1) \in Nat /\ Sum(k + 1) <= Sum(n)
    BY <1>1, <2>1, SumOfLevels
  <2> QED
    BY <1>1, <1>2, <1>4, <2>2
<1>5. CASE Sum(n) <= Handled /\ Handled < Sum(n) + PulseNum_ConstantVel
  BY <1>1, <1>2, <1>5
<1>6. CASE Handled = Sum(n) + PulseNum_ConstantVel
  BY <1>1, <1>2, <1>6
<1>7. CASE /\ k \in 1 .. n
           /\ rel - Sum(k) <= Handled /\ Handled < rel - Sum(k - 1)
  <2>1. Sum(k) \in Nat /\ Sum(k - 1) \in Nat /\ Sum(k) <= Sum(n)
    BY <1>1, <1>7, SumOfLevels
  <2> QED
    BY <1>1, <1>2, <1>7, <2>1
<1> QED
  BY <1>3, <1>4, <1>5, <1>6, <1>7
     DEF Running, Phase, PhaseStart, PhaseAccelerate, PhaseCruise, PhaseTurn,
         PhaseDecelerate

\* What abs(PulseNum_Global - PulseNum_TEMP) measures during a move.
LEMMA TravelledIs ==
    ASSUME TypeOK, MotorDir # 0, out < Half,
           NEW a \in Nat, a <= out,
           PulseNum_TEMP = At(a), PulseNum_Global = At(out)
    PROVE  Travelled = out - a
<1>1. a \in 0 .. Half - 1 /\ out \in 0 .. Half - 1 /\ start \in U32
  BY DEF TypeOK
<1>2. CASE MotorDir = 1
  <2>1. Signed(Wrap(PulseNum_Global - PulseNum_TEMP)) = out - a
    BY <1>1, <1>2, Distance DEF At
  <2> QED
    BY <2>1, <1>1 DEF Travelled
<1>3. CASE MotorDir = 2
  <2>1. Signed(Wrap(PulseNum_Global - PulseNum_TEMP)) = a - out
    BY <1>1, <1>3, Distance DEF At
  <2> QED
    BY <2>1, <1>1 DEF Travelled
<1> QED
  BY <1>2, <1>3 DEF TypeOK

\* A phase begins one pulse before the current position.
LEMMA OriginIs ==
    ASSUME TypeOK, MotorDir # 0, out \in 1 .. Half, PulseNum_Global = At(out)
    PROVE  PhaseOrigin = At(out - 1)
<1>1. start \in U32 /\ out - 1 \in 0 .. Half - 1 /\ (out - 1) + 1 = out
  BY DEF TypeOK
<1> QED
  BY <1>1, Advance DEF PhaseOrigin, At, TypeOK

\* What is known of a running move when the switch of the interrupt runs.
LEMMA CaseFacts ==
    ASSUME TypeOK, OnCourse, move = "run", isr = "case"
    PROVE  /\ Running /\ Profiled /\ Phase
           /\ Handled = out - 1 /\ out \in 1 .. rel /\ rel < Half
           /\ PulseNum_Global = At(out) /\ PhaseOrigin = At(out - 1)
           /\ branch = MotorActionState
           /\ ACC_Status_Flag \in 1 .. TableLen /\ MotorDir # 0
           /\ PulseNum_ConstantVel \in Nat
           /\ rel = 2 * Sum(ACC_Status_Flag) + PulseNum_ConstantVel
<1>1. Running /\ Profiled
  BY DEF OnCourse
<1>2. Handled \in 0 .. rel - 1 /\ rel < Half
  BY <1>1, PulsesLeft
<1>3. Handled = out - 1 /\ Counted = out
  BY DEF Handled, Counted
<1>4. out \in 1 .. rel /\ out \in 1 .. Half
  BY <1>2, <1>3 DEF TypeOK
<1>5. PulseNum_Global = At(out) /\ MotorDir # 0 /\ branch = MotorActionState /\ Phase
  BY <1>1, <1>3 DEF Running
<1>6. PhaseOrigin = At(out - 1)
  BY <1>4, <1>5, OriginIs
<1> QED
  BY <1>1, <1>2, <1>3, <1>4, <1>5, <1>6 DEF Profiled, TypeOK, U32

\* A branch of the switch keeps the move on course when it keeps the phase.
LEMMA CaseKeeps ==
    ASSUME TypeOK, OnCourse, move = "run", isr = "case",
           isr' = "none", Phase',
           UNCHANGED << MotorDir, TIM1, profile, pc, task, PulseNum_Global, out >>
    PROVE  Running' /\ Profiled'
<1>1. Running /\ Profiled /\ PulseNum_Global = At(out)
  BY CaseFacts
<1>2. Profiled'
  BY <1>1 DEF Profiled, profile, task, Sum
<1>3. Counted' = out
  BY DEF Counted
<1> QED
  BY <1>1, <1>2, <1>3 DEF Running, At, task

\* Every branch of the switch keeps a running move on course, and the ramp stops
\* only where the move ends.
LEMMA SwitchOnCourse ==
    ASSUME TypeOK, OnCourse, move = "run", isr = "case"
    PROVE  /\ \/ NoCase \/ StartAccelerating \/ KeepAccelerating \/ NextAccelStep
              \/ EndAccelerating \/ Cruise \/ StartDecelerating
              \/ KeepDecelerating \/ NextDecelStep
              => Running' /\ Profiled'
           /\ EndDecelerating => Stopped'
<1> DEFINE n == ACC_Status_Flag
<1> DEFINE k == tempflag
<1> DEFINE cv == PulseNum_ConstantVel
<1>1. /\ Running /\ Profiled /\ Phase
      /\ Handled = out - 1 /\ out \in 1 .. rel /\ rel < Half
      /\ PulseNum_Global = At(out) /\ PhaseOrigin = At(out - 1)
      /\ branch = MotorActionState
      /\ n \in 1 .. TableLen /\ MotorDir # 0
      /\ cv \in Nat /\ rel = 2 * Sum(n) + cv
  BY CaseFacts
<1>2. /\ Sum(n) \in Nat /\ Sum(1) \in Nat /\ Sum(1) <= Sum(n)
      /\ Sum(1) >= 2 /\ Sum(0) = 0
  <2>1. 1 \in 1 .. n
    BY <1>1
  <2> QED
    BY <1>1, <2>1, SumOfLevels, SumFacts
<1>3. MotorActionState # 0
  BY <1>1
     DEF Phase, PhaseStart, PhaseAccelerate, PhaseCruise, PhaseTurn, PhaseDecelerate
<1>4. ~NoCase
  BY <1>1, <1>3 DEF NoCase, EndCase
<1>5. ASSUME StartAccelerating PROVE Running' /\ Profiled'
  <2>1. /\ EndCase(1) /\ tempflag' = 0 /\ PulseNum_TEMP' = At(out - 1)
        /\ MotorActionState' = 2
    BY <1>1, <1>5 DEF StartAccelerating
  <2>2. Handled = 0 /\ out = 1
    BY <1>1, <2>1 DEF EndCase, Phase, PhaseStart, PhaseAccelerate, PhaseCruise, PhaseTurn,
           PhaseDecelerate
  <2>3. Handled' = 1 /\ At(Sum(tempflag))' = At(out - 1) /\ Sum(tempflag)' = 0 /\ n' = n
        /\ Sum(tempflag + 1)' = Sum(1)
    BY <1>2, <2>1, <2>2, <1>5 DEF Handled, EndCase, At, Sum, StartAccelerating, task,
       profile
  <2>4. PhaseAccelerate'
    BY <1>1, <1>2, <2>1, <2>2, <2>3 DEF PhaseAccelerate
  <2> QED
    BY <2>4, <1>5, CaseKeeps DEF StartAccelerating, EndCase, Phase
<1>6. ASSUME EndCase(2)
      PROVE  /\ k < n /\ k \in 0 .. TableLen - 1
             /\ Sum(k) \in Nat /\ Sum(k + 1) = Sum(k) + PulseNum_Buf[k]
             /\ Sum(k + 1) <= Sum(n) /\ PulseNum_Buf[k] \in Nat
             /\ Sum(k) < out /\ out <= Sum(k + 1) /\ 2 <= out
             /\ PulseNum_TEMP = At(Sum(k))
             /\ Travelled = out - Sum(k)
             /\ PulseRead(k) = {PulseNum_Buf[k]}
             /\ Wrap(PulseNum_Buf[k] - 1) = PulseNum_Buf[k] - 1
  <2>1. /\ k < n /\ PulseNum_TEMP = At(Sum(k)) /\ Handled >= 1
        /\ Sum(k) <= Handled /\ Handled < Sum(k + 1) /\ k \in Nat
    BY <1>1, <1>6 DEF EndCase, Phase, PhaseStart, PhaseAccelerate, PhaseCruise, PhaseTurn,
           PhaseDecelerate, TypeOK
  <2>2. k + 1 \in 1 .. n /\ (k + 1) - 1 = k
    BY <1>1, <2>1
  <2>3. /\ Sum(k) \in Nat /\ Sum(k + 1) = Sum(k) + PulseNum_Buf[k]
        /\ Sum(k + 1) <= Sum(n) /\ PulseNum_Buf[k] \in Nat
    BY <1>1, <2>2, SumOfLevels
  <2>4. Sum(k) < out /\ out <= Sum(k + 1) /\ 2 <= out /\ out < Half
    BY <1>1, <2>1, <2>3
  <2>5. Travelled = out - Sum(k)
    BY <1>1, <2>1, <2>3, <2>4, TravelledIs
  <2>6. k \in Steps
    BY <1>1, <2>1 DEF Steps
  <2>7. Wrap(PulseNum_Buf[k] - 1) = PulseNum_Buf[k] - 1
    BY <2>6, TableAssumption DEF RampTables, Wrap
  <2> QED
    BY <2>1, <2>2, <2>3, <2>4, <2>5, <2>6, <2>7, <1>1 DEF PulseRead
<1>7. ASSUME KeepAccelerating PROVE Running' /\ Profiled'
  <2>1. EndCase(2) /\ Travelled <= PulseNum_Buf[k] - 1
    BY <1>6, <1>7 DEF KeepAccelerating, AccelWithinStep
  <2>2. Handled' = out /\ out < Sum(k + 1)
    BY <1>1, <1>6, <2>1 DEF EndCase, Handled
  <2>3. /\ Sum(tempflag)' = Sum(k) /\ Sum(tempflag + 1)' = Sum(k + 1) /\ k' = k
        /\ At(Sum(tempflag))' = At(Sum(k)) /\ n' = n /\ MotorActionState' = 2
        /\ PulseNum_TEMP' = PulseNum_TEMP
    BY <1>1, <1>7, <2>1 DEF KeepAccelerating, ramp, EndCase, task, profile, At, Sum
  <2>4. PhaseAccelerate'
    BY <1>1, <1>6, <2>1, <2>2, <2>3 DEF PhaseAccelerate
  <2> QED
    BY <2>1, <2>4, <1>7, CaseKeeps DEF KeepAccelerating, EndCase, ramp, Phase
<1>8. ASSUME EndCase(2), AccelStep
      PROVE  out = Sum(k + 1) /\ NextFlag = k + 1
  BY <1>1, <1>6, <1>8 DEF AccelStep, NextFlag
<1>9. ASSUME NextAccelStep PROVE Running' /\ Profiled'
  <2>1. /\ EndCase(2) /\ AccelStep /\ k + 1 # n /\ out = Sum(k + 1)
        /\ tempflag' = k + 1 /\ MotorActionState' = 2 /\ PulseNum_TEMP' = At(out)
    BY <1>1, <1>6, <1>8, <1>9 DEF NextAccelStep, EndCase
  <2>2. Handled' = out /\ k + 2 \in 1 .. n /\ (k + 2) - 1 = k + 1
    BY <1>1, <1>6, <2>1 DEF EndCase, Handled
  <2>3. Sum(k + 1) < Sum(k + 2) /\ Sum(k + 2) \in Nat
    BY <1>1, <2>2, SumOfLevels
  <2>4. /\ Sum(tempflag)' = Sum(k + 1) /\ Sum(tempflag + 1)' = Sum(k + 2) /\ n' = n
        /\ At(Sum(tempflag))' = At(out)
    BY <1>6, <1>9, <2>1 DEF Sum, At, NextAccelStep, EndCase, task, profile
  <2>5. PhaseAccelerate'
    BY <1>1, <1>6, <2>1, <2>2, <2>3, <2>4 DEF PhaseAccelerate
  <2> QED
    BY <2>5, <1>9, CaseKeeps DEF NextAccelStep, EndCase, Phase
<1>10. ASSUME EndAccelerating PROVE Running' /\ Profiled'
  <2>1. /\ EndCase(2) /\ AccelStep /\ k + 1 = n /\ out = Sum(n)
        /\ PulseNum_TEMP' = At(out)
    BY <1>1, <1>8, <1>10 DEF EndAccelerating
  <2>2. Handled' = out /\ n' = n /\ cv' = cv /\ Sum(n)' = Sum(n) /\ At(Sum(n))' = At(out)
    BY <1>10, <2>1 DEF EndAccelerating, EndCase, Handled, Sum, profile, At, task
  <2>3. Phase'
    <3>1. CASE cv = 0 /\ MotorActionState' = 4
      BY <1>1, <1>2, <2>1, <2>2, <3>1 DEF Phase, PhaseTurn
    <3>2. CASE cv # 0 /\ MotorActionState' = 3
      BY <1>1, <1>2, <2>1, <2>2, <3>2 DEF Phase, PhaseCruise
    <3> QED
      BY <1>10, <3>1, <3>2 DEF EndAccelerating
  <2> QED
    BY <2>3, <1>10, CaseKeeps DEF EndAccelerating, EndCase
<1>11. ASSUME Cruise PROVE Running' /\ Profiled'
  <2>1. /\ EndCase(3) /\ PulseNum_TEMP = At(Sum(n))
        /\ Sum(n) < out /\ out <= Sum(n) + cv
    BY <1>1, <1>2, <1>11 DEF Cruise, EndCase, Phase, PhaseStart, PhaseAccelerate, PhaseCruise, PhaseTurn,
           PhaseDecelerate
  <2>2. Travelled = out - Sum(n)
    BY <1>1, <1>2, <2>1, TravelledIs
  <2>3. Wrap(cv - 1) = cv - 1
    BY <1>1, <1>2, <2>1 DEF Wrap
  <2>4. /\ Handled' = out /\ n' = n /\ cv' = cv /\ Sum(n)' = Sum(n)
        /\ At(Sum(n))' = At(Sum(n)) /\ PulseNum_TEMP' = PulseNum_TEMP
    BY <1>11, <2>1 DEF Cruise, EndCase, Handled, Sum, profile, At, task
  <2>5. CASE Travelled > Wrap(cv - 1)
    <3>1. MotorActionState' = 4 /\ out = Sum(n) + cv
      BY <1>1, <1>2, <1>11, <2>1, <2>2, <2>3, <2>5 DEF Cruise
    <3>2. Phase'
      BY <1>1, <1>2, <2>4, <3>1 DEF Phase, PhaseTurn
    <3> QED
      BY <3>2, <1>11, CaseKeeps DEF Cruise, EndCase
  <2>6. CASE ~(Travelled > Wrap(cv - 1))
    <3>1. MotorActionState' = 3 /\ out < Sum(n) + cv
      BY <1>1, <1>2, <1>11, <2>1, <2>2, <2>3, <2>6 DEF Cruise, EndCase
    <3>2. Phase'
      BY <1>1, <1>2, <2>1, <2>4, <3>1 DEF Phase, PhaseCruise
    <3> QED
      BY <3>2, <1>11, CaseKeeps DEF Cruise, EndCase
  <2> QED
    BY <2>5, <2>6
<1>12. ASSUME StartDecelerating PROVE Running' /\ Profiled'
  <2>1. /\ EndCase(4) /\ tempflag' = n /\ PulseNum_TEMP' = At(out - 1)
        /\ MotorActionState' = 5 /\ out - 1 = Sum(n) + cv
    BY <1>1, <1>12 DEF StartDecelerating, EndCase, Phase, PhaseStart, PhaseAccelerate, PhaseCruise, PhaseTurn,
           PhaseDecelerate, Profiled
  <2>2. n \in 1 .. n
    BY <1>1
  <2>3. Sum(n - 1) \in Nat /\ Sum(n) - Sum(n - 1) >= 2
    BY <1>1, <2>2, SumOfLevels
  <2>4. /\ Handled' = out /\ n' = n /\ rel' = rel
        /\ Sum(tempflag)' = Sum(n) /\ Sum(tempflag - 1)' = Sum(n - 1)
        /\ At(out - 1)' = At(out - 1)
    BY <1>12, <2>1 DEF StartDecelerating, EndCase, Handled, Sum, profile, At, task
  <2>5. rel - Sum(n) = out - 1
    BY <1>1, <1>2, <2>1
  <2>6. At(rel - Sum(tempflag))' = At(out - 1)
    BY <1>12, <2>1, <2>4, <2>5 DEF At, StartDecelerating, EndCase, task
  <2>7. Phase'
    BY <1>1, <1>2, <2>1, <2>2, <2>3, <2>4, <2>5, <2>6 DEF Phase, PhaseDecelerate
  <2> QED
    BY <2>7, <1>12, CaseKeeps DEF StartDecelerating, EndCase
<1>13. ASSUME EndCase(5)
       PROVE  /\ k \in 1 .. n
              /\ Sum(k) \in Nat /\ Sum(k - 1) \in Nat /\ Sum(k) <= Sum(n)
              /\ Sum(k) = Sum(k - 1) + PulseNum_Buf[k - 1]
              /\ PulseNum_Buf[k - 1] \in Nat
              /\ rel - Sum(k) < out /\ out <= rel - Sum(k - 1)
              /\ PulseNum_TEMP = At(rel - Sum(k))
              /\ Travelled = out - (rel - Sum(k))
              /\ PulseRead(k - 1) = {PulseNum_Buf[k - 1]}
              /\ Wrap(PulseNum_Buf[k - 1] - 1) = PulseNum_Buf[k - 1] - 1
  <2>1. /\ k \in 1 .. n /\ PulseNum_TEMP = At(rel - Sum(k))
        /\ rel - Sum(k) <= Handled /\ Handled < rel - Sum(k - 1)
    BY <1>1, <1>13 DEF EndCase, Phase, PhaseStart, PhaseAccelerate, PhaseCruise, PhaseTurn,
           PhaseDecelerate
  <2>2. /\ Sum(k) \in Nat /\ Sum(k - 1) \in Nat /\ Sum(k) <= Sum(n)
        /\ Sum(k) = Sum(k - 1) + PulseNum_Buf[k - 1]
        /\ PulseNum_Buf[k - 1] \in Nat
    BY <1>1, <2>1, SumOfLevels
  <2>3. rel - Sum(k) < out /\ out <= rel - Sum(k - 1) /\ rel - Sum(k) \in Nat
    BY <1>1, <1>2, <2>1, <2>2
  <2>4. Travelled = out - (rel - Sum(k))
    BY <1>1, <2>1, <2>3, TravelledIs
  <2>5. k - 1 \in Steps
    BY <1>1, <2>1 DEF Steps
  <2>6. Wrap(PulseNum_Buf[k - 1] - 1) = PulseNum_Buf[k - 1] - 1
    BY <2>5, TableAssumption DEF RampTables, Wrap
  <2> QED
    BY <2>1, <2>2, <2>3, <2>4, <2>5, <2>6 DEF PulseRead
<1>14. ASSUME KeepDecelerating PROVE Running' /\ Profiled'
  <2>1. EndCase(5) /\ Travelled <= PulseNum_Buf[k - 1] - 1
    BY <1>13, <1>14 DEF KeepDecelerating
  <2>2. Handled' = out /\ out < rel - Sum(k - 1)
    BY <1>1, <1>13, <2>1 DEF EndCase, Handled
  <2>3. /\ Sum(tempflag)' = Sum(k) /\ Sum(tempflag - 1)' = Sum(k - 1) /\ k' = k
        /\ At(rel - Sum(tempflag))' = At(rel - Sum(k)) /\ n' = n /\ rel' = rel
        /\ MotorActionState' = 5 /\ PulseNum_TEMP' = PulseNum_TEMP
    BY <1>1, <1>14, <2>1 DEF KeepDecelerating, ramp, EndCase, task, profile, At, Sum
  <2>4. PhaseDecelerate'
    BY <1>1, <1>13, <2>1, <2>2, <2>3 DEF PhaseDecelerate
  <2> QED
    BY <2>1, <2>4, <1>14, CaseKeeps DEF KeepDecelerating, EndCase, ramp, Phase
<1>15. ASSUME DecelStep
       PROVE  /\ EndCase(5) /\ out = rel - Sum(k - 1) /\ PrevFlag = k - 1
              /\ tempflag' = k - 1 /\ PulseNum_TEMP' = At(out)
  BY <1>1, <1>13, <1>15 DEF DecelStep, PrevFlag
<1>16. ASSUME NextDecelStep PROVE Running' /\ Profiled'
  <2>1. /\ EndCase(5) /\ out = rel - Sum(k - 1) /\ tempflag' = k - 1 /\ k - 1 > 0
        /\ PulseNum_TEMP' = At(out) /\ MotorActionState' = 5
    BY <1>1, <1>15, <1>16 DEF NextDecelStep, EndCase
  <2>2. k - 1 \in 1 .. n
    BY <1>1, <1>13, <2>1
  <2>3. Sum(k - 1) \in Nat /\ Sum((k - 1) - 1) \in Nat /\ Sum((k - 1) - 1) < Sum(k - 1)
    BY <1>1, <2>2, SumOfLevels
  <2>4. /\ Handled' = out /\ n' = n /\ rel' = rel
        /\ Sum(tempflag)' = Sum(k - 1) /\ Sum(tempflag - 1)' = Sum((k - 1) - 1)
        /\ At(rel - Sum(tempflag))' = At(out)
    BY <1>16, <2>1
       DEF NextDecelStep, DecelStep, EndCase, Handled, Sum, profile, At, task
  <2>5. Phase'
    BY <1>1, <2>1, <2>2, <2>3, <2>4 DEF Phase, PhaseDecelerate
  <2> QED
    BY <2>5, <1>16, CaseKeeps DEF NextDecelStep, DecelStep, EndCase
<1>17. ASSUME EndDecelerating PROVE Stopped'
  <2>1. EndCase(5) /\ out = rel - Sum(k - 1) /\ PrevFlag = k - 1 /\ DecelStep
    BY <1>15, <1>17 DEF EndDecelerating
  <2>2. k - 1 = 0
    BY <1>17, <2>1 DEF EndDecelerating
  <2>3. Sum(k - 1) = 0
    BY <1>2, <2>2
  <2>4. out = rel
    BY <1>1, <2>1, <2>3
  <2>5. PulseNum_Global = goal
    BY <1>1, <2>4 DEF Running
  <2> QED
    BY <1>1, <1>17, <2>1, <2>4, <2>5
       DEF Stopped, EndDecelerating, EndCase, PTO_Stop, task, Running
<1> QED
  BY <1>4, <1>5, <1>7, <1>9, <1>10, <1>11, <1>12, <1>14, <1>16, <1>17

\* Each statement of PTO_HZ_NUM keeps the move on course, up to the start of the
\* timer.
LEMMA CommandOnCourse ==
    ASSUME TypeOK, OnCourse,
           \/ ReadPosition \/ SetDirection \/ Plan \/ NoMove
           \/ StartRamp \/ StartCycle \/ StartTimer
    PROVE  OnCourse'
<1> USE DEF ENABLE, DISABLE
<1>1. CASE ReadPosition
  <2>1. move' = "armed" => Armed' /\ pc' \notin Starting
    BY <1>1 DEF ReadPosition, Armed, TypeOK, ramp, profile, isrvars, OnCourse, Starting
  <2> QED
    BY <1>1, <2>1 DEF ReadPosition, OnCourse
<1>2. CASE SetDirection
  <2>1. move' = "armed" => Armed' /\ pc' \notin Starting
    <3> SUFFICES ASSUME move = "armed"
                 PROVE  Armed' /\ pc' \notin Starting
      BY <1>2 DEF SetDirection
    <3>1. /\ Armed /\ rel = Signed(Wrap(goal - start)) /\ goal \in U32 /\ start \in U32
          /\ rel \in -Half .. Half - 1
      BY <1>2 DEF SetDirection, OnCourse, Armed, TypeOK
    <3>2. /\ rel >= 0 => goal = Wrap(start + rel)
          /\ rel < 0 => goal = Wrap(start - (-rel))
      BY <3>1, Reaches
    <3>3. rel' >= 0 => goal = At(rel)'
      <4>1. CASE rel = 0
        BY <1>2, <3>1, <3>2, <4>1 DEF SetDirection, At, Wrap, U32
      <4>2. CASE rel > 0
        BY <1>2, <3>1, <3>2, <4>2 DEF SetDirection, At
      <4>3. CASE rel < 0
        BY <1>2, <3>1, <3>2, <4>3 DEF SetDirection, At, Negate
      <4> QED
        BY <3>1, <4>1, <4>2, <4>3
    <3> QED
      BY <1>2, <3>1, <3>3 DEF SetDirection, Armed, profile, isrvars, Starting
  <2> QED
    BY <1>2, <2>1
       DEF SetDirection, OnCourse, Running, Stopped
<1>3. CASE Plan
  <2>1. move' = "armed" => Armed' /\ Profiled' /\ MotorDir' # 0
    <3> SUFFICES ASSUME move' = "armed"
                 PROVE  Armed' /\ Profiled' /\ MotorDir' # 0
      OBVIOUS
    <3>0. PICK s \in SumsRead, l \in 1 .. ACC_Status_Flag :
               /\ Suits(l, s)
               /\ ACC_Status_Flag' = l
               /\ DEC_Status_Flag' = l
               /\ PulseNum_ConstantVel' = Wrap(rel - 2 * s[l - 1])
               /\ move' = IF move = "armed" /\ l > TableLen THEN "broken" ELSE move
      BY <1>3 DEF Plan
    <3>9. move = "armed" /\ ~(l > TableLen) /\ l - 1 \in 0 .. ACC_Status_Flag - 1
      BY <3>0 DEF TypeOK
    <3>1. l \in 1 .. TableLen /\ l - 1 \in Steps /\ rel \in -Half .. Half - 1
      BY <3>9 DEF TypeOK, Steps
    <3>2. s[l - 1] \in Nat /\ Sum(l) = s[l - 1]
      BY <3>1, <3>9, SumsReadType DEF Sum
    <3>3. rel # 0 /\ rel - 2 * s[l - 1] >= 0
      BY <3>0, <3>1, <3>2 DEF Suits
    <3>4. Wrap(rel - 2 * s[l - 1]) = rel - 2 * s[l - 1]
      BY <3>1, <3>2, <3>3 DEF Wrap
    <3>5. Armed /\ pc = "plan" /\ MotorDir # 0
      BY <1>3, <3>3, <3>9 DEF Plan, OnCourse, Armed
    <3>6. Sum(ACC_Status_Flag)' = Sum(l)
      BY <3>0 DEF Sum
    <3>7. rel' = rel /\ rel > 0
      BY <1>3, <3>1, <3>2, <3>3 DEF Plan, task
    <3>8. Profiled'
      BY <3>0, <3>1, <3>2, <3>4, <3>6, <3>7 DEF Profiled
    <3> QED
      BY <1>3, <3>5, <3>8 DEF Plan, Armed, At, ramp, task, isrvars, Starting
  <2>2. move' # "run" /\ move' # "done"
    BY <1>3 DEF Plan, OnCourse, Running, Stopped
  <2> QED
    BY <2>1, <2>2 DEF OnCourse
<1>4. CASE NoMove
  BY <1>4 DEF NoMove, OnCourse, Running, Stopped
<1>5. CASE StartRamp \/ StartCycle
  <2>1. /\ move' = move /\ pc \in Starting /\ pc' \in Starting
        /\ pc # "idle" /\ pc' # "idle"
        /\ UNCHANGED << MotorDir, TIM1, profile, task, isrvars, PulseNum_Global >>
    BY <1>5 DEF StartRamp, StartCycle, Starting
  <2>2. move # "run" /\ move # "done"
    BY <2>1 DEF OnCourse, Running, Stopped
  <2>3. ASSUME move = "armed" PROVE Armed' /\ Profiled' /\ MotorDir' # 0
    <3>1. Armed /\ Profiled /\ MotorDir # 0
      BY <2>1, <2>3 DEF OnCourse
    <3>2. /\ pc' = "cycle" => MotorActionState' = 1
          /\ pc' = "enable" => MotorActionState' = MotorActionState /\ pc = "cycle"
      BY <1>5 DEF StartRamp, StartCycle
    <3>3. pc' = "enable" => MotorCycleReal' = 1
      <4>1. 0 \in Steps /\ 0 + 1 = 1
        BY DEF Steps
      <4> QED
        BY <1>5, <4>1, CycleReadType DEF StartRamp, StartCycle
    <3>4. pc' # "dir" /\ pc # "dir"
      BY <2>1 DEF Starting
    <3> QED
      BY <2>1, <3>1, <3>2, <3>3, <3>4
         DEF Armed, Profiled, At, Sum, profile, task, isrvars, Starting
  <2> QED
    BY <2>1, <2>2, <2>3 DEF OnCourse
<1>6. CASE StartTimer
  <2>1. ASSUME move = "armed" PROVE Running' /\ Profiled'
    <3>1. Armed /\ Profiled /\ MotorDir # 0 /\ pc = "enable"
      BY <1>6, <2>1 DEF StartTimer, OnCourse, Starting
    <3>2. /\ start \in U32 /\ rel > 0 /\ goal = At(rel) /\ PinE0 = MotorDir
          /\ PulseNum_Global = start /\ MotorDir \in 1 .. 2 /\ rel \in Int
          /\ MotorActionState = 1
      BY <3>1 DEF Armed, Profiled, TypeOK
    <3>3. Profiled'
      BY <1>6, <3>1 DEF StartTimer, Profiled, profile, task, Sum
    <3>4. PhaseStart' /\ Counted' = 0 /\ isr' = "none"
      BY <1>6, <3>2 DEF StartTimer, PhaseStart, Handled, Counted, isrvars
    <3>5. PulseNum_Global' = At(Counted)'
      BY <1>6, <3>2, <3>4 DEF StartTimer, At, Wrap, task, U32
    <3> QED
      BY <1>6, <3>2, <3>3, <3>4, <3>5 DEF StartTimer, Running, Phase, At, task
  <2>2. move # "run" /\ move # "done"
    BY <1>6 DEF StartTimer, OnCourse, Running, Stopped
  <2> QED
    BY <1>6, <2>1, <2>2 DEF StartTimer, OnCourse
<1> QED
  BY <1>1, <1>2, <1>3, <1>4, <1>5, <1>6

\* A pulse and the counting of it keep a running move on course.
LEMMA PulseOnCourse ==
    ASSUME TypeOK, OnCourse, move = "run",
           TIM1_Update \/ LoadPosition \/ StorePosition \/ Switch
    PROVE  Running' /\ Profiled'
<1>1. /\ Running /\ Profiled /\ MotorDir \in 1 .. 2 /\ start \in U32
      /\ Handled \in 0 .. rel - 1 /\ rel < Half /\ out \in Nat /\ rel \in Int
  <2>1. Running /\ Profiled
    BY DEF OnCourse
  <2> QED
    BY <2>1, PulsesLeft DEF Running, TypeOK
<1>2. Profiled'
  BY <1>1 DEF TIM1_Update, LoadPosition, StorePosition, Switch, Profiled, profile,
              task, Sum
<1>3. Handled' = Handled
  BY <1>1 DEF TIM1_Update, LoadPosition, StorePosition, Switch, Handled
<1>4. UNCHANGED << MotorActionState, MotorDir, TIM1, ACC_Status_Flag,
                   PulseNum_ConstantVel, pc, goal, rel, PinE0, start,
                   PulseNum_TEMP, tempflag >>
  BY DEF TIM1_Update, LoadPosition, StorePosition, Switch, ramp, profile, task
<1>5. Phase'
  BY <1>1, <1>3, <1>4 DEF Running, Phase, PhaseStart, PhaseAccelerate, PhaseCruise,
     PhaseTurn, PhaseDecelerate, At, Sum
<1>6. CASE TIM1_Update
  <2>1. isr' = "enter" /\ out' = out + 1 /\ Counted' = out /\ Counted = out
    BY <1>1, <1>6 DEF TIM1_Update, Counted, Handled
  <2> QED
    BY <1>1, <1>2, <1>4, <1>5, <1>6, <2>1 DEF Running, TIM1_Update, At
<1>7. CASE LoadPosition
  <2>1. /\ isr = "enter" /\ isr' = "count" /\ out' = out /\ out >= 1
        /\ Counted = out - 1 /\ Counted' = out - 1 /\ out - 1 \in 0 .. Half - 1
    BY <1>1, <1>7 DEF LoadPosition, Counted, Handled, Running
  <2>2. reg' = At(out)
    BY <1>1, <1>7, <2>1, Advance DEF LoadPosition, Running, At
  <2> QED
    BY <1>1, <1>2, <1>4, <1>5, <1>7, <2>1, <2>2 DEF Running, LoadPosition, At
<1>8. CASE StorePosition
  <2>1. isr' = "switch" /\ out' = out /\ Counted' = out /\ PulseNum_Global' = At(out)
    BY <1>1, <1>8 DEF StorePosition, Counted, Running
  <2> QED
    BY <1>1, <1>2, <1>4, <1>5, <1>8, <2>1 DEF Running, StorePosition, At
<1>9. CASE Switch
  <2>1. isr' = "case" /\ out' = out /\ Counted' = out /\ Counted = out
    BY <1>1, <1>9 DEF Switch, Counted
  <2> QED
    BY <1>1, <1>2, <1>4, <1>5, <1>9, <2>1 DEF Running, Switch, At
<1> QED
  BY <1>6, <1>7, <1>8, <1>9

\* The invariant is inductive.
LEMMA OnCourseInductive ==
    TypeOK /\ OnCourse /\ [Next]_vars => OnCourse'
<1> SUFFICES ASSUME TypeOK, OnCourse, [Next]_vars
             PROVE  OnCourse'
  OBVIOUS
<1>1. CASE Call
  BY <1>1 DEF Call, HzNum, Home, OnCourse
<1>2. CASE \/ ReadPosition \/ SetDirection \/ Plan \/ NoMove
           \/ StartRamp \/ StartCycle \/ StartTimer
  BY <1>2, CommandOnCourse
<1>3. CASE HomeCycle
  BY <1>3 DEF HomeCycle, OnCourse, Armed, Running, Stopped, Starting
<1>4. CASE TIM1_Update \/ LoadPosition \/ StorePosition \/ Switch
  <2>1. move' = move
    BY <1>4 DEF TIM1_Update, LoadPosition, StorePosition, Switch
  <2>2. move # "armed" /\ move # "done"
    BY <1>4 DEF TIM1_Update, LoadPosition, StorePosition, Switch, OnCourse, Armed,
       Stopped, ENABLE, DISABLE
  <2> QED
    BY <1>4, <2>1, <2>2, PulseOnCourse DEF OnCourse
<1>5. CASE \/ NoCase \/ StartAccelerating \/ KeepAccelerating \/ NextAccelStep
           \/ EndAccelerating \/ Cruise \/ StartDecelerating
           \/ KeepDecelerating \/ NextDecelStep
  <2>1. move' = move /\ isr = "case"
    BY <1>5 DEF NoCase, StartAccelerating, KeepAccelerating, NextAccelStep,
       EndAccelerating, Cruise, StartDecelerating, KeepDecelerating, NextDecelStep,
       DecelStep, EndCase
  <2>2. move # "armed" /\ move # "done"
    BY <2>1 DEF OnCourse, Armed, Stopped
  <2> QED
    BY <1>5, <2>1, <2>2, SwitchOnCourse DEF OnCourse
<1>6. CASE EndDecelerating
  <2>1. isr = "case" /\ move' = IF move = "run" THEN "done" ELSE move
    BY <1>6 DEF EndDecelerating, DecelStep, EndCase
  <2>2. move # "armed" /\ move # "done"
    BY <2>1 DEF OnCourse, Armed, Stopped
  <2> QED
    BY <1>6, <2>1, <2>2, SwitchOnCourse DEF OnCourse
<1>7. CASE EXTI1 \/ EXTI4
  BY <1>7 DEF EXTI1, EXTI4, LimitStop, OnCourse
<1>8. CASE UNCHANGED vars
  BY <1>8 DEF vars, ramp, profile, task, isrvars, OnCourse, Armed, Profiled, Running,
     Stopped, Phase, PhaseStart, PhaseAccelerate, PhaseCruise, PhaseTurn,
     PhaseDecelerate, Counted, Handled, At, Sum
<1> QED
  BY <1>1, <1>2, <1>3, <1>4, <1>5, <1>6, <1>7, <1>8
     DEF Next, TaskStep, TIM1_UP_IRQHandler

\* Every move the callers start is on course in every reachable state, under any
\* interleaving of the task, the timer and the limit interrupts.
THEOREM MoveOnCourse == Spec => []OnCourse
<1>1. Init => OnCourse
  BY DEF Init, OnCourse
<1> QED
  BY <1>1, OnCourseInductive, TypeCorrect, PTL DEF Spec

\* The indices of MotorCycle_Buf and PulseNum_Buf in the switch.
IndicesInTables ==
    move = "run" /\ isr = "case" =>
        /\ branch = 2 => /\ tempflag \in Steps
                         /\ NextFlag < ACC_Status_Flag => NextFlag \in Steps
        /\ branch = 4 => DEC_Status_Flag - 1 \in Steps
        /\ branch = 5 => /\ tempflag - 1 \in Steps
                         /\ PrevFlag > 0 => PrevFlag - 1 \in Steps

\* Nothing checks the frequency a caller asks for, and a level beyond the tables
\* has the handler index beyond them.  A move that is planned within them, and that
\* nothing interferes with, never does (TIM1_UP_IRQHandler).
THEOREM RampWithinTables == Spec => []IndicesInTables
<1>1. TypeOK /\ OnCourse => IndicesInTables
  <2> SUFFICES ASSUME TypeOK, OnCourse, move = "run", isr = "case"
               PROVE  IndicesInTables
    BY DEF IndicesInTables
  <2>1. /\ Profiled /\ Phase /\ branch = MotorActionState
        /\ ACC_Status_Flag \in 1 .. TableLen /\ DEC_Status_Flag = ACC_Status_Flag
    BY CaseFacts DEF Profiled
  <2>2. tempflag \in 0 .. Byte - 1
    BY DEF TypeOK
  <2>3. ASSUME branch = 2
        PROVE  tempflag \in Steps /\ (NextFlag < ACC_Status_Flag => NextFlag \in Steps)
    <3>1. tempflag < ACC_Status_Flag
      BY <2>1, <2>3 DEF Phase, PhaseStart, PhaseAccelerate, PhaseCruise, PhaseTurn,
         PhaseDecelerate
    <3> QED
      BY <2>1, <2>2, <3>1 DEF NextFlag, Steps
  <2>4. DEC_Status_Flag - 1 \in Steps
    BY <2>1 DEF Steps
  <2>5. ASSUME branch = 5
        PROVE  tempflag - 1 \in Steps /\ (PrevFlag > 0 => PrevFlag - 1 \in Steps)
    <3>1. tempflag \in 1 .. ACC_Status_Flag
      BY <2>1, <2>5 DEF Phase, PhaseStart, PhaseAccelerate, PhaseCruise, PhaseTurn,
         PhaseDecelerate
    <3> QED
      BY <2>1, <3>1 DEF PrevFlag, Steps
  <2> QED
    BY <2>3, <2>4, <2>5 DEF IndicesInTables
<1> QED
  BY <1>1, MoveOnCourse, TypeCorrect, PTL

\* A move that nothing interferes with ends exactly at its goal.
THEOREM MovesAreExact == Spec => []MoveExact
<1>1. OnCourse => MoveExact
  BY DEF OnCourse, MoveExact, Stopped
<1> QED
  BY <1>1, MoveOnCourse, PTL

-----------------------------------------------------------------------------
(* The generator implements PositionMove.                                  *)

\* A step after which no move is running or done is an interference.
LEMMA StepInterferes ==
    ASSUME TypeOK', move' # "run", move' # "done"
    PROVE  Promise!Interfere
BY DEF Promise!Interfere, Left, Fate, TypeOK, U32

\* A running move takes a pulse, stutters, finishes, or is lost.
LEMMA RunningStep ==
    ASSUME TypeOK, TypeOK', OnCourse, OnCourse', [Next]_vars, move = "run"
    PROVE  Promise!MoveNext \/ UNCHANGED Promise!mvars
<1>1. Running /\ Profiled /\ MotorDir \in 1 .. 2 /\ Counted \in Int /\ rel \in Int
  BY DEF OnCourse, Running, Counted, TypeOK
<1>2. CASE StorePosition
  <2>1. /\ isr = "count" /\ isr' = "switch" /\ out' = out /\ PulseNum_Global' = reg
        /\ UNCHANGED << MotorDir, move, rel, start >>
    BY <1>2 DEF StorePosition, ramp, task
  <2>2. /\ Counted = out - 1 /\ Counted' = out /\ reg = At(out)
        /\ PulseNum_Global = At(out - 1) /\ Handled = out - 1
    BY <1>1, <2>1 DEF Counted, Handled, Running
  <2>3. out - 1 \in 0 .. rel - 1 /\ rel < Half
    BY <1>1, <2>2, PulsesLeft
  <2>4. start \in U32 /\ out \in Int
    BY DEF TypeOK
  <2>5. /\ MotorDir = 1 => Wrap(start + out) = Promise!Up(Wrap(start + (out - 1)))
        /\ MotorDir = 2 => Wrap(start - out) = Promise!Down(Wrap(start - (out - 1)))
    <3>1. out \in 1 .. Half - 1
      BY <1>1, <2>3, <2>4
    <3> QED
      BY <3>1, <2>4 DEF Wrap, Promise!Up, Promise!Down, U32
  <2>6. /\ MotorDir = 1 => PulseNum_Global' = Promise!Up(PulseNum_Global)
        /\ MotorDir = 2 => PulseNum_Global' = Promise!Down(PulseNum_Global)
    BY <2>1, <2>2, <2>5 DEF At
  <2>7. rel - Counted > 0 /\ rel' - Counted' = (rel - Counted) - 1
    BY <1>1, <2>1, <2>2, <2>3, <2>4
  <2>8. Promise!Pulse
    BY <1>1, <2>1, <2>6, <2>7 DEF Promise!Pulse, Left, Fate
  <2> QED
    BY <2>8 DEF Promise!MoveNext
<1>3. CASE EndDecelerating
  <2>1. Stopped' /\ Counted = out /\ out' = out /\ rel' = rel /\ out \in Int
    BY <1>3, SwitchOnCourse
       DEF EndDecelerating, DecelStep, EndCase, Counted, task, TypeOK
  <2>2. PulseNum_Global' = PulseNum_Global /\ move' = "done" /\ isr = "case"
    BY <1>3 DEF EndDecelerating, DecelStep, EndCase
  <2>3. rel - Counted = 0
    <3>1. rel = Counted
      BY <2>1 DEF Stopped
    <3> QED
      BY <1>1, <3>1
  <2>4. Promise!Finish
    BY <2>2, <2>3 DEF Promise!Finish, Left, Fate
  <2> QED
    BY <2>4 DEF Promise!MoveNext
<1>4. CASE move' = "broken" \/ move' = "none" \/ move' = "homed"
  BY <1>4, StepInterferes DEF Promise!MoveNext
<1>5. CASE TIM1_Update
  <2>1. Counted' = Counted
    BY <1>1, <1>5, PulsesLeft DEF TIM1_Update, Counted, Handled, TypeOK
  <2> QED
    BY <1>5, <2>1 DEF TIM1_Update, Promise!mvars, Left, Fate, ramp, task
<1>6. CASE \/ LoadPosition \/ Switch \/ NoCase \/ StartAccelerating
           \/ KeepAccelerating \/ NextAccelStep \/ EndAccelerating \/ Cruise
           \/ StartDecelerating \/ KeepDecelerating \/ NextDecelStep
  <2>1. Counted' = Counted /\ UNCHANGED << PulseNum_Global, MotorDir, move, rel >>
    BY <1>1, <1>6 DEF LoadPosition, Switch, NoCase, StartAccelerating,
       KeepAccelerating, NextAccelStep, EndAccelerating, Cruise, StartDecelerating,
       KeepDecelerating, NextDecelStep, DecelStep, EndCase, Counted, ramp, task
  <2> QED
    BY <2>1 DEF Promise!mvars, Left, Fate
<1>7. CASE UNCHANGED vars
  BY <1>7 DEF vars, ramp, task, isrvars, Counted, Promise!mvars, Left, Fate
<1>8. ASSUME Call PROVE move' = "broken" \/ move' = "none"
  BY <1>8 DEF Call, HzNum, Home
<1>9. ~TaskStep
  BY <1>1 DEF TaskStep, ReadPosition, SetDirection, Plan, NoMove, StartRamp, StartCycle, StartTimer, HomeCycle,
     Running
<1>10. ASSUME EXTI1 \/ EXTI4
       PROVE  move' = "broken" \/ move' = "none" \/ move' = "homed"
  BY <1>10 DEF EXTI1, EXTI4, LimitStop
<1> QED
  BY <1>2, <1>3, <1>4, <1>5, <1>6, <1>7, <1>8, <1>9, <1>10
     DEF Next, TIM1_UP_IRQHandler

\* When a move starts, its whole distance is left.
LEMMA WholeDistance ==
    move = "run" /\ isr = "none" /\ out = 0 /\ rel \in 1 .. Half - 1
    => Left \in 1 .. Half - 1
<1>1. \A r \in Int : r - 0 = r
  OBVIOUS
<1> QED
  BY <1>1 DEF Left, Counted

\* Between moves, a move is accepted or the position is the environment's.
LEMMA IdleStep ==
    ASSUME TypeOK, TypeOK', OnCourse, OnCourse', [Next]_vars, move # "run"
    PROVE  Promise!MoveNext \/ UNCHANGED Promise!mvars
<1>1. CASE move' = "run"
  <2>1. StartTimer /\ move = "armed"
    BY <1>1 DEF Next, Call, HzNum, Home, TaskStep, ReadPosition, SetDirection, Plan,
       NoMove, StartRamp, StartCycle, StartTimer, HomeCycle, TIM1_Update, TIM1_UP_IRQHandler, LoadPosition,
       StorePosition, Switch, NoCase, StartAccelerating, KeepAccelerating,
       NextAccelStep, EndAccelerating, Cruise, StartDecelerating, KeepDecelerating,
       NextDecelStep, EndDecelerating, EXTI1, EXTI4, LimitStop, vars
  <2>2. /\ PulseNum_Global' = PulseNum_Global /\ out' = 0 /\ isr' = "none"
        /\ rel' \in 1 .. Half - 1
    BY <1>1, <2>1 DEF StartTimer, task, isrvars, OnCourse, Profiled, TypeOK
  <2>3. Left' \in 1 .. Half - 1 /\ Left = 0
    <3>1. (move = "run" /\ isr = "none" /\ out = 0 /\ rel \in 1 .. Half - 1)'
          => (Left \in 1 .. Half - 1)'
      BY WholeDistance, PTL
    <3>2. Left = 0
      BY <1>1 DEF Left
    <3> QED
      BY <1>1, <2>2, <3>1, <3>2
  <2>4. Promise!Accept
    BY <1>1, <2>1, <2>2, <2>3 DEF Promise!Accept, Fate
  <2> QED
    BY <2>4 DEF Promise!MoveNext
<1>2. CASE move' = "done"
  <2>1. move = "done"
    BY <1>2 DEF Next, Call, HzNum, Home, TaskStep, ReadPosition, SetDirection, Plan,
       NoMove, StartRamp, StartCycle, StartTimer, HomeCycle, TIM1_Update, TIM1_UP_IRQHandler, LoadPosition,
       StorePosition, Switch, NoCase, StartAccelerating, KeepAccelerating,
       NextAccelStep, EndAccelerating, Cruise, StartDecelerating, KeepDecelerating,
       NextDecelStep, EndDecelerating, EXTI1, EXTI4, LimitStop, vars
  <2>2. pc = "idle" /\ isr = "none" /\ TIM1 = DISABLE
    BY <2>1 DEF OnCourse, Stopped
  <2>3. UNCHANGED vars
    BY <1>2, <2>2 DEF ENABLE, DISABLE, Next, Call, HzNum, Home, TaskStep, ReadPosition,
       SetDirection, Plan, NoMove, StartRamp, StartCycle, StartTimer, HomeCycle, TIM1_Update,
       TIM1_UP_IRQHandler, LoadPosition, StorePosition, Switch, NoCase,
       StartAccelerating, KeepAccelerating, NextAccelStep, EndAccelerating, Cruise,
       StartDecelerating, KeepDecelerating, NextDecelStep, EndDecelerating, DecelStep,
       EndCase, EXTI1, EXTI4, LimitStop
  <2> QED
    BY <2>1, <2>3 DEF vars, ramp, task, Promise!mvars, Left, Fate
<1>3. CASE move' # "run" /\ move' # "done"
  BY <1>3, StepInterferes DEF Promise!MoveNext
<1> QED
  BY <1>1, <1>2, <1>3

\* Every behaviour of the generator is one of PositionMove.
THEOREM Implementation == Spec => ImplementsMove
<1>1. Init => Promise!MoveInit
  BY DEF Init, Promise!MoveInit, Left, Fate
<1>2. /\ TypeOK /\ OnCourse /\ TypeOK' /\ OnCourse' /\ [Next]_vars
      => [Promise!MoveNext]_Promise!mvars
  BY RunningStep, IdleStep
<1> QED
  BY <1>1, <1>2, TypeCorrect, MoveOnCourse, PTL
     DEF Spec, ImplementsMove, Promise!MoveSafe

-----------------------------------------------------------------------------
(* A limit stops the motor for good, at whatever stage of the TIM1          *)
(* interrupt or of a call it comes.  Calls wait for the end of a move.       *)

Waiting == ~CallWhileMoving

\* A stopped motor has nothing to resume, but for what a case of the switch that a
\* limit came upon puts back, and for what a call has prepared.
AtRest ==
    TIM1 = DISABLE =>
        /\ isr # "none" => /\ MotorActionState = 0 /\ MotorCycleReal = 0
                           /\ (isr = "case" /\ branch # 0) => caught = "case"
        /\ isr = "none" => /\ \/ MotorActionState = 0 \/ caught = "case"
                              \/ pc \in {"cycle", "enable"}
                           /\ \/ MotorCycleReal = 0 \/ caught = "case"
                              \/ pc \in {"home", "enable"}

\* A call finds the motor stopped, and leaves it so up to its last statement.
CalledAtRest == pc # "idle" => TIM1 = DISABLE /\ isr = "none"

\* The position a limit stop leaves behind.
HomedAtZero ==
    move = "homed" => /\ TIM1 = DISABLE /\ MotorDir = 0 /\ pc = "idle"
                      /\ isr = "count" => caught = "count"
                      /\ PulseNum_Global = 0 \/ (caught = "count" /\ isr # "count")

\* A call that no limit has interrupted has a direction when it is to have one.
Directed ==
    /\ caught = "call" => HomeFlag = 1
    /\ caught # "call" => /\ pc = "plan" => (MotorDir = 0 => rel = 0)
                          /\ pc \in Starting \cup {"home"} => MotorDir # 0

LimitInvariant == AtRest /\ CalledAtRest /\ HomedAtZero /\ Directed

\* Every step keeps the invariant, the limit interrupts at any stage included.
LEMMA LimitInductive ==
    ASSUME Waiting, TypeOK, LimitInvariant, [Next]_vars
    PROVE  LimitInvariant'
<1> USE DEF LimitInvariant, AtRest, CalledAtRest, HomedAtZero, Directed, Starting
<1>1. ASSUME NEW l \in Levels, NEW p \in Positions, HzNum(l, p) PROVE LimitInvariant'
  BY <1>1 DEF HzNum, CallBegins, MayCall, ramp, isrvars, Waiting
<1>2. ASSUME NEW l \in Levels \ {0}, Home(l) PROVE LimitInvariant'
  BY <1>2 DEF Home, CallBegins, MayCall, isrvars, Waiting
<1>3. CASE ReadPosition
  BY <1>3 DEF ReadPosition, ramp, isrvars
<1>4. CASE SetDirection
  BY <1>4 DEF SetDirection, isrvars, TypeOK, Negate
<1>5. CASE Plan
  BY <1>5 DEF Plan, ramp, task, isrvars, Suits
<1>6. CASE NoMove
  BY <1>6 DEF NoMove, ramp, task, isrvars
<1>7. CASE StartRamp \/ StartCycle
  BY <1>7 DEF StartRamp, StartCycle, task, isrvars
<1>8. CASE StartTimer \/ HomeCycle
  BY <1>8 DEF StartTimer, HomeCycle, task, isrvars
<1>9. CASE TIM1_Update \/ LoadPosition \/ StorePosition \/ Switch
  BY <1>9 DEF TIM1_Update, LoadPosition, StorePosition, Switch, ramp, task
<1>10. CASE \/ NoCase \/ StartAccelerating \/ KeepAccelerating \/ NextAccelStep
            \/ EndAccelerating \/ Cruise \/ StartDecelerating
            \/ KeepDecelerating \/ NextDecelStep
  <2>1. /\ TIM1' = TIM1 /\ isr = "case" /\ isr' = "none"
        /\ UNCHANGED << move, pc, HomeFlag, MotorDir, caught, rel, PulseNum_Global >>
    BY <1>10 DEF NoCase, StartAccelerating, KeepAccelerating, NextAccelStep,
       EndAccelerating, Cruise, StartDecelerating, KeepDecelerating, NextDecelStep,
       DecelStep, EndCase, ramp, task
  <2>2. CASE branch = 0
    <3>1. NoCase
      BY <1>10, <2>2 DEF NoCase, StartAccelerating, KeepAccelerating, NextAccelStep,
         EndAccelerating, Cruise, StartDecelerating, KeepDecelerating, NextDecelStep,
         DecelStep, EndCase
    <3>2. UNCHANGED << MotorActionState, MotorCycleReal >>
      BY <3>1 DEF NoCase, ramp
    <3> QED
      BY <2>1, <3>2
  <2>3. CASE branch # 0
    BY <2>1, <2>3
  <2> QED
    BY <2>2, <2>3
<1>11. CASE EndDecelerating
  BY <1>11 DEF EndDecelerating, DecelStep, EndCase, PTO_Stop, TypeOK, task
<1>12. CASE EXTI1
  BY <1>12 DEF EXTI1, LimitsMayFire, LimitStop, PTO_Stop, ramp, task, isrvars, TypeOK
<1>13. CASE EXTI4
  BY <1>13 DEF EXTI4, LimitsMayFire, LimitStop, PTO_Stop, isrvars, TypeOK
<1>14. CASE UNCHANGED vars
  BY <1>14 DEF vars, ramp, task, isrvars
<1> QED
  BY <1>1, <1>2, <1>3, <1>4, <1>5, <1>6, <1>7, <1>8, <1>9, <1>10, <1>11, <1>12, <1>13,
     <1>14 DEF Next, Call, TaskStep, TIM1_UP_IRQHandler

\* The timer comes on with direction 0 only from a call a limit has interrupted.
LEMMA UncountedStep ==
    ASSUME Waiting, TypeOK, LimitInvariant, [Next]_vars,
           TIM1' = ENABLE, MotorDir' = 0, ~(TIM1 = ENABLE /\ MotorDir = 0)
    PROVE  pc = "enable" /\ caught = "call" /\ HomeFlag = 1
<1> USE DEF LimitInvariant, AtRest, CalledAtRest, Directed, Starting
<1>1. CASE StartTimer
  BY <1>1 DEF StartTimer, TypeOK
<1>2. ~Call
  BY DEF Call, HzNum, Home, MayCall, ramp, TypeOK
<1>3. ~(\/ ReadPosition \/ SetDirection \/ Plan \/ NoMove \/ StartRamp \/ StartCycle
        \/ HomeCycle)
  BY DEF ReadPosition, SetDirection, Plan, NoMove, StartRamp, StartCycle, HomeCycle, ramp
<1>4. ~(TIM1_Update \/ LoadPosition \/ StorePosition \/ Switch)
  BY DEF TIM1_Update, LoadPosition, StorePosition, Switch, ramp
<1>5. ~(\/ NoCase \/ StartAccelerating \/ KeepAccelerating \/ NextAccelStep
        \/ EndAccelerating \/ Cruise \/ StartDecelerating
        \/ KeepDecelerating \/ NextDecelStep \/ EndDecelerating)
  BY DEF NoCase, StartAccelerating, KeepAccelerating, NextAccelStep, EndAccelerating,
     Cruise, StartDecelerating, KeepDecelerating, NextDecelStep, EndDecelerating,
     PTO_Stop, ramp
<1>6. ~(EXTI1 \/ EXTI4) /\ ~UNCHANGED vars
  BY DEF EXTI1, EXTI4, LimitStop, PTO_Stop, ramp, vars
<1> QED
  BY <1>1, <1>2, <1>3, <1>4, <1>5, <1>6 DEF Next, TaskStep, TIM1_UP_IRQHandler

\* When calls wait for the end of a move: after a limit, whatever it came upon, the
\* timer is off, the position 0 and the ramp empty, but for the store and the case
\* that the interrupted TIM1 interrupt goes on with; and only a call that the limit
\* interrupted sends pulses out uncounted (PTO_Stop, EXTI1, EXTI4, PTO_HZ_NUM,
\* PTO_Home).
THEOREM LimitsStopForGood == Waiting /\ Spec => LimitHolds
<1>1. Init => LimitInvariant
  BY DEF Init, LimitInvariant, AtRest, CalledAtRest, HomedAtZero, Directed, Starting
<1>3. LimitInvariant => HomeZero /\ StoppedIsIdle
  BY DEF LimitInvariant, AtRest, HomedAtZero, HomeZero, StoppedIsIdle
<1>5. ASSUME Waiting PROVE Spec => LimitHolds
  <2>1. TypeOK /\ LimitInvariant /\ [Next]_vars => LimitInvariant'
    BY <1>5, LimitInductive
  <2>2. TypeOK /\ LimitInvariant /\ [Next]_vars
        => [ TIM1' = ENABLE /\ MotorDir' = 0 /\ ~(TIM1 = ENABLE /\ MotorDir = 0)
             => pc = "enable" /\ caught = "call" /\ HomeFlag = 1 ]_vars
    BY <1>5, UncountedStep
  <2> QED
    BY <1>1, <1>3, <2>1, <2>2, TypeCorrect, PTL
       DEF Spec, LimitHolds, UncountedOnlyAfterLimit
<1> QED
  BY <1>5

-----------------------------------------------------------------------------
(* The frequencies of a move, and the distances that get none.             *)

\* PTO_HZ_NUM only ever shortens the ramp.
Shortened == ACC_Status_Flag <= MotorCycleTarget

\* The timer's period in each phase of a move.
PhaseLevel ==
    move = "run" =>
        /\ MotorActionState = 1 => MotorCycleReal = 1
        /\ MotorActionState = 2 => MotorCycleReal = tempflag + 1
        /\ MotorActionState = 3 => MotorCycleReal = MotorCycleTarget
        /\ MotorActionState = 4 => MotorCycleReal \in {ACC_Status_Flag, MotorCycleTarget}
        /\ MotorActionState = 5 => MotorCycleReal = tempflag

RampInvariant == Shortened /\ PhaseLevel

\* What a switch of the interrupt does to the period of a running move.
LEMMA SwitchLevel ==
    ASSUME TypeOK, OnCourse, RampInvariant, move = "run", isr = "case",
           \/ NoCase \/ StartAccelerating \/ KeepAccelerating \/ NextAccelStep
           \/ EndAccelerating \/ Cruise \/ StartDecelerating
           \/ KeepDecelerating \/ NextDecelStep
    PROVE  /\ RampInvariant'
           /\ \/ MotorCycleReal' - MotorCycleReal \in -1 .. 1
              \/ /\ ACC_Status_Flag < MotorCycleTarget
                 /\ \/ MotorActionState = 2 /\ MotorActionState' = 3
                    \/ MotorActionState = 4 /\ MotorActionState' = 5
<1> USE DEF RampInvariant, Shortened, PhaseLevel
<1>1. /\ Profiled /\ Phase /\ branch = MotorActionState
      /\ ACC_Status_Flag \in 1 .. TableLen /\ DEC_Status_Flag = ACC_Status_Flag
      /\ MotorCycleTarget \in Nat /\ MotorCycleReal \in Nat /\ tempflag \in 0 .. Byte - 1
      /\ ACC_Status_Flag <= MotorCycleTarget
  BY CaseFacts DEF TypeOK, Profiled
<1>2. UNCHANGED << ACC_Status_Flag, MotorCycleTarget, move >>
  BY DEF NoCase, StartAccelerating, KeepAccelerating, NextAccelStep, EndAccelerating,
     Cruise, StartDecelerating, KeepDecelerating, NextDecelStep, DecelStep, EndCase,
     profile
<1>3. CASE NoCase \/ KeepAccelerating \/ KeepDecelerating
  BY <1>1, <1>2, <1>3 DEF NoCase, KeepAccelerating, KeepDecelerating, ramp
<1>4. CASE StartAccelerating
  BY <1>1, <1>2, <1>4 DEF StartAccelerating, EndCase
<1>5. ASSUME EndCase(2) PROVE /\ MotorActionState = 2 /\ tempflag < ACC_Status_Flag
                              /\ MotorCycleReal = tempflag + 1
                              /\ NextFlag = tempflag + 1
  <2>1. MotorActionState = 2
    BY <1>1, <1>5 DEF EndCase
  <2>2. tempflag < ACC_Status_Flag
    BY <1>1, <2>1 DEF Phase, PhaseStart, PhaseAccelerate, PhaseCruise, PhaseTurn,
       PhaseDecelerate
  <2> QED
    BY <1>1, <2>1, <2>2 DEF NextFlag
<1>6. CASE NextAccelStep
  <2>1. EndCase(2)
    BY <1>6 DEF NextAccelStep
  <2>3. NextFlag = tempflag + 1 /\ NextFlag < ACC_Status_Flag /\ NextFlag \in Steps
    BY <1>1, <1>5, <1>6, <2>1 DEF NextAccelStep, Steps
  <2>4. MotorCycleReal' = NextFlag + 1
    BY <1>6, <2>3, CycleReadType DEF NextAccelStep
  <2>2. /\ MotorActionState' = 2 /\ tempflag' = tempflag + 1
        /\ MotorCycleReal' = tempflag + 2
    BY <1>1, <1>5, <1>6, <2>1, <2>3, <2>4 DEF NextAccelStep
  <2> QED
    BY <1>1, <1>2, <1>5, <2>1, <2>2
<1>7. CASE EndAccelerating
  <2>1. EndCase(2) /\ NextFlag = ACC_Status_Flag
    BY <1>7 DEF EndAccelerating
  <2>2. MotorCycleReal = ACC_Status_Flag /\ MotorActionState = 2
    BY <1>1, <1>5, <2>1
  <2>3. CASE MotorActionState' = 4 /\ MotorCycleReal' = MotorCycleReal
    BY <1>1, <1>2, <2>2, <2>3
  <2>4. CASE MotorActionState' = 3 /\ MotorCycleReal' = MotorCycleTarget
    BY <1>1, <1>2, <2>2, <2>4
  <2> QED
    BY <1>7, <2>3, <2>4 DEF EndAccelerating
<1>8. CASE Cruise
  BY <1>1, <1>2, <1>8 DEF Cruise, EndCase
<1>9. CASE StartDecelerating
  <2>1. MotorActionState = 4 /\ MotorCycleReal \in {ACC_Status_Flag, MotorCycleTarget}
    BY <1>1, <1>9 DEF StartDecelerating, EndCase
  <2>2. /\ MotorActionState' = 5 /\ tempflag' = ACC_Status_Flag
        /\ MotorCycleReal' = ACC_Status_Flag
    <3>1. DEC_Status_Flag - 1 \in Steps /\ (DEC_Status_Flag - 1) + 1 = ACC_Status_Flag
      BY <1>1 DEF Steps
    <3> QED
      BY <1>1, <1>9, <3>1, CycleReadType DEF StartDecelerating
  <2> QED
    BY <1>1, <1>2, <2>1, <2>2
<1>10. CASE NextDecelStep
  <2>1. EndCase(5) /\ PrevFlag > 0
    BY <1>10 DEF NextDecelStep, DecelStep
  <2>2. MotorActionState = 5 /\ tempflag \in 1 .. ACC_Status_Flag
    <3>1. MotorActionState = 5
      BY <1>1, <2>1 DEF EndCase
    <3> QED
      BY <1>1, <3>1 DEF Phase, PhaseStart, PhaseAccelerate, PhaseCruise, PhaseTurn,
         PhaseDecelerate
  <2>3. /\ MotorActionState' = 5 /\ tempflag' = tempflag - 1
        /\ MotorCycleReal' = tempflag - 1
    <3>1. PrevFlag = tempflag - 1
      BY <2>2 DEF PrevFlag
    <3>2. PrevFlag - 1 \in Steps /\ (PrevFlag - 1) + 1 = tempflag - 1
      BY <1>1, <2>1, <2>2, <3>1 DEF Steps
    <3> QED
      BY <1>1, <1>10, <2>2, <3>1, <3>2, CycleReadType
         DEF NextDecelStep, DecelStep, EndCase
  <2> QED
    BY <1>1, <1>2, <2>2, <2>3
<1> QED
  BY <1>3, <1>4, <1>6, <1>7, <1>8, <1>9, <1>10

\* A step that leaves a move running is one of the timer's.
LEMMA RunningSteps ==
    ASSUME TypeOK, OnCourse, [Next]_vars, move = "run", move' = "run"
    PROVE  \/ TIM1_Update \/ LoadPosition \/ StorePosition \/ Switch
           \/ /\ isr = "case"
              /\ \/ NoCase \/ StartAccelerating \/ KeepAccelerating \/ NextAccelStep
                 \/ EndAccelerating \/ Cruise \/ StartDecelerating
                 \/ KeepDecelerating \/ NextDecelStep
           \/ UNCHANGED vars
<1>1. TIM1 = ENABLE /\ pc = "idle"
  BY DEF OnCourse, Running
<1>2. ~Call
  BY <1>1 DEF Call, HzNum, Home
<1>3. ~TaskStep
  BY <1>1 DEF TaskStep, ReadPosition, SetDirection, Plan, NoMove, StartRamp, StartCycle, StartTimer, HomeCycle
<1>4. ~EXTI1 /\ ~EXTI4 /\ ~EndDecelerating
  BY <1>1 DEF EXTI1, EXTI4, LimitStop, EndDecelerating
<1>5. \/ NoCase \/ StartAccelerating \/ KeepAccelerating \/ NextAccelStep
      \/ EndAccelerating \/ Cruise \/ StartDecelerating
      \/ KeepDecelerating \/ NextDecelStep
      => isr = "case"
  BY DEF NoCase, StartAccelerating, KeepAccelerating, NextAccelStep, EndAccelerating,
     Cruise, StartDecelerating, KeepDecelerating, NextDecelStep, DecelStep, EndCase
<1> QED
  BY <1>2, <1>3, <1>4, <1>5 DEF Next, TIM1_UP_IRQHandler

\* A step that begins a move starts it in state 1, at the first level.
LEMMA BeginsAtFirstLevel ==
    ASSUME OnCourse, [Next]_vars, move # "run", move' = "run"
    PROVE  MotorActionState' = 1 /\ MotorCycleReal' = 1
<1>1. StartTimer /\ move = "armed"
  BY DEF Next, Call, HzNum, Home, TaskStep, ReadPosition, SetDirection, Plan,
   NoMove, StartRamp, StartCycle, StartTimer, HomeCycle, TIM1_Update, TIM1_UP_IRQHandler, LoadPosition,
   StorePosition, Switch, NoCase, StartAccelerating, KeepAccelerating,
   NextAccelStep, EndAccelerating, Cruise, StartDecelerating, KeepDecelerating,
   NextDecelStep, EndDecelerating, EXTI1, EXTI4, LimitStop, vars
<1> QED
  BY <1>1 DEF StartTimer, OnCourse, Armed

\* The flag of the ramp is never above the level asked for.
LEMMA ShortenedInductive ==
    ASSUME TypeOK, Shortened, [Next]_vars
    PROVE  Shortened'
<1> USE DEF Shortened
<1>1. CASE Call
  <2>1. ASSUME NEW l \in Levels, NEW p \in Positions, HzNum(l, p) PROVE Shortened'
    <3>1. l \in Nat /\ l % Byte <= l
      BY SizesAssumption
    <3> QED
      BY <2>1, <3>1 DEF HzNum
  <2>2. ASSUME NEW l \in Levels \ {0}, Home(l) PROVE Shortened'
    BY <2>2 DEF Home, profile
  <2> QED
    BY <1>1, <2>1, <2>2 DEF Call
<1>2. CASE Plan
  BY <1>2 DEF Plan, TypeOK
<1>3. CASE \/ ReadPosition \/ SetDirection \/ NoMove
           \/ StartRamp \/ StartCycle \/ StartTimer \/ HomeCycle
           \/ TIM1_Update \/ TIM1_UP_IRQHandler \/ EXTI1 \/ EXTI4 \/ UNCHANGED vars
  <2>1. UNCHANGED << ACC_Status_Flag, MotorCycleTarget >>
    BY <1>3 DEF ReadPosition, SetDirection, NoMove, StartRamp, StartCycle, StartTimer, HomeCycle, TIM1_Update,
       TIM1_UP_IRQHandler, LoadPosition, StorePosition, Switch, NoCase,
       StartAccelerating, KeepAccelerating, NextAccelStep, EndAccelerating, Cruise,
       StartDecelerating, KeepDecelerating, NextDecelStep, EndDecelerating, DecelStep,
       EndCase, EXTI1, EXTI4, LimitStop, profile, vars
  <2> QED
    BY <2>1
<1> QED
  BY <1>1, <1>2, <1>3 DEF Next, TaskStep

LEMMA RampInductive ==
    ASSUME TypeOK, OnCourse, RampInvariant, [Next]_vars
    PROVE  RampInvariant'
<1>1. Shortened'
  BY ShortenedInductive DEF RampInvariant
<1>2. ASSUME move # "run", move' = "run" PROVE PhaseLevel'
  <2>1. MotorActionState' = 1 /\ MotorCycleReal' = 1
    BY <1>2, BeginsAtFirstLevel
  <2> QED
    BY <2>1 DEF PhaseLevel
<1>3. ASSUME move = "run", move' = "run" PROVE PhaseLevel'
  <2>1. CASE TIM1_Update \/ LoadPosition \/ StorePosition \/ Switch \/ UNCHANGED vars
    <3>1. UNCHANGED << MotorActionState, MotorCycleReal, MotorCycleTarget,
                       ACC_Status_Flag, tempflag, move >>
      BY <2>1 DEF TIM1_Update, LoadPosition, StorePosition, Switch, vars, ramp, profile
    <3> QED
      BY <3>1 DEF RampInvariant, PhaseLevel
  <2>2. CASE /\ isr = "case"
             /\ \/ NoCase \/ StartAccelerating \/ KeepAccelerating \/ NextAccelStep
                \/ EndAccelerating \/ Cruise \/ StartDecelerating
                \/ KeepDecelerating \/ NextDecelStep
    BY <1>3, <2>2, SwitchLevel DEF RampInvariant
  <2> QED
    BY <1>3, <2>1, <2>2, RunningSteps
<1>4. ASSUME move' # "run" PROVE PhaseLevel'
  BY <1>4 DEF PhaseLevel
<1> QED
  BY <1>1, <1>2, <1>3, <1>4 DEF RampInvariant

\* A running move changes its frequency by one level, but for the cruise.
LEMMA RampStep ==
    ASSUME TypeOK, OnCourse, RampInvariant, [Next]_vars, move = "run", move' = "run"
    PROVE  \/ MotorCycleReal' - MotorCycleReal \in -1 .. 1
           \/ /\ ACC_Status_Flag < MotorCycleTarget
              /\ \/ MotorActionState = 2 /\ MotorActionState' = 3
                 \/ MotorActionState = 4 /\ MotorActionState' = 5
<1>1. CASE TIM1_Update \/ LoadPosition \/ StorePosition \/ Switch \/ UNCHANGED vars
  <2>1. MotorCycleReal' = MotorCycleReal /\ MotorCycleReal \in Int
    BY <1>1 DEF TIM1_Update, LoadPosition, StorePosition, Switch, vars, ramp, TypeOK
  <2> QED
    BY <2>1
<1>2. CASE /\ isr = "case"
           /\ \/ NoCase \/ StartAccelerating \/ KeepAccelerating \/ NextAccelStep
              \/ EndAccelerating \/ Cruise \/ StartDecelerating
              \/ KeepDecelerating \/ NextDecelStep
  BY <1>2, SwitchLevel
<1> QED
  BY <1>1, <1>2, RunningSteps

\* A set of natural numbers with a member has a least one.
LEMMA Least ==
    ASSUME NEW P \in SUBSET Nat, P # {}
    PROVE  \E m \in P : \A n \in P : m <= n
<1>1. PICK m \in P : \A n \in P : ~ (<<n, m>> \in OpToRel(<, Nat))
  BY NatLessThanWellFounded, WFMin
<1>2. ASSUME NEW n \in P PROVE m <= n
  <2>1. <<n, m>> \in Nat \X Nat
    OBVIOUS
  <2>2. ~(n < m)
    BY <1>1, <2>1 DEF OpToRel
  <2> QED
    BY <2>2
<1> QED
  BY <1>2

\* A distance longer than twice the shortest ramp suits some level: the highest
\* one whose double ramp is shorter.
LEMMA SomeLevelSuits ==
    ASSUME TypeOK, NEW s \in SumsRead,
           ACC_Status_Flag # 0, rel > 2 * PulseNum_Sum_Buf[0]
    PROVE  \E l \in 1 .. ACC_Status_Flag : Suits(l, s)
<1> DEFINE n == ACC_Status_Flag
<1> DEFINE Fits(l) == rel > 2 * s[l - 1]
<1>1. /\ n \in 1 .. Byte - 1 /\ rel \in Int
      /\ \A l \in 1 .. n : s[l - 1] \in Nat
      /\ s[0] = PulseNum_Sum_Buf[0] /\ s[0] \in Nat
  <2>1. n \in 1 .. Byte - 1 /\ rel \in Int
    BY DEF TypeOK
  <2>2. 0 \in 0 .. n - 1 /\ 0 \in Steps /\ \A l \in 1 .. n : l - 1 \in 0 .. n - 1
    BY <2>1 DEF Steps
  <2> QED
    BY <2>1, <2>2, SumsReadType
<1>2. rel # 0
  BY <1>1
<1> DEFINE Short == {d \in 0 .. n - 1 : Fits(n - d)}
<1>3. Short \in SUBSET Nat /\ n - 1 \in Short
  BY <1>1
<1>4. PICK d \in Short : \A e \in Short : d <= e
  BY <1>3, Least
<1> DEFINE l == n - d
<1>5. l \in 1 .. n /\ Fits(l)
  BY <1>1, <1>4
<1>6. ASSUME NEW j \in l + 1 .. n PROVE ~Fits(j)
  <2>1. n - j \in 0 .. n - 1 /\ n - j < d /\ n - (n - j) = j
    BY <1>1, <1>4
  <2>2. n - j \notin Short
    BY <1>1, <1>4, <2>1
  <2> QED
    BY <2>1, <2>2
<1>7. ASSUME NEW j \in l + 1 .. n PROVE rel <= 2 * s[j - 1]
  BY <1>1, <1>5, <1>6, <1>7
<1>8. CASE rel > 2 * s[n - 1] - 1
  <2>1. n \in 1 .. n
    BY <1>1
  <2> QED
    BY <1>2, <1>8, <2>1 DEF Suits
<1>9. CASE ~(rel > 2 * s[n - 1] - 1)
  <2>1. rel < 2 * s[n - 1]
    BY <1>1, <1>9
  <2> QED
    BY <1>2, <1>5, <1>7, <2>1 DEF Suits
<1> QED
  BY <1>8, <1>9

\* PTO_HZ_NUM plans a move for every distance longer than twice the shortest
\* ramp, and every move climbs and descends its levels one at a time, but at the
\* ends of the cruise of a shortened ramp: whoever interferes.
THEOREM ProfilesFit == Spec => ProfileFits
<1>1. Init => RampInvariant
  BY DEF Init, RampInvariant, Shortened, PhaseLevel
<1>2. TypeOK /\ OnCourse /\ RampInvariant /\ [Next]_vars => RampInvariant'
  BY RampInductive
<1>3. TypeOK /\ OnCourse /\ RampInvariant /\ [Next]_vars
      => [ move = "run" /\ move' = "run"
           => \/ MotorCycleReal' - MotorCycleReal \in -1 .. 1
              \/ /\ ACC_Status_Flag < MotorCycleTarget
                 /\ \/ MotorActionState = 2 /\ MotorActionState' = 3
                    \/ MotorActionState = 4 /\ MotorActionState' = 5 ]_vars
  BY RampStep
<1>4. TypeOK /\ [Next]_vars
      => [ pc = "plan" /\ pc' = "idle"
           => ACC_Status_Flag = 0 \/ rel <= 2 * PulseNum_Sum_Buf[0] ]_vars
  <2> SUFFICES ASSUME TypeOK, [Next]_vars, pc = "plan", pc' = "idle"
               PROVE  ACC_Status_Flag = 0 \/ rel <= 2 * PulseNum_Sum_Buf[0]
    OBVIOUS
  <2>1. NoMove
    BY DEF Next, Call, HzNum, Home, MayCall, TaskStep, ReadPosition, SetDirection, Plan,
       StartRamp, StartCycle, StartTimer, HomeCycle, TIM1_Update, TIM1_UP_IRQHandler, LoadPosition,
       StorePosition, Switch, NoCase, StartAccelerating, KeepAccelerating,
       NextAccelStep, EndAccelerating, Cruise, StartDecelerating, KeepDecelerating,
       NextDecelStep, EndDecelerating, DecelStep, EndCase, EXTI1, EXTI4, LimitStop, vars
  <2>2. rel \in Int /\ PulseNum_Sum_Buf[0] \in Int
    BY TableAssumption DEF RampTables, TypeOK, Steps
  <2> QED
    BY <2>1, <2>2, SomeLevelSuits DEF NoMove
<1> QED
  BY <1>1, <1>2, <1>3, <1>4, TypeCorrect, MoveOnCourse, PTL
     DEF Spec, ProfileFits, RampGradual, DropsOnlyShortMoves

-----------------------------------------------------------------------------
(* The ramp tables: the loops of vPTOConfig (PTOTable.tla) against what PTO    *)
(* assumes of the tables.                                                      *)

\* What integer division gives.
LEMMA Quotient ==
    ASSUME NEW a \in Nat, NEW b \in Nat \ {0}
    PROVE  /\ a \div b \in Nat
           /\ (a \div b) * b <= a
           /\ a < (a \div b + 1) * b
OBVIOUS

\* Multiplication keeps the order.
LEMMA Monotone ==
    ASSUME NEW a \in Nat, NEW b \in Nat, NEW c \in Nat, a <= b
    PROVE  a * c <= b * c
OBVIOUS

\* The quotient is the largest such number.
LEMMA QuotientIs ==
    ASSUME NEW a \in Nat, NEW b \in Nat \ {0}, NEW q \in Nat, q * b <= a
    PROVE  q <= a \div b
<1>1. a < (a \div b + 1) * b /\ a \div b \in Nat
  BY Quotient
<1>2. SUFFICES ASSUME a \div b + 1 <= q PROVE FALSE
  BY <1>1
<1>3. (a \div b + 1) * b <= q * b
  BY <1>1, <1>2, Monotone
<1> QED
  BY <1>1, <1>3

\* The more one divides by, the less remains.
LEMMA QuotientFalls ==
    ASSUME NEW a \in Nat, NEW b \in Nat \ {0}, NEW c \in Nat \ {0}, b <= c
    PROVE  a \div c <= a \div b
<1>1. a \div c \in Nat /\ (a \div c) * c <= a
  BY Quotient
<1>2. (a \div c) * b <= (a \div c) * c
  BY <1>1, Monotone
<1>3. (a \div c) * b <= a
  BY <1>1, <1>2
<1> QED
  BY <1>1, <1>3, QuotientIs

CONSTANTS ACC_HZ_MIN, ACC_PERIOD, Word
VARIABLES loop, entry, cycles, pulses, sums

\* The loops of vPTOConfig, over tables of as many levels as PTO's.
Table == INSTANCE PTOTable WITH
    i <- entry, MotorCycle_Buf <- cycles, PulseNum_Buf <- pulses, PulseNum_Sum_Buf <- sums

\* The period and the pulses of a level, and the most pulses of any.
Cyc(n) == 100000 \div (ACC_HZ_MIN * (n + 1))
Num(n) == (ACC_PERIOD * 100) \div Cyc(n)
Most == Num(TableLen - 1)

\* The constants' types.
LEMMA SuitableTypes ==
    ASSUME Table!Suitable
    PROVE  /\ ACC_HZ_MIN \in Nat \ {0} /\ ACC_PERIOD \in Nat \ {0}
           /\ TableLen \in Nat \ {0} /\ Word \in Nat \ {0}
<1>1. {ACC_HZ_MIN, ACC_PERIOD, TableLen, Word} \subseteq Nat \ {0}
  BY DEF Table!Suitable
<1> QED
  BY <1>1

\* What the loops compute for a level, and that it fits.
LEMMA LevelFits ==
    ASSUME Table!Suitable, NEW n \in Steps
    PROVE  /\ Cyc(n) \in 1 .. Word - 1
           /\ Cyc(n) * (ACC_HZ_MIN * (n + 1)) <= 100000
           /\ (Cyc(n) + 1) * (ACC_HZ_MIN * (n + 1)) > 100000
           /\ Num(n) \in 2 .. Most
           /\ Num(n) * Cyc(n) <= ACC_PERIOD * 100
           /\ (Num(n) + 1) * Cyc(n) > ACC_PERIOD * 100
<1> DEFINE hz == ACC_HZ_MIN * (n + 1)
<1>1. /\ ACC_HZ_MIN \in Nat \ {0} /\ ACC_PERIOD \in Nat \ {0} /\ TableLen \in Nat \ {0} /\ Word \in Nat \ {0}
      /\ n \in Nat /\ n + 1 <= TableLen /\ ACC_PERIOD * 100 \in Nat \ {0}
  BY SuitableTypes DEF Steps
<1>2. hz \in Nat \ {0} /\ ACC_HZ_MIN <= hz
  BY <1>1
<1>3. hz <= ACC_HZ_MIN * TableLen /\ ACC_HZ_MIN * TableLen \in Nat \ {0}
  BY <1>1
<1>4. ACC_HZ_MIN * TableLen <= 100000 /\ 100000 \div ACC_HZ_MIN < Word
      /\ 2 * (100000 \div ACC_HZ_MIN) <= ACC_PERIOD * 100
  BY DEF Table!Suitable
<1> HIDE DEF hz
<1>5. Cyc(n) = 100000 \div hz /\ Cyc(TableLen - 1) = 100000 \div (ACC_HZ_MIN * TableLen)
  BY <1>1 DEF Cyc, hz
<1>6. Cyc(n) \in Nat /\ Cyc(n) * hz <= 100000 /\ 100000 < (Cyc(n) + 1) * hz
  BY <1>2, <1>5, Quotient
<1>7. 100000 \div hz <= 100000 \div ACC_HZ_MIN
  <2> DEFINE a == 100000
             b == ACC_HZ_MIN
  <2>1. a \in Nat /\ b \in Nat \ {0} /\ hz \in Nat \ {0} /\ b <= hz
    BY <1>1, <1>2
  <2> HIDE DEF a, b
  <2>2. a \div hz <= a \div b
    BY <2>1, QuotientFalls
  <2> QED
    BY <2>2 DEF a, b
<1>8. 100000 \div (ACC_HZ_MIN * TableLen) <= 100000 \div hz
  BY <1>2, <1>3, QuotientFalls
<1>9. 1 <= 100000 \div (ACC_HZ_MIN * TableLen)
  BY <1>3, <1>4, QuotientIs
<1>10. Cyc(TableLen - 1) \in Nat
  BY <1>3, <1>5, Quotient
<1>11. Cyc(n) \in 1 .. Word - 1 /\ Cyc(n) <= 100000 \div ACC_HZ_MIN
       /\ 1 <= Cyc(TableLen - 1) /\ Cyc(TableLen - 1) <= Cyc(n) /\ 100000 \div ACC_HZ_MIN \in Nat
  BY <1>1, <1>4, <1>5, <1>6, <1>7, <1>8, <1>9, <1>10, Quotient
<1>12. Num(n) \in Nat /\ Num(n) * Cyc(n) <= ACC_PERIOD * 100 /\ ACC_PERIOD * 100 < (Num(n) + 1) * Cyc(n)
  <2> DEFINE a == ACC_PERIOD * 100
             c == Cyc(n)
  <2>1. a \in Nat /\ c \in Nat \ {0}
    BY <1>1, <1>11
  <2>2. Num(n) = a \div c
    BY DEF Num
  <2> HIDE DEF a, c
  <2>3. Num(n) \in Nat /\ Num(n) * c <= a /\ a < (Num(n) + 1) * c
    BY <2>1, <2>2, Quotient
  <2> QED
    BY <2>3 DEF a, c
<1>13. Num(n) <= Most /\ Most \in Nat
  <2> DEFINE a == ACC_PERIOD * 100
             b == Cyc(TableLen - 1)
             c == Cyc(n)
  <2>1. a \in Nat /\ b \in Nat \ {0} /\ c \in Nat \ {0} /\ b <= c
    BY <1>1, <1>10, <1>11
  <2>2. Num(n) = a \div c /\ Most = a \div b
    BY DEF Num, Most
  <2> HIDE DEF a, b, c
  <2> QED
    BY <2>1, <2>2, QuotientFalls, Quotient
<1>14. 2 * Cyc(n) <= ACC_PERIOD * 100
  BY <1>1, <1>4, <1>11
<1>15. 2 <= Num(n)
  <2> DEFINE a == ACC_PERIOD * 100
             c == Cyc(n)
  <2>1. a \in Nat /\ c \in Nat \ {0} /\ 2 \in Nat /\ 2 * c <= a
    BY <1>1, <1>11, <1>14
  <2>2. Num(n) = a \div c
    BY DEF Num
  <2> HIDE DEF a, c
  <2> QED
    BY <2>1, <2>2, QuotientIs
<1> QED
  BY <1>6, <1>11, <1>12, <1>13, <1>15 DEF hz

\* As many pulses as the fastest level has, for each of n levels, are a u16.
LEMMA SumFits ==
    ASSUME Table!Suitable, NEW n \in 0 .. TableLen
    PROVE  Most \in Nat /\ n * Most \in 0 .. Word - 1
<1>1. /\ ACC_HZ_MIN \in Nat \ {0} /\ ACC_PERIOD \in Nat \ {0} /\ TableLen \in Nat \ {0} /\ Word \in Nat \ {0}
      /\ TableLen * ((ACC_PERIOD * 100) \div (100000 \div (ACC_HZ_MIN * TableLen))) < Word
  BY SuitableTypes DEF Table!Suitable
<1>2. TableLen - 1 \in Steps /\ TableLen - 1 + 1 = TableLen
  BY <1>1 DEF Steps
<1>3. Cyc(TableLen - 1) \in 1 .. Word - 1 /\ Num(TableLen - 1) \in 2 .. Most
  BY <1>2, LevelFits
<1>4. Most \in Nat /\ TableLen * Most < Word
  BY <1>1, <1>2, <1>3, Quotient DEF Most, Num, Cyc
<1>5. n * Most <= TableLen * Most
  BY <1>1, <1>4, Monotone
<1>6. n * Most \in Nat /\ TableLen * Most \in Nat
  BY <1>1, <1>4
<1> QED
  BY <1>1, <1>4, <1>5, <1>6

\* Is the level's entry stored?
CycleIn(n) == loop # "cycle" \/ n < entry
PulsesIn(n) == loop \in {"first", "sum", "done"} \/ (loop = "pulse" /\ n < entry)
SumIn(n) == loop = "done" \/ (loop = "sum" /\ n < entry)

\* What the loops have computed so far.
TableTyped ==
    /\ loop \in {"cycle", "pulse", "first", "sum", "done"}
    /\ loop \in {"cycle", "pulse"} => entry \in Steps
    /\ loop = "sum" => entry \in Steps \ {0}
    /\ cycles \in [Steps -> Nat] /\ pulses \in [Steps -> Nat] /\ sums \in [Steps -> Nat]
Computed ==
    /\ \A n \in Steps : CycleIn(n) => cycles[n] = Cyc(n)
    /\ \A n \in Steps : PulsesIn(n) => pulses[n] = Num(n)
Summed ==
    /\ SumIn(0) => sums[0] = Num(0)
    /\ \A n \in Steps \ {0} : SumIn(n) => sums[n] = sums[n - 1] + Num(n)
    /\ \A n \in Steps : SumIn(n) => sums[n] <= (n + 1) * Most
    /\ \A m, n \in Steps : SumIn(n) /\ m <= n => sums[m] <= sums[n]
TableInv == TableTyped /\ Computed /\ Summed

\* The first loop keeps the invariant.
LEMMA CycleStep ==
    ASSUME Table!Suitable, TableInv, Table!Cycle
    PROVE  TableInv'
<1>0. /\ loop = "cycle" /\ entry \in Steps /\ TableLen \in Nat \ {0} /\ Word \in Nat \ {0}
      /\ cycles \in [Steps -> Nat] /\ pulses \in [Steps -> Nat] /\ sums \in [Steps -> Nat]
  BY SuitableTypes DEF TableInv, TableTyped, Table!Cycle
<1>1. /\ cycles' = [cycles EXCEPT ![entry] = Cyc(entry) % Word]
      /\ pulses' = pulses /\ sums' = sums
      /\ IF entry = TableLen - 1 THEN loop' = "pulse" /\ entry' = 0
         ELSE loop' = "cycle" /\ entry' = entry + 1
  BY <1>0 DEF Table!Cycle, Table!Advance, Cyc
<1>2. Cyc(entry) \in 1 .. Word - 1
  BY <1>0, LevelFits
<1>3. Cyc(entry) % Word = Cyc(entry) /\ Cyc(entry) \in Nat
  BY <1>0, <1>2
<1>4. TableTyped'
  <2>1. cycles' \in [Steps -> Nat]
    <3> DEFINE v == Cyc(entry) % Word
    <3>1. v \in Nat /\ cycles' = [cycles EXCEPT ![entry] = v]
      BY <1>1, <1>3
    <3> HIDE DEF v
    <3> QED
      BY <1>0, <3>1
  <2>2. /\ loop' \in {"cycle", "pulse"} /\ entry' \in Steps
    BY <1>0, <1>1 DEF Steps
  <2> QED
    BY <1>0, <1>1, <2>1, <2>2 DEF TableTyped
<1>5. \A n \in Steps : CycleIn(n)' => n = entry \/ CycleIn(n)
  <2>1. CASE entry = TableLen - 1
    <3>1. \A n \in Steps : n = entry \/ n < entry
      BY <1>0, <2>1 DEF Steps
    <3> QED
      BY <3>1, <1>0 DEF CycleIn
  <2>2. CASE entry # TableLen - 1
    <3>1. loop' = "cycle" /\ entry' = entry + 1
      BY <1>1, <2>2
    <3>2. \A n \in Steps : n < entry + 1 => n = entry \/ n < entry
      BY <1>0 DEF Steps
    <3> QED
      BY <3>1, <3>2, <1>0 DEF CycleIn
  <2> QED
    BY <2>1, <2>2
<1>6. Computed'
  <2>1. ASSUME NEW n \in Steps, CycleIn(n)' PROVE cycles'[n] = Cyc(n)
    BY <1>0, <1>1, <1>3, <1>5, <2>1 DEF TableInv, Computed
  <2>2. \A n \in Steps : ~PulsesIn(n)'
    BY <1>0, <1>1 DEF PulsesIn, Steps
  <2> QED
    BY <2>1, <2>2 DEF Computed
<1>7. Summed'
  BY <1>0, <1>1 DEF Summed, SumIn
<1> QED
  BY <1>4, <1>6, <1>7 DEF TableInv

\* The second loop keeps it: no period is zero, and no quotient is cut.
LEMMA PulsesStep ==
    ASSUME Table!Suitable, TableInv, Table!Pulses
    PROVE  TableInv'
<1>0. /\ loop = "pulse" /\ entry \in Steps /\ TableLen \in Nat \ {0} /\ Word \in Nat \ {0}
      /\ cycles \in [Steps -> Nat] /\ pulses \in [Steps -> Nat] /\ sums \in [Steps -> Nat]
  BY SuitableTypes DEF TableInv, TableTyped, Table!Pulses
<1>1. /\ pulses' = [pulses EXCEPT ![entry] = Num(entry) % Word]
      /\ cycles' = cycles /\ sums' = sums
      /\ IF entry = TableLen - 1 THEN loop' = "first" /\ entry' = 0
         ELSE loop' = "pulse" /\ entry' = entry + 1
  <2>1. cycles[entry] = Cyc(entry)
    BY <1>0 DEF TableInv, Computed, CycleIn
  <2> QED
    BY <1>0, <2>1 DEF Table!Pulses, Table!Advance, Num
<1>2. Num(entry) \in 2 .. Most /\ Most \in 0 .. Word - 1
  <2>1. Num(entry) \in 2 .. Most
    BY <1>0, LevelFits
  <2>2. Most \in Nat /\ 1 * Most \in 0 .. Word - 1
    BY <1>0, SumFits
  <2> QED
    BY <2>1, <2>2
<1>3. Num(entry) % Word = Num(entry) /\ Num(entry) \in Nat
  BY <1>0, <1>2
<1>4. TableTyped'
  <2>1. pulses' \in [Steps -> Nat]
    <3> DEFINE v == Num(entry) % Word
    <3>1. v \in Nat /\ pulses' = [pulses EXCEPT ![entry] = v]
      BY <1>1, <1>3
    <3> HIDE DEF v
    <3> QED
      BY <1>0, <3>1
  <2>2. /\ loop' \in {"first", "pulse"} /\ entry' \in Steps
    BY <1>0, <1>1 DEF Steps
  <2> QED
    BY <1>0, <1>1, <2>1, <2>2 DEF TableTyped
<1>5. \A n \in Steps : PulsesIn(n)' => n = entry \/ PulsesIn(n)
  <2>1. CASE entry = TableLen - 1
    <3>1. \A n \in Steps : n = entry \/ n < entry
      BY <1>0, <2>1 DEF Steps
    <3> QED
      BY <3>1, <1>0 DEF PulsesIn
  <2>2. CASE entry # TableLen - 1
    <3>1. loop' = "pulse" /\ entry' = entry + 1
      BY <1>1, <2>2
    <3>2. \A n \in Steps : n < entry + 1 => n = entry \/ n < entry
      BY <1>0 DEF Steps
    <3> QED
      BY <3>1, <3>2, <1>0 DEF PulsesIn
  <2> QED
    BY <2>1, <2>2
<1>6. Computed'
  <2>1. ASSUME NEW n \in Steps, PulsesIn(n)' PROVE pulses'[n] = Num(n)
    BY <1>0, <1>1, <1>3, <1>5, <2>1 DEF TableInv, Computed
  <2>2. ASSUME NEW n \in Steps PROVE cycles'[n] = Cyc(n)
    BY <1>0, <1>1 DEF TableInv, Computed, CycleIn
  <2> QED
    BY <2>1, <2>2 DEF Computed
<1>7. Summed'
  BY <1>0, <1>1 DEF Summed, SumIn
<1> QED
  BY <1>4, <1>6, <1>7 DEF TableInv

\* The first sum keeps it.
LEMMA FirstStep ==
    ASSUME Table!Suitable, TableInv, Table!FirstSum
    PROVE  TableInv'
<1>0. /\ loop = "first" /\ TableLen \in Nat \ {0} /\ 0 \in Steps
      /\ cycles \in [Steps -> Nat] /\ pulses \in [Steps -> Nat] /\ sums \in [Steps -> Nat]
  <2>1. loop = "first"
    BY DEF Table!FirstSum
  <2>2. TableLen \in Nat \ {0} /\ 0 \in Steps
    BY SuitableTypes DEF Steps
  <2> QED
    BY <2>1, <2>2 DEF TableInv, TableTyped
<1>1. /\ sums' = [sums EXCEPT ![0] = pulses[0]]
      /\ cycles' = cycles /\ pulses' = pulses /\ entry' = 1
      /\ loop' = IF TableLen > 1 THEN "sum" ELSE "done"
  BY DEF Table!FirstSum
<1>2. pulses[0] = Num(0)
  BY <1>0 DEF TableInv, Computed, PulsesIn
<1>3. Num(0) \in Nat /\ Num(0) <= Most
  BY <1>0, LevelFits
<1>4. TableTyped'
  BY <1>0, <1>1 DEF TableTyped, Steps
<1>5. \A n \in Steps : SumIn(n)' => n = 0
  BY <1>0, <1>1 DEF SumIn, Steps
<1>6. Computed'
  BY <1>0, <1>1 DEF TableInv, Computed, CycleIn, PulsesIn
<1>7. Summed'
  <2>1. sums'[0] = Num(0) /\ sums'[0] <= (0 + 1) * Most
    <3>1. Most \in Nat
      BY <1>0, SumFits
    <3> QED
      BY <1>0, <1>1, <1>2, <1>3, <3>1
  <2>2. \A m \in Steps : m <= 0 => m = 0
    BY DEF Steps
  <2>3. sums'[0] <= sums'[0]
    BY <1>0, <1>1
  <2> QED
    BY <1>5, <2>1, <2>2, <2>3 DEF Summed
<1> QED
  BY <1>4, <1>6, <1>7 DEF TableInv

\* The last loop keeps it: no sum is cut.
LEMMA SumsStep ==
    ASSUME Table!Suitable, TableInv, Table!Sums
    PROVE  TableInv'
<1>0. /\ loop = "sum" /\ entry \in Steps \ {0} /\ entry - 1 \in Steps /\ TableLen \in Nat \ {0} /\ Word \in Nat \ {0}
      /\ cycles \in [Steps -> Nat] /\ pulses \in [Steps -> Nat] /\ sums \in [Steps -> Nat]
  <2>1. loop = "sum" /\ entry \in Steps \ {0}
    BY DEF TableInv, TableTyped, Table!Sums
  <2>2. TableLen \in Nat \ {0} /\ Word \in Nat \ {0}
    BY SuitableTypes
  <2>3. entry - 1 \in Steps
    BY <2>1, <2>2 DEF Steps
  <2> QED
    BY <2>1, <2>2, <2>3 DEF TableInv, TableTyped
<1>1. /\ sums' = [sums EXCEPT ![entry] = (sums[entry - 1] + pulses[entry]) % Word]
      /\ cycles' = cycles /\ pulses' = pulses
      /\ IF entry = TableLen - 1 THEN loop' = "done" /\ entry' = 0
         ELSE loop' = "sum" /\ entry' = entry + 1
  BY <1>0 DEF Table!Sums, Table!Advance
<1>2. pulses[entry] = Num(entry)
  BY <1>0 DEF TableInv, Computed, PulsesIn
<1>3. Num(entry) \in Nat /\ Num(entry) <= Most /\ Most \in Nat
  <2>1. Num(entry) \in 2 .. Most
    BY <1>0, LevelFits
  <2>2. 0 \in 0 .. TableLen
    BY <1>0
  <2>3. Most \in Nat
    BY <2>2, SumFits
  <2> QED
    BY <2>1, <2>3
<1>4. sums[entry - 1] \in Nat /\ sums[entry - 1] <= (entry - 1 + 1) * Most
  BY <1>0 DEF TableInv, Summed, SumIn, Steps
<1> DEFINE new == sums[entry - 1] + Num(entry)
<1>5. new \in Nat /\ new <= (entry + 1) * Most /\ new >= sums[entry - 1]
  <2>1. (entry + 1) * Most = (entry - 1 + 1) * Most + Most /\ (entry - 1 + 1) * Most \in Nat
    BY <1>0, <1>3 DEF Steps
  <2> QED
    BY <1>3, <1>4, <2>1
<1>6. (entry + 1) * Most \in 0 .. Word - 1
  BY <1>0, SumFits DEF Steps
<1> HIDE DEF new
<1>7. sums' = [sums EXCEPT ![entry] = new]
  <2>1. new % Word = new
    BY <1>0, <1>5, <1>6
  <2> QED
    BY <1>1, <1>2, <2>1 DEF new
<1>8. TableTyped'
  <2>1. sums' \in [Steps -> Nat]
    BY <1>0, <1>5, <1>7
  <2>2. (loop' = "done" \/ loop' = "sum") /\ (loop' = "sum" => entry' \in Steps \ {0})
    <3>1. CASE entry = TableLen - 1
      BY <1>1, <3>1
    <3>2. CASE entry # TableLen - 1
      <4>1. loop' = "sum" /\ entry' = entry + 1
        BY <1>1, <3>2
      <4>2. entry + 1 \in Steps \ {0}
        BY <1>0, <3>2 DEF Steps
      <4> QED
        BY <4>1, <4>2
    <3> QED
      BY <3>1, <3>2
  <2> QED
    BY <1>0, <1>1, <2>1, <2>2 DEF TableTyped
<1>9. \A n \in Steps : SumIn(n)' => n = entry \/ (SumIn(n) /\ n < entry)
  <2>1. ASSUME NEW n \in Steps, SumIn(n)' PROVE n <= entry
    <3>1. CASE entry = TableLen - 1
      BY <1>0, <3>1 DEF Steps
    <3>2. CASE entry # TableLen - 1
      <4>1. loop' = "sum" /\ entry' = entry + 1
        BY <1>1, <3>2
      <4>2. n < entry + 1
        BY <4>1, <2>1 DEF SumIn
      <4> QED
        BY <4>2, <1>0 DEF Steps
    <3> QED
      BY <3>1, <3>2
  <2> QED
    BY <2>1, <1>0 DEF SumIn, Steps
<1>10. Computed'
  BY <1>0, <1>1 DEF TableInv, Computed, CycleIn, PulsesIn
<1>11. \A n \in Steps : n # entry => sums'[n] = sums[n]
  BY <1>0, <1>7
<1>12. sums'[entry] = new
  BY <1>0, <1>7
<1>13. sums[0] = Num(0) /\ 0 \in Steps /\ 0 # entry
  BY <1>0 DEF TableInv, Summed, SumIn, Steps
<1>14. Summed'
  <2>1. ASSUME NEW n \in Steps \ {0}, SumIn(n)' PROVE sums'[n] = sums'[n - 1] + Num(n)
    <3>0. n - 1 \in Steps /\ n - 1 # n
      BY <1>0 DEF Steps
    <3>1. CASE n = entry
      BY <3>0, <3>1, <1>11, <1>12 DEF new
    <3>2. CASE n # entry
      <4>1. SumIn(n) /\ n < entry /\ n - 1 # entry
        BY <2>1, <3>2, <1>0, <1>9 DEF Steps
      <4>2. sums[n] = sums[n - 1] + Num(n)
        BY <4>1 DEF TableInv, Summed
      <4> QED
        BY <4>1, <4>2, <3>0, <3>2, <1>11
    <3> QED
      BY <3>1, <3>2
  <2>2. ASSUME NEW n \in Steps, SumIn(n)' PROVE sums'[n] <= (n + 1) * Most
    <3>1. CASE n = entry
      BY <3>1, <1>5, <1>12
    <3>2. CASE n # entry
      BY <2>2, <3>2, <1>9, <1>11 DEF TableInv, Summed
    <3> QED
      BY <3>1, <3>2
  <2>3. ASSUME NEW m \in Steps, NEW n \in Steps, SumIn(n)', m <= n PROVE sums'[m] <= sums'[n]
    <3>1. CASE n # entry
      <4>1. m # entry /\ SumIn(n)
        BY <2>3, <3>1, <1>0, <1>9 DEF Steps
      <4> QED
        BY <2>3, <3>1, <4>1, <1>11 DEF TableInv, Summed
    <3>2. CASE n = entry /\ m = entry
      BY <3>2, <1>5, <1>12
    <3>3. CASE n = entry /\ m # entry
      <4>1. m <= entry - 1 /\ SumIn(entry - 1)
        BY <2>3, <3>3, <1>0 DEF SumIn, Steps
      <4>2. sums[m] <= sums[entry - 1]
        BY <4>1, <1>0 DEF TableInv, Summed
      <4>3. sums[m] \in Nat
        BY <1>0
      <4> QED
        BY <4>2, <4>3, <3>3, <1>4, <1>5, <1>11, <1>12
    <3> QED
      BY <3>1, <3>2, <3>3
  <2>4. sums'[0] = Num(0)
    BY <1>11, <1>13
  <2> QED
    BY <2>1, <2>2, <2>3, <2>4 DEF Summed
<1> QED
  BY <1>8, <1>10, <1>14 DEF TableInv

\* What the tables are when they are done.
LEMMA TablesDone ==
    ASSUME Table!Suitable, TableInv
    PROVE  Table!TablesRight /\ (Table!Done /\ Word <= Half => RampTables(pulses, sums))
<1>1. SUFFICES ASSUME loop = "done"
               PROVE  Table!TablesRight /\ (Word <= Half => RampTables(pulses, sums))
  BY DEF Table!TablesRight, Table!TablesFitRamp, Table!LevelLastsAccPeriod, Table!LevelIsItsFrequency, Table!Done
<1>2. /\ cycles \in [Steps -> Nat] /\ pulses \in [Steps -> Nat] /\ sums \in [Steps -> Nat]
      /\ TableLen \in Nat \ {0} /\ Word \in Nat \ {0} /\ ACC_HZ_MIN \in Nat \ {0} /\ ACC_PERIOD \in Nat \ {0}
      /\ 0 \in Steps
  <2>1. TableLen \in Nat \ {0} /\ 0 \in Steps
    BY SuitableTypes DEF Steps
  <2> QED
    BY <2>1, SuitableTypes DEF TableInv, TableTyped
<1>3. \A n \in Steps : cycles[n] = Cyc(n) /\ pulses[n] = Num(n)
  BY <1>1 DEF TableInv, Computed, CycleIn, PulsesIn
<1>4. sums[0] = pulses[0] /\ \A n \in Steps \ {0} : sums[n] = sums[n - 1] + pulses[n]
  BY <1>1, <1>2, <1>3 DEF TableInv, Summed, SumIn
<1>5. \A m, n \in Steps : m <= n => sums[m] <= sums[n]
  BY <1>1 DEF TableInv, Summed, SumIn
<1>6. \A n \in Steps : pulses[n] \in 2 .. Word - 1
  <2>1. ASSUME NEW n \in Steps PROVE pulses[n] \in 2 .. Word - 1
    <3>1. Num(n) \in 2 .. Most
      BY LevelFits
    <3>2. Most \in Nat /\ 1 * Most \in 0 .. Word - 1
      BY <1>2, SumFits
    <3> QED
      BY <1>2, <1>3, <3>1, <3>2
  <2> QED
    BY <2>1
<1>7. Table!TablesFitRamp
  BY <1>2, <1>4, <1>6 DEF Table!TablesFitRamp, Table!Index, Steps
<1>8. Table!LevelLastsAccPeriod
  <2>1. ASSUME NEW n \in Steps
        PROVE  ACC_PERIOD * 100 - pulses[n] * cycles[n] \in 0 .. cycles[n] - 1
    <3>1. Num(n) * Cyc(n) <= ACC_PERIOD * 100 /\ (Num(n) + 1) * Cyc(n) > ACC_PERIOD * 100
      BY LevelFits
    <3>2. pulses[n] \in Nat /\ cycles[n] \in Nat /\ pulses[n] = Num(n) /\ cycles[n] = Cyc(n)
      BY <1>2, <1>3
    <3> QED
      BY <3>1, <3>2, <1>2
  <2> QED
    BY <2>1 DEF Table!LevelLastsAccPeriod, Table!Index, Steps
<1>9. Table!LevelIsItsFrequency
  <2>1. ASSUME NEW n \in Steps
        PROVE  /\ cycles[n] * (ACC_HZ_MIN * (n + 1)) <= 100000
               /\ (cycles[n] + 1) * (ACC_HZ_MIN * (n + 1)) > 100000
    <3>1. Cyc(n) * (ACC_HZ_MIN * (n + 1)) <= 100000 /\ (Cyc(n) + 1) * (ACC_HZ_MIN * (n + 1)) > 100000
      BY LevelFits
    <3> QED
      BY <3>1, <1>3
  <2> QED
    BY <2>1 DEF Table!LevelIsItsFrequency, Table!Index, Steps
<1>10. ASSUME Word <= Half PROVE RampTables(pulses, sums)
  <2>1. pulses \in [Steps -> 2 .. Half - 1]
    BY <1>2, <1>6, <1>10, SizesAssumption
  <2> QED
    BY <2>1, <1>2, <1>4, <1>5 DEF RampTables
<1> QED
  BY <1>7, <1>8, <1>9, <1>10 DEF Table!TablesRight

\* vPTOConfig computes tables of the documented acceleration and frequencies, with
\* nothing cut to 16 bits, and they are what PTO assumes of its tables: for every
\* acceleration, number of levels and width of a table entry that suit each other.
THEOREM TablesComputed ==
    Table!Suitable /\ Word <= Half /\ Table!TableSpec
        => [](Table!TablesRight /\ (Table!Done => RampTables(pulses, sums)))
<1>1. ASSUME Table!Suitable, Word <= Half
      PROVE  Table!TableSpec => [](Table!TablesRight /\ (Table!Done => RampTables(pulses, sums)))
  <2>1. Table!TableInit => TableInv
    <3>1. SUFFICES ASSUME Table!TableInit PROVE TableInv
      OBVIOUS
    <3>2. /\ loop = "cycle" /\ entry = 0 /\ TableLen \in Nat \ {0}
          /\ cycles = [n \in Steps |-> 0] /\ pulses = [n \in Steps |-> 0] /\ sums = [n \in Steps |-> 0]
      <4>1. Table!Index = Steps
        BY DEF Table!Index, Steps
      <4>2. TableLen \in Nat \ {0}
        BY <1>1, SuitableTypes
      <4>3. /\ loop = "cycle" /\ entry = 0
            /\ cycles = [n \in Table!Index |-> 0] /\ pulses = [n \in Table!Index |-> 0]
            /\ sums = [n \in Table!Index |-> 0]
        BY <3>1 DEF Table!TableInit
      <4> QED
        BY <4>1, <4>2, <4>3
    <3>3. \A n \in Steps : ~CycleIn(n) /\ ~PulsesIn(n) /\ ~SumIn(n)
      BY <3>2 DEF CycleIn, PulsesIn, SumIn, Steps
    <3>4. TableTyped
      BY <3>2 DEF TableTyped, Steps
    <3>5. ~SumIn(0)
      BY <3>2 DEF SumIn
    <3> QED
      BY <3>3, <3>4, <3>5 DEF TableInv, Computed, Summed
  <2>2. TableInv /\ [Table!TableNext]_Table!tvars => TableInv'
    <3>1. SUFFICES ASSUME TableInv, [Table!TableNext]_Table!tvars PROVE TableInv'
      OBVIOUS
    <3>2. CASE UNCHANGED Table!tvars
      BY <3>1, <3>2 DEF Table!tvars, TableInv, TableTyped, Computed, Summed, CycleIn, PulsesIn, SumIn
    <3> QED
      BY <1>1, <3>1, <3>2, CycleStep, PulsesStep, FirstStep, SumsStep DEF Table!TableNext
  <2>3. TableInv => Table!TablesRight /\ (Table!Done => RampTables(pulses, sums))
    BY <1>1, TablesDone
  <2> QED
    BY <2>1, <2>2, <2>3, PTL DEF Table!TableSpec
<1> QED
  BY <1>1
================================================================================
