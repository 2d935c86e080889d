-------------------------------- MODULE PTOTable -------------------------------
(***************************************************************************)
(* The ramp tables that vPTOConfig (src/BSP/PTO/pto.c) computes at start:  *)
(* the timer period of each level in 10 us units, the pulses emitted at    *)
(* the level, and their partial sums.  Its arrays are u16: a value stored  *)
(* is cut to 16 bits.  PTO.tla assumes of the tables what is checked here. *)
(***************************************************************************)
EXTENDS Integers

CONSTANTS
    ACC_HZ_MIN,         \* 200, the frequency of one level
    ACC_PERIOD,         \* 100, the milliseconds spent at a level
    TableLen,           \* 50
    Word                \* 2^16, the number of values of a u16

\* The constants suit each other: the shortest period is a timer unit at least,
\* the longest is a u16 and lasts half of ACC_PERIOD at most, and as many pulses
\* as the fastest level has, once for every level, are a u16.
Suitable ==
    /\ {ACC_HZ_MIN, ACC_PERIOD, TableLen, Word} \subseteq Nat \ {0}
    /\ ACC_HZ_MIN * TableLen <= 100000
    /\ 100000 \div ACC_HZ_MIN < Word
    /\ 2 * (100000 \div ACC_HZ_MIN) <= ACC_PERIOD * 100
    /\ TableLen * ((ACC_PERIOD * 100) \div (100000 \div (ACC_HZ_MIN * TableLen))) < Word

ASSUME TableConstants == Suitable

VARIABLES loop, i, MotorCycle_Buf, PulseNum_Buf, PulseNum_Sum_Buf

tvars == << loop, i, MotorCycle_Buf, PulseNum_Buf, PulseNum_Sum_Buf >>

Index == 0 .. TableLen - 1

TableInit ==
    /\ loop = "cycle" /\ i = 0
    /\ MotorCycle_Buf = [n \in Index |-> 0]
    /\ PulseNum_Buf = [n \in Index |-> 0]
    /\ PulseNum_Sum_Buf = [n \in Index |-> 0]

\* Advance i, or go on with the loop named next, from index first.
Advance(next, first) ==
    IF i = TableLen - 1
    THEN loop' = next /\ i' = first
    ELSE loop' = loop /\ i' = i + 1

Cycle ==
    /\ loop = "cycle"
    /\ MotorCycle_Buf' = [MotorCycle_Buf EXCEPT ![i] =
          (100000 \div (ACC_HZ_MIN * (i + 1))) % Word]
    /\ Advance("pulse", 0)
    /\ UNCHANGED << PulseNum_Buf, PulseNum_Sum_Buf >>

Pulses ==
    /\ loop = "pulse"
    /\ PulseNum_Buf' = [PulseNum_Buf EXCEPT ![i] =
          ((ACC_PERIOD * 100) \div MotorCycle_Buf[i]) % Word]
    /\ Advance("first", 0)
    /\ UNCHANGED << MotorCycle_Buf, PulseNum_Sum_Buf >>

FirstSum ==
    /\ loop = "first"
    /\ PulseNum_Sum_Buf' = [PulseNum_Sum_Buf EXCEPT ![0] = PulseNum_Buf[0]]
    /\ loop' = IF TableLen > 1 THEN "sum" ELSE "done"
    /\ i' = 1
    /\ UNCHANGED << MotorCycle_Buf, PulseNum_Buf >>

\* Mutant: the sum of the two last levels only.
SumOfTwo ==
    /\ loop = "sum"
    /\ PulseNum_Sum_Buf' = [PulseNum_Sum_Buf EXCEPT ![i] =
          (PulseNum_Buf[i - 1] + PulseNum_Buf[i]) % Word]
    /\ Advance("done", 0)
    /\ UNCHANGED << MotorCycle_Buf, PulseNum_Buf >>

Sums ==
    /\ loop = "sum"
    /\ PulseNum_Sum_Buf' = [PulseNum_Sum_Buf EXCEPT ![i] =
          (PulseNum_Sum_Buf[i - 1] + PulseNum_Buf[i]) % Word]
    /\ Advance("done", 0)
    /\ UNCHANGED << MotorCycle_Buf, PulseNum_Buf >>

TableNext == Cycle \/ Pulses \/ FirstSum \/ Sums

TableSpec == TableInit /\ [][TableNext]_tvars

-----------------------------------------------------------------------------
Done == loop = "done"

\* The tables satisfy what PTO.tla assumes of them: every level emits at least
\* the two pulses the first interrupts of a phase consume, and no sum was cut.
TablesFitRamp ==
    Done => /\ \A n \in Index : PulseNum_Buf[n] >= 2
            /\ PulseNum_Sum_Buf[0] = PulseNum_Buf[0]
            /\ \A n \in Index \ {0} :
                  PulseNum_Sum_Buf[n] = PulseNum_Sum_Buf[n - 1] + PulseNum_Buf[n]

\* The acceleration is ACC_HZ_MIN per ACC_PERIOD (pto.h:33): the pulses of a
\* level last ACC_PERIOD milliseconds, short of at most one pulse.
LevelLastsAccPeriod ==
    Done => \A n \in Index :
        ACC_PERIOD * 100 - PulseNum_Buf[n] * MotorCycle_Buf[n]
            \in 0 .. MotorCycle_Buf[n] - 1

\* Level n runs at (n+1) * ACC_HZ_MIN: its period is the longest whole number of
\* timer units that is not slower.
LevelIsItsFrequency ==
    Done => \A n \in Index :
        LET hz == ACC_HZ_MIN * (n + 1)
        IN  /\ MotorCycle_Buf[n] * hz <= 100000
            /\ (MotorCycle_Buf[n] + 1) * hz > 100000

\* The tables are those the ramp counts on (vPTOConfig): whole, of the documented
\* acceleration, at the documented frequencies.
TablesRight == TablesFitRamp /\ LevelLastsAccPeriod /\ LevelIsItsFrequency
================================================================================
