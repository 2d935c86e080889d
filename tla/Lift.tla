---------------------------------- MODULE Lift ---------------------------------
(***************************************************************************)
(* The lift task of src/APP/taskLIFT.c.  The communication task posts      *)
(* commands as event flags (prvLift); vTaskLIFT takes them, sends messages *)
(* to the lift over UART4, and keeps the position of the lift as the time  *)
(* it has travelled, in ticks.                                             *)
(*                                                                         *)
(* Abstractions.  A message is the motion it commands, and the lift obeys  *)
(* when its last byte is out.  The task has the highest priority of the    *)
(* application (app_cfg.h): the communication task runs only while this    *)
(* one waits for a flag or in OSTimeDly, and between two sends of the task *)
(* no tick passes.  Debug output is left out.  Nothing reads the flash     *)
(* page back, so how far a power loss lets ToStore come is not told apart. *)
(***************************************************************************)
EXTENDS Integers, FiniteSets

CONSTANTS
    TimeMod,            \* 2^32, the modulus of OSTimeGet
    StartTime,          \* OSTimeGet at the first step considered
    SendTicks,          \* ticks it takes to send a message (7 bytes, 9600 baud)
    LiftTime_calibration,   \* 0
    PresetCount,        \* 512, the length of PreSet_Position
    Numbers,            \* the preset numbers of the hosts: any u16 in the code,
                        \* which checks none
    Garbage,            \* what a read past PreSet_Position may return
    StoredWords,        \* 256, the words written to flash
    Hosts,              \* the hosts considered, see MayPost
    MaxTicks,           \* bound: ticks in a behaviour, but for the ticks that
                        \* end a send or a delay
    MaxPosts            \* bound: commands in a behaviour, for each host

Flags == {"Up", "Down", "Stop", "Set", "Invoke", "Get", "ToStore"}
Presets == 0 .. PresetCount - 1

ASSUME LiftAssumption ==
    /\ TimeMod \in Nat \ {0}
    /\ StartTime \in 0 .. TimeMod - 1
    /\ SendTicks \in Nat /\ MaxTicks \in Nat
    /\ MaxPosts \in [Hosts -> Nat]
    /\ LiftTime_calibration = 0
    /\ PresetCount \in Nat \ {0} /\ StoredWords \in 0 .. PresetCount
    /\ Numbers \subseteq Nat /\ Garbage \subseteq Int
    /\ Hosts \subseteq {"orderly", "single", "any"}

VARIABLES
    LiftStatus,         \* the flags posted and not yet consumed
    PreSet_Position_No, PreSet_Position, flash,
    Time_LiftTable,     \* the position the task believes in
    LiftValues, LiftValuesTemp,     \* the flags being handled, and the last ones
    Time_LiftTable_buf1, PreSetbuf,
    pc, left,           \* what the task does, and the ticks until it is done
    OSTime,             \* OSTimeGet
    moving, real,       \* the lift: its motion, and its true position
    host,
    drift,              \* history: the error known to be in Time_LiftTable
    misled,             \* history: the lift moved unseen by the task
    ticks, posts

(* drift counts SendTicks for every invocation, since the lift moves on    *)
(* while the stop message is sent, and a tick for every move measured      *)
(* across a wrap of the system time.  misled tells that a command hid a    *)
(* motion from the stop after it, that the preset number changed during an *)
(* invocation, that a number past the table was used, or that the task     *)
(* started over while the lift was elsewhere.                              *)

store == << PreSet_Position, flash >>
lift == << moving, real >>
history == << host, drift, misled >>
clock == << OSTime, ticks >>
liftvars == << LiftStatus, PreSet_Position_No, store, Time_LiftTable, LiftValues,
              LiftValuesTemp, Time_LiftTable_buf1, PreSetbuf, pc, left, clock,
              lift, history, posts >>

LiftInit ==
    /\ LiftStatus = {} /\ PreSet_Position_No = 0
    /\ PreSet_Position = [n \in Presets |-> 0] /\ flash = [n \in Presets |-> 0]
    /\ Time_LiftTable = 0 /\ LiftValues = {} /\ LiftValuesTemp = {}
    /\ Time_LiftTable_buf1 \in {0, TimeMod - 1}     \* uninitialised
    /\ PreSetbuf = 0
    /\ pc = "pend" /\ left = 0
    /\ OSTime = StartTime
    /\ moving = "stop" /\ real = 0
    /\ host \in Hosts /\ drift = 0 /\ misled = FALSE
    /\ ticks = 0 /\ posts = 0

-----------------------------------------------------------------------------
(* Time and the host.                                                      *)

\* A tick: the lift moves, down from the top, which is position 0.
Tick ==
    /\ \/ left > 0
       \/ ticks < MaxTicks /\ (pc = "fault" \/ (pc = "pend" /\ LiftStatus = {}))
    /\ ticks' = IF ticks < MaxTicks THEN ticks + 1 ELSE ticks
    /\ OSTime' = IF OSTime = TimeMod - 1 THEN 0 ELSE OSTime + 1
    /\ left' = IF left > 0 THEN left - 1 ELSE 0
    /\ real' = CASE moving = "down" -> real + 1
                 [] moving = "up" /\ real > 0 -> real - 1
                 [] OTHER -> real
    /\ UNCHANGED << LiftStatus, PreSet_Position_No, store, Time_LiftTable,
                    LiftValues, LiftValuesTemp, Time_LiftTable_buf1, PreSetbuf,
                    pc, moving, history, posts >>

\* An orderly host stops the lift before anything but a reversal, waits for the end
\* of an invocation, and knows how many presets there are; a single-minded one sends
\* one flag at a time.
MayPost(S, no) ==
    /\ posts < MaxPosts[host]
    /\ \/ pc = "pend" /\ LiftStatus = {}
       \/ pc = "dly" /\ left > 0 /\ host # "orderly"
    /\ host # "any" => Cardinality(S) = 1
    /\ host = "orderly" /\ moving # "stop" => S \subseteq {"Up", "Down", "Stop"}
    /\ host = "orderly" => no \in Presets

\* prvLift: a command with or without a preset number, stored as it comes.
PostFlags(S, no) ==
    /\ MayPost(S, no)
    /\ posts' = posts + 1
    /\ PreSet_Position_No' = no
    /\ LiftStatus' = LiftStatus \cup S
    /\ misled' = (misled \/ (pc = "dly" /\ no # PreSet_Position_No))
    /\ UNCHANGED << store, Time_LiftTable, LiftValues, LiftValuesTemp,
                    Time_LiftTable_buf1, PreSetbuf, pc, left, clock, lift,
                    host, drift >>

\* A power loss: the program starts over, the flash and the lift go on.
Restart ==
    /\ host = "any" /\ posts < MaxPosts[host]
    /\ posts' = posts + 1
    /\ LiftStatus' = {} /\ PreSet_Position_No' = 0
    /\ PreSet_Position' = [n \in Presets |-> 0]
    /\ Time_LiftTable' = 0 /\ LiftValues' = {} /\ LiftValuesTemp' = {}
    /\ Time_LiftTable_buf1' \in {0, TimeMod - 1}
    /\ PreSetbuf' = 0
    /\ pc' = "pend" /\ left' = 0
    /\ OSTime' = 0
    /\ misled' = ~(real = 0 /\ moving = "stop")
    /\ UNCHANGED << flash, ticks, lift, host, drift >>

-----------------------------------------------------------------------------
(* vTaskLIFT.                                                              *)

\* The ticks from Time_LiftTable_buf1 to now; one short across a wrap.
Wrapped == OSTime < Time_LiftTable_buf1
Time_LiftTable_buf ==
    OSTime - Time_LiftTable_buf1 + (IF Wrapped THEN TimeMod - 1 ELSE 0)

Drifts(n) == drift' = drift + n /\ UNCHANGED << host, misled >>
MeasureDrift == IF Wrapped THEN 1 ELSE 0
InvokeDrift == IF PreSetbuf = 0 THEN 0 ELSE SendTicks

NonNegative(t) == IF t < 0 THEN 0 ELSE t

\* The end of a case: LiftValuesTemp = LiftValues, after the clamp at 0.  Locals
\* that are written before they are read again are reset.
EndCase(table) ==
    /\ Time_LiftTable' = NonNegative(table)
    /\ LiftValuesTemp' = LiftValues
    /\ LiftValues' = {}
    /\ PreSetbuf' = 0
    /\ pc' = "pend" /\ left' = 0

Send(step) == pc' = step /\ left' = SendTicks

\* The task enters a case that goes on at step.
Enter(step) ==
    /\ Send(step)
    /\ UNCHANGED << Time_LiftTable, LiftValues, LiftValuesTemp, PreSetbuf >>

\* The commands after which the task knows how the lift moves.
Motions == {{"Up"}, {"Down"}, {"Stop"}}

\* OSFlagPend with OS_FLAG_CONSUME takes all flags there are.
OSFlagPend ==
    /\ pc = "pend" /\ LiftStatus # {}
    /\ LiftValues' = LiftStatus
    /\ LiftStatus' = {}
    /\ pc' = "switch" /\ left' = 0
    /\ misled' = (misled \/ (moving # "stop" /\ LiftStatus \notin Motions))
    /\ UNCHANGED << PreSet_Position_No, store, Time_LiftTable, LiftValuesTemp,
                    Time_LiftTable_buf1, PreSetbuf, clock, lift, host, drift, posts >>

Opposite(d) == IF d = "Up" THEN "Down" ELSE "Up"

\* case LiftUp, case LiftDown
Travel(d) ==
    /\ pc = "switch" /\ LiftValues = {d}
    /\ \/ LiftValuesTemp = {Opposite(d)} /\ Enter("reverse")
       \/ LiftValuesTemp = {d} /\ EndCase(Time_LiftTable)
       \/ LiftValuesTemp \notin {{"Up"}, {"Down"}} /\ Enter("start")
    /\ UNCHANGED << LiftStatus, PreSet_Position_No, store, Time_LiftTable_buf1,
                    clock, lift, history, posts >>

\* The stop message before a reversal is out.
Reverse ==
    /\ pc = "reverse" /\ left = 0
    /\ moving' = "stop"
    /\ Time_LiftTable' = IF LiftValues = {"Up"}
                         THEN Time_LiftTable + Time_LiftTable_buf
                         ELSE Time_LiftTable - Time_LiftTable_buf
    /\ Send("start")
    /\ UNCHANGED << LiftStatus, PreSet_Position_No, store, LiftValues,
                    LiftValuesTemp, Time_LiftTable_buf1, PreSetbuf, clock, real,
                    posts >>
    /\ Drifts(MeasureDrift)

\* The message that starts the lift is out.
Start ==
    /\ pc = "start" /\ left = 0
    /\ moving' = IF LiftValues = {"Up"} THEN "up" ELSE "down"
    /\ Time_LiftTable_buf1' = OSTime
    /\ EndCase(Time_LiftTable)
    /\ UNCHANGED << LiftStatus, PreSet_Position_No, store, clock, real, history, posts >>

BeginStop ==
    /\ pc = "switch" /\ LiftValues = {"Stop"}
    /\ Enter("stop")
    /\ UNCHANGED << LiftStatus, PreSet_Position_No, store, Time_LiftTable_buf1,
                    clock, lift, history, posts >>

\* Mutant: an upward move is not cut at the top.
StopUncut ==
    /\ pc = "stop" /\ left = 0
    /\ moving' = "stop"
    /\ EndCase(CASE LiftValuesTemp = {"Down"} -> Time_LiftTable + Time_LiftTable_buf
                 [] LiftValuesTemp = {"Up"} -> Time_LiftTable_buf - Time_LiftTable
                 [] OTHER -> Time_LiftTable)
    /\ UNCHANGED << LiftStatus, PreSet_Position_No, store, Time_LiftTable_buf1,
                    clock, real, posts >>
    /\ Drifts(MeasureDrift)

\* case LiftStop, when its message is out
Stop ==
    /\ pc = "stop" /\ left = 0
    /\ moving' = "stop"
    /\ EndCase(CASE LiftValuesTemp = {"Down"} -> Time_LiftTable + Time_LiftTable_buf
                 [] LiftValuesTemp = {"Up"} /\ Time_LiftTable <= Time_LiftTable_buf -> 0
                 [] LiftValuesTemp = {"Up"} /\ Time_LiftTable > Time_LiftTable_buf ->
                        Time_LiftTable - Time_LiftTable_buf
                 [] OTHER -> Time_LiftTable)
    /\ UNCHANGED << LiftStatus, PreSet_Position_No, store, Time_LiftTable_buf1,
                    clock, real, posts >>
    /\ Drifts(MeasureDrift)

\* PreSet_Position[PreSet_Position_No], also past the table.
InTable == PreSet_Position_No \in Presets
PresetRead == IF InTable THEN {PreSet_Position[PreSet_Position_No]} ELSE Garbage

\* case LiftPreSetPosition_Invoke
BeginInvoke ==
    /\ pc = "switch" /\ LiftValues = {"Invoke"}
    /\ \E p \in PresetRead : PreSetbuf' = p - Time_LiftTable
    /\ Send(IF PreSetbuf' = 0 THEN "arrive" ELSE "depart")
    /\ misled' = (misled \/ ~InTable)
    /\ UNCHANGED << LiftStatus, PreSet_Position_No, store, Time_LiftTable,
                    LiftValues, LiftValuesTemp, Time_LiftTable_buf1, clock, lift,
                    host, drift, posts >>

\* The message that starts the lift towards the preset is out: OSTimeDly.
Depart ==
    /\ pc = "depart" /\ left = 0
    /\ moving' = IF PreSetbuf > 0 THEN "down" ELSE "up"
    /\ Time_LiftTable_buf1' = OSTime
    /\ pc' = "dly"
    /\ left' = (IF PreSetbuf > 0 THEN PreSetbuf ELSE -PreSetbuf)
               - LiftTime_calibration
    /\ UNCHANGED << LiftStatus, PreSet_Position_No, store, Time_LiftTable,
                    LiftValues, LiftValuesTemp, PreSetbuf, clock, real, history, posts >>

EndDelay ==
    /\ pc = "dly" /\ left = 0
    /\ Enter("arrive")
    /\ UNCHANGED << LiftStatus, PreSet_Position_No, store, Time_LiftTable_buf1,
                    clock, lift, history, posts >>

\* Mutant: the invocation ends without the stop message.
EndInvokeMoving ==
    /\ pc = "arrive" /\ left = 0
    /\ moving' = moving
    /\ \E p \in PresetRead : EndCase(p)
    /\ UNCHANGED << LiftStatus, PreSet_Position_No, store, Time_LiftTable_buf1,
                    clock, real, posts >>
    /\ Drifts(InvokeDrift)

\* The stop message is out; the preset number is read again.
EndInvoke ==
    /\ pc = "arrive" /\ left = 0
    /\ moving' = "stop"
    /\ \E p \in PresetRead : EndCase(p)
    /\ UNCHANGED << LiftStatus, PreSet_Position_No, store, Time_LiftTable_buf1,
                    clock, real, posts >>
    /\ Drifts(InvokeDrift)

\* Mutant: whatever the last command was.
SetAnyTime ==
    /\ pc = "switch" /\ LiftValues = {"Set"}
    /\ PreSet_Position' =
          [PreSet_Position EXCEPT ![PreSet_Position_No] = Time_LiftTable]
    /\ misled' = (misled \/ ~InTable)
    /\ EndCase(Time_LiftTable)
    /\ UNCHANGED << LiftStatus, PreSet_Position_No, flash, Time_LiftTable_buf1,
                    clock, lift, host, drift, posts >>

\* case LiftPreSetPosition_Set.  A word past the table is no preset, and what it is
\* does not show until the task uses it: it counts as misled.
Set ==
    /\ pc = "switch" /\ LiftValues = {"Set"}
    /\ PreSet_Position' =
          IF LiftValuesTemp = {"Stop"}
          THEN [PreSet_Position EXCEPT ![PreSet_Position_No] = Time_LiftTable]
          ELSE PreSet_Position
    /\ misled' = (misled \/ (LiftValuesTemp = {"Stop"} /\ ~InTable))
    /\ EndCase(Time_LiftTable)
    /\ UNCHANGED << LiftStatus, PreSet_Position_No, flash, Time_LiftTable_buf1,
                    clock, lift, host, drift, posts >>

\* The entry past the table is outside the memory: the handler of the fault loops
\* for ever, once the stop message of an invocation is out.
HardFault ==
    /\ ~InTable
    /\ \/ pc = "switch" /\ LiftValues = {"Invoke"}
       \/ pc = "switch" /\ LiftValues = {"Set"} /\ LiftValuesTemp = {"Stop"}
       \/ pc = "arrive" /\ left = 0
    /\ pc' = "fault" /\ left' = 0
    /\ misled' = TRUE
    /\ moving' = IF pc = "arrive" THEN "stop" ELSE moving
    /\ UNCHANGED << LiftStatus, PreSet_Position_No, store, Time_LiftTable,
                    LiftValues, LiftValuesTemp, Time_LiftTable_buf1, PreSetbuf,
                    clock, real, host, drift, posts >>

\* case LiftPositionTostore: an erased word (-1) keeps no preset.
ToStore ==
    /\ pc = "switch" /\ LiftValues = {"ToStore"}
    /\ flash' = [n \in Presets |-> IF n < StoredWords THEN PreSet_Position[n] ELSE -1]
    /\ EndCase(Time_LiftTable)
    /\ UNCHANGED << LiftStatus, PreSet_Position_No, PreSet_Position,
                    Time_LiftTable_buf1, clock, lift, history, posts >>

\* case LiftPreSetPosition_Get, and every combination of flags
OtherCase ==
    /\ pc = "switch"
    /\ LiftValues = {"Get"} \/ Cardinality(LiftValues) > 1
    /\ EndCase(Time_LiftTable)
    /\ UNCHANGED << LiftStatus, PreSet_Position_No, store, Time_LiftTable_buf1,
                    clock, lift, history, posts >>

vTaskLIFT ==
    \/ OSFlagPend \/ Travel("Up") \/ Travel("Down") \/ Reverse \/ Start
    \/ BeginStop \/ Stop
    \/ BeginInvoke \/ Depart \/ EndDelay \/ EndInvoke
    \/ Set \/ ToStore \/ OtherCase \/ HardFault

LiftNext ==
    \/ Tick \/ vTaskLIFT \/ Restart
    \/ \E S \in SUBSET Flags, no \in Numbers :
          Cardinality(S) \in 1 .. 2 /\ PostFlags(S, no)

\* The clock ticks and the task runs; nothing makes the host post.
LiftSpec == LiftInit /\ [][LiftNext]_liftvars
FairSpec == LiftSpec /\ WF_liftvars(vTaskLIFT) /\ WF_liftvars(Tick)

-----------------------------------------------------------------------------
(* Properties.                                                             *)

LiftTypeOK ==
    /\ LiftStatus \subseteq Flags
    /\ PreSet_Position_No \in Nat
    /\ PreSet_Position \in [Presets -> Nat]
    /\ flash \in [Presets -> Nat \cup {-1}]
    /\ Time_LiftTable \in Int
    /\ pc # "start" => Time_LiftTable >= 0
    /\ LiftValues \subseteq Flags /\ LiftValuesTemp \subseteq Flags
    /\ Time_LiftTable_buf1 \in 0 .. TimeMod - 1
    /\ PreSetbuf \in Int
    /\ pc \in {"pend", "switch", "reverse", "start", "stop", "depart", "dly", "arrive",
              "fault"}
    /\ left \in Nat /\ (pc \in {"pend", "switch", "fault"} => left = 0)
    /\ OSTime \in 0 .. TimeMod - 1
    /\ moving \in {"up", "down", "stop"} /\ real \in Nat
    /\ host \in Hosts /\ drift \in Nat /\ misled \in BOOLEAN
    /\ ticks \in 0 .. MaxTicks /\ posts \in 0 .. MaxPosts[host]

Standing == pc = "pend" /\ LiftStatus = {} /\ moving = "stop"

\* Whenever the lift stands and the task waits, Time_LiftTable is its position,
\* but for the ticks each invocation overshoots and each wrap of the system time
\* hides: reversals, repeated commands, the clamps at the top, presets and flags
\* taken together add no error of their own.  Only four things lose the lift
\* (misled): a command that is no motion while the lift moves (taskLIFT.c:153),
\* a preset number that changes during an invocation (:122), a number past the
\* table (:102), and a start of the program with the lift elsewhere than at the
\* top (:15).
TableIsPosition ==
    ~misled /\ Standing => Time_LiftTable - real \in -drift .. drift

\* The strengthening that makes it inductive: at every statement of vTaskLIFT,
\* what the position will be once the lift is stopped, from the time it has moved
\* and the time it will move on.
Elapsed ==
    OSTime - Time_LiftTable_buf1 + (IF Wrapped THEN TimeMod ELSE 0)
Near(position) == position - real \in -drift .. drift

Moved(d) ==
    /\ LiftValuesTemp = {d}
    /\ moving = IF d = "Up" THEN "up" ELSE "down"
    /\ Near(IF d = "Up" THEN NonNegative(Time_LiftTable - Elapsed)
                        ELSE Time_LiftTable + Elapsed)

Still ==
    /\ moving = "stop"
    /\ Near(NonNegative(Time_LiftTable))

Sending ==
    /\ left <= SendTicks
    /\ Elapsed <= MaxTicks + SendTicks - left

Ready ==
    \/ Still /\ LiftValuesTemp \notin {{"Up"}, {"Down"}}
    \/ (Moved("Up") \/ Moved("Down")) /\ Elapsed <= ticks

Reversing ==
    /\ Sending
    /\ \/ LiftValues = {"Up"} /\ Moved("Down")
       \/ LiftValues = {"Down"} /\ Moved("Up")

Stopping ==
    /\ LiftValues = {"Stop"}
    /\ \/ Still /\ LiftValuesTemp \notin {{"Up"}, {"Down"}}
       \/ Sending /\ (Moved("Up") \/ Moved("Down"))

Invoked ==
    /\ LiftValues = {"Invoke"} /\ InTable
    /\ PreSet_Position[PreSet_Position_No] = Time_LiftTable + PreSetbuf

Travelling ==
    \/ /\ PreSetbuf > 0 /\ moving = "down" /\ left <= PreSetbuf
       /\ Near(Time_LiftTable + PreSetbuf - left)
    \/ /\ PreSetbuf < 0 /\ moving = "up" /\ left <= -PreSetbuf
       /\ Near(Time_LiftTable + PreSetbuf + left)

Arriving ==
    \/ PreSetbuf = 0 /\ Still
    \/ /\ PreSetbuf # 0 /\ left <= SendTicks
       /\ LET error == drift + SendTicks - left
          IN  Time_LiftTable + PreSetbuf - real \in -error .. error

\* At every statement of vTaskLIFT, the last command handled tells how the lift
\* moves, and the position and the measurement under way add up to where it is.
OnTrack ==
    ~misled =>
        /\ pc # "fault"
        /\ pc = "pend" => Ready
        /\ pc = "switch" => Ready /\ (moving # "stop" => LiftValues \in Motions)
        /\ pc = "reverse" => Reversing
        /\ pc = "start" => Still /\ LiftValues \in {{"Up"}, {"Down"}}
        /\ pc = "stop" => Stopping
        /\ pc = "depart" => Invoked /\ Still /\ PreSetbuf # 0
        /\ pc = "dly" => Invoked /\ Travelling
        /\ pc = "arrive" => Invoked /\ Arriving

\* A stop that is posted stops the lift, although it may have to wait for the
\* end of an invocation and may be taken together with what was posted then.
\* The host posts one flag at a time.
StopStops == host # "any" /\ "Stop" \in LiftStatus ~> moving = "stop"

\* A preset is only ever recorded from a lift that stands, whatever the host
\* posts and when: the last command handled (taskLIFT.c:125) tells whether it does.
SetStanding ==
    [][ PreSet_Position' # PreSet_Position => moving = "stop" \/ Restart ]_liftvars

\* Its strengthening: between a stop and the next command the lift stands.
StopIsLast ==
    /\ pc \in {"reverse", "start"} => LiftValues \in {{"Up"}, {"Down"}}
    /\ pc \in {"depart", "dly", "arrive"} => LiftValues = {"Invoke"}
    /\ pc \in {"pend", "switch"} /\ LiftValuesTemp = {"Stop"} => moving = "stop"
================================================================================
