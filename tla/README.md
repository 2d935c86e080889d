# StepMotor in TLA+

A verification project for the firmware of a stepper-motor and lift controller
(STM32F107, uC/OS-II, lwIP, FatFs). TLC checks small instances of its modules,
TLAPS proves theorems for every instance. Paths below are relative to `src/`.

Contents: 1 the system, 2 the modules, 3 the runs, 4 what they show of the
code, 5 fairness, 6 the proofs, 7 what is not modelled, 8 what is left to do,
9 running the tools.

## 1. The system

`USER/main.c` initialises the board and starts uC/OS-II with one task,
`Task_Start` (`APP/app.c`), which creates the application tasks and deletes
itself. Tasks have fixed, distinct priorities (`APP/app_cfg.h`, a small number
is urgent) and are preempted by interrupts. They share globals, a few kernel
objects (an event-flag group, mailboxes, semaphores, a mutex) and one ring
buffer. The host computer talks to the device over USART1, the device to the
lift over UART4, and the motor hangs on the pulse output of timer TIM1.

| Component | Source | State | Operations | Correct when |
|---|---|---|---|---|
| PTO pulse generator | `BSP/PTO/pto.c` | ramp state, direction, absolute position, phase origin and index, TIM1 | `PTO_HZ_NUM`, `PTO_Home`, `PTO_Stop`, TIM1 update interrupt, limit interrupts EXTI1/EXTI4 | a move emits exactly its pulses, ends at its goal, accelerates one level at a time; a limit stops it for good |
| PTO ramp tables | `BSP/PTO/pto.c` `vPTOConfig` | period, pulse and partial-sum tables | four loops at start-up | the levels last `ACC_PERIOD` at their frequency, nothing is cut to 16 bits |
| UART receive path | `BSP/usart.c`, `USER/stm32f10x_it.c` | 256-byte ring, two u8 pointers, receiver flags | `FrameBufWrite` in the interrupt, `FrameBufRead` in the task | a queue; in order, at most once, whatever is lost |
| Communication task | `APP/taskCommunication.c` | parser state, current frame, send buffer | a byte at a time; a handler per command | exactly the well-formed frames are handled; replies are frames |
| Lift task | `APP/taskLIFT.c` | event flags, position as travel time, presets, flash page | up, down, stop, set, invoke, get, store | the position it keeps is that of the lift; stops stop; presets come from a standing lift |
| uC/OS-II kernel | `uCOS-II/Source` | ready list, wait lists, task control blocks | pend and post of five kinds of object, delay, suspend, interrupts | no wake-up and no message lost, the most urgent task runs, priority is inherited |
| Start-up, scheduling | `APP/app.c`, `APP/taskStepMotor.c`, `USER/main.c` | which tasks exist, who runs | task creation, priorities | every task that is created gets to run; kernel objects exist before use |
| USART1 transmitter | `BSP/usart.c`, `USER/main.c` | the data register | replies byte by byte; `printf` through `fputc` | a reply is not split by another task's output |
| Ultrasonic ranging | `APP/taskSR04.c` | echo stage, timer TIM2, mailbox, distance | trigger, echo interrupt, wait 5 ticks | a distance belongs to its own trigger |
| Temperature sensor | `APP/AM2305/task2305.c` | edge count, time stamps, semaphore | start pulse, edge interrupts, decode | only complete, checked readings are used |
| Real-time clock | `APP/taskRTC.c`, `BSP/rtc.c` | `time_now`, mutex | refresh, calibrate, report | readers see a consistent time |
| SD logger | `APP/taskMSD.c` | 16-record buffer, file of the day | append, flush, change of day | every record is written once, to the file of its day |
| FatFs | `FATFS_V0.09/src/ff.c`, `diskio.c` | window on a sector, file object, FAT, directory | `f_mount`, `f_open`, `f_write`, `f_sync`, `f_close` | sound chains after any failure; OK means stored |
| SD card driver | `BSP/SPI_SD_Card` | card type, SPI, the card's own state | commands, blocks, bounded retries | what was acknowledged is stored where it was meant; every call returns |
| lwIP system layer, timers | `LWIP/arch/sys_arch.c`, `core/timers.c`, `api/tcpip.c` | queues, semaphores, memory partition, list of timers | mailbox and semaphore calls of lwIP, fetch with timers | what is posted is fetched; timers go off in order, not early |
| TCP client, Ethernet | `LWIP/lwip_app`, `lwip-1.4.1/src/api`, `BSP/ENC28J60` | connection, receive mailbox, call under way | connect, receive, write, close, reconnect | a call is answered once; data in order; it reconnects |
| Encoder, timers, ADC | `BSP/encoder`, `BSP/TIMER`, `BSP/adc.c` | registers | set-up, conversions | nothing a model adds to |
| Vendored code | the rest of `LWIP`, `FATFS_V0.09`, `StdPeriph_Driver`, `CMSIS` | | | taken as the tasks call it |

How they interact. The host's bytes go through the USART1 interrupt into the
ring (FrameBuf), from the ring into the parser of `vTaskComm` (Comm), and a lift
frame from `prvLift` as flags and a preset number to `vTaskLIFT` (Lift). Comm
takes *any* byte sequence as its input, which covers everything FrameBuf can
deliver or lose; Lift takes any flags and any preset number Comm can hand it. The motor commands are
commented out in `prvMotor`, so the generator (PTO) is driven by any caller.
App puts the tasks on one processor: vTaskLIFT, vTaskComm, vTaskRTC and vTaskMSD
share the flags, the clock with its mutex, and USART1. Sensors does so for the
two sensor tasks, one of which suspends the other. The logger runs over FatFs,
FatFs over `diskio.c` and the card driver (MSD0, whose promise to FatFs is
`Stored` and `ReadsAre`). Net puts lwIP's thread, the client and the packets
that come in on one processor, over the kernel's queues and semaphores.

What is hard here: a limit interrupt inside the TIM1 interrupt or between two
assignments of `PTO_HZ_NUM`; arithmetic modulo 2^32 with `abs`; phases that
overlap by one pulse; the writer of the ring passing the reader; a parser that
must resynchronise on any garbage; a position reckoned from time with stops,
reversals and delays in between; the order in which unsynchronised tasks start;
answers that come after their time-out; posts, time-outs and promotions that meet
in one wait list; a power failure between any two writes of a file's data, chain
and directory entry; a card that answers late, not at all, or is another one;
a full mailbox that looks like a deleted one; and a connection whose other side shuts
its window. `PROJECT.json` lists these as
hazards, line by line, each with the properties that are about it.

## 2. The modules

| Module | Models | Composes with |
|---|---|---|
| `PTO` | the generator with its callers, TIM1 and both limit interrupts | |
| `PositionMove` | abstract: a move counts its distance one pulse at a time in one direction, or is interfered with | implemented by `PTO` |
| `PTOTable` | `vPTOConfig`, run with the real constants | shown by `PTO_proofs` to establish `TableAssumption` of `PTO` |
| `FrameBuf` | receiver, interrupt, ring, reader | |
| `ByteQueue` | abstract: a queue that may lose bytes before they are put | implemented by `FrameBuf` while the host pauses in time |
| `Comm` | parser and handlers | |
| `FrameCheck` | the check byte, a running exclusive or | used by `Comm`, `FrameGrammar` |
| `FrameGrammar` | abstract: the frames, and a receiver that follows, forgets or delivers | implemented by `Comm` |
| `Lift` | the lift task, the clock, the lift, restarts | |
| `OSCore`, `OSMbox`, `OSSem`, `OSMutex`, `OSQ`, `OSFlag` | the kernel: ready list, scheduler, wait lists, and the calls on each kind of object | used by all that follow with a kernel |
| `Rtos` | the kernel as one variable, a task's turn, the interrupt bracket | used by `SR04`, `AM2305`, `App`, `Net` |
| `Kernel` | arbitrary tasks over `OSMbox`, `OSSem`, `OSMutex` | |
| `Delivery` | abstract: a message accepted is returned once | implemented by `Kernel` |
| `SR04`, `AM2305` | the two sensors: task, interrupt, sensor | |
| `Sensors` | both over one kernel | `SR04`, `AM2305` |
| `App` | the application's tasks on one processor | `OSFlag`, `OSMutex` |
| `FatFs` | what the logger uses of `ff.c`, over a card of sectors | |
| `Logger` | the logger task, mishaps, restarts | `FatFs` |
| `DayLog` | abstract: a file for each day, to which records are added | implemented by `Logger` |
| `SDCard` | external: a card on the SPI bus, of five kinds | |
| `MSD0` | the card driver, a command, block or wait a step | `SDCard` |
| `SysTimeouts` | lwIP's list of timers, as operators | |
| `Timers` | abstract: a timer goes off when its time has passed, the earliest first | implemented by `Net` |
| `Net` | lwIP's thread, the client, a connection, packets | `OSQ`, `OSSem`, `SysTimeouts` |
| `MCPTO`, `MCComm`, `MCLift`, `MCKernel`, `MCApp` | constants for TLC | |
| `PTO_proofs`, `Commands_proofs` (of `FrameBuf`, `Comm` and `Lift`), `Kernel_proofs`, `Sensors_proofs`, `App_proofs`, `Storage_proofs` (of `MSD0`, `FatFs` and `Logger`), `Net_proofs` | theorems and proofs | |
| `OSCore_proofs` | lemmas: what each operator of the kernel changes, and what it leaves | `Kernel_proofs`, `Sensors_proofs`, `App_proofs`, `Net_proofs` |

**PTO.** Variables have the names of the code. `isr` is the stage of
`TIM1_UP_IRQHandler` (load of the position, store, switch, case), `pc` that of
the calling task: `rel` before reading the position, `dir` before setting the
direction, `plan` choosing the profile, then `go`, `cycle` and `enable` before the
last three statements of `PTO_HZ_NUM_Start`, which set the state, the period and the
timer. `PTO_HZ_NUM` is therefore `HzNum`, `ReadPosition`, `SetDirection`, `Plan` or
`NoMove`, `StartRamp`, `StartCycle`, `StartTimer`; `PTO_Home` is `Home`, `HomeCycle`,
`StartTimer`; an interrupt is `LoadPosition`, `StorePosition`, `Switch` and one of the
cases. A limit interrupt may come between any two of these. `PulseNum_Global` and the
differences wrap at 2*Half (2^32) and `abs` is that of an `s32`. A level stands for
a frequency and its period; it may be any number, as in the code, which cuts it to
a `u8` for the ramp (`Byte`) and compares it with no table: sums, pulses and periods
that are read outside the tables are any value of `Garbage`. `move`, `start`, `out` and
`caught` are history: how the command went, where it started, what it emitted, and
what the last limit came upon. A ramp planned beyond the tables makes a move
`broken`, as an interference does.

**FrameBuf.** Bytes are numbered by arrival. `Arrive` is the hardware, with the
overrun flag ORE; the interrupt is `EmptyRead` or `IRQEnter`, then
`FrameBufWrite` or `IRQNothing`, then `ClearPending`, with arrivals in between;
the reader is `ReadTest`, `ReadCopy`, `ReadAdvance`, between interrupts. The full
test keeps C's integer promotion: `FrameBufRptr - 1` is -1 at 0 and equals no
pointer. `Backlog` tells how far ahead of the reader the host runs at most; it
is chosen at the start.

**Comm.** One action per state of the parser, each with all its exits; a handler
is a record of what it uses and sends (`call`). After a data byte is stored the
parser keeps it: `FrameRData` is never cleared, and handlers do not look at
`RDataLen`, except `prvLift` for the preset number. A reply is built in `u8SendBuf` as
each handler does it: the indices of its values, its check and its end, the
bounds of the loop that sums the check, and the number of bytes sent are the code's own
literals, while the grammar that judges it has none of them. `State = 8`
is the call of the null entry in `pf`; nothing follows it.

**Lift.** `pc` is the statement `vTaskLIFT` is at: it waits for flags (`pend`),
dispatches (`switch`), or has a message under way (`reverse`, `start`, `stop`,
`depart`, `arrive`), or sleeps (`dly`); `left` counts the ticks until it is done.
Time passes only when the task waits, sleeps or sends. `moving` and `real` are
the lift itself. `drift` and `misled` are history: the ticks the code is known to
misjudge (SendTicks per invocation, one per measurement across a wrap of the
clock), and whether something happened that the code cannot know of. A preset number
is any of `Numbers`, stored as it comes: past `PreSet_Position` an invocation reads
a word of `Garbage`, or the task ends in `HardFault`. `host` tells how the host behaves:
`orderly` stops the lift before anything but a reversal, waits for invocations to end
and knows how many presets there are, `single` sends one flag at a time at any
moment, `any` sends combinations too. `Restart` is a power failure: the task begins again
at 0 with no preset, the lift goes on as it was told.

**The kernel** (`OSCore` and the calls). A kernel state is one record and a call
an operator from states to states, so that a step of a task can make several
calls in order. A critical section and the `OS_Sched()` that follows it are one
step: an interrupt in between ends in `OSIntExit()`, which schedules as well. A
call that may block is two: the part up to the context switch, and the tail the
task runs when it is scheduled again; in between `OSTCBStatPend` tells the tail
how the wait ended, as in the code. `OSTimeTick` leaves a task it has timed out in
the wait list, as the code does (`os_core.c:943`), until its tail takes it out. In
`Kernel` the running task makes any call, and `ISR_Enter`, posts and ticks come
between any two steps. `Careful` excludes what section 4 describes as phantom
bits.

**Sensors.** The task, its interrupt handler and the sensor are separate
actions; the handlers preempt either task between any two of its steps. `Noise`
counts edges that no sensor sent. The forty bits of the temperature sensor are
abstracted to *whose* edges the stamps are: of this answer, of an earlier one, or
foreign.

**App.** A build is the set of optional tasks it has. Each task is a loop of the
calls it makes on the shared objects: `vTaskComm` reads the ring, handles a frame
(`prvTimeGet`, `prvTimeCalibration`, `prvLift`, or another reply), sends its reply
a byte a step, sleeps. `time_now` is a record of two halves where it is copied
field by field, so that a torn read shows. `Conv` is what the calendar makes of a
time: the conversion to seconds subtracts no 1 from the month (`BSP/rtc.c:30-60`),
so December comes back as month 0. The passing of seconds is left out.

**FatFs, Logger.** FatFs is operators over a record (disk, window, file object).
A call of the code is computed as one operator; each read and write of a sector in
it is numbered, and `fault` says which of them fails: one, or all from one on. A
power failure at the n-th access is a call whose accesses fail from n on and
that is followed by a restart instead of its return. `Logger` is the task: open,
gather, write, sync; close and wait for the new day; remount. The card may also be
taken out and put back. Time is set by the host or stands still.

**MSD0, SDCard.** The driver's functions are unfolded into steps, `pc` names the
statement: one command, one block, or one wait. The card is external: it may be
slow, reject a block, lose a command or an answer (`MaxLost` in all), or be
exchanged between two steps.

**Net.** Three tasks over the kernel: `tcpip_thread` (with `sys_timeouts_mbox_fetch`),
the netconn client, and everything below, which hands packets to
`ethernetif_input`. Of TCP there are the callbacks it makes to the netconn layer
(connected, sent, data in order, close, reset, poll, error) and what becomes of the data
it sends, `conn.snd`: the segments queued (`TCP_SND_QUEUELEN`), whether some wait
unacknowledged or went back to be sent again, the window of the other side, and the
count of retransmissions, an u8. `tcp_tmr` counts one only with something unacked and
the window not at zero, where the persist timer takes over (`tcp.c:831-848`);
`DupAcks` has the fast retransmission, which counts as well; a connection is given up
when the count *equals* `TCP_MAXRTX` (`tcp.c:823-829`). A netconn call is posted to the
mailbox, done by the thread, and answered by `op_completed`; `conn.state` and
`conn.current_msg` say which callback is to finish it. `SysTimeouts` has the list of timers as the code keeps
it (differences), with the 1 ms it adds to each fetch and the 0xffffffff it takes
for a fetch within a tick (`SYS_ARCH_LONG` here).

## 3. The runs

A property named with several parts is the conjunction of definitions of the
module, each with its own comment.

| Run | Checks | Shows |
|---|---|---|
| `pto_calls` | MoveExact; LimitHolds (HomeZero, StoppedIsIdle, UncountedOnlyAfterLimit); ProfileFits (RampGradual, DropsOnlyShortMoves); KeepsPromise | calls while the motor stands, of any level, limits at any statement of a call and any stage of the TIM1 interrupt: moves end, exactly; limits stop for good, but for those inside the count or the switch; where the frequency jumps and distances are dropped |
| `pto_races` | OnCourse, ImplementsMove | calls during moves, limits inside the TIM1 interrupt, levels beyond the tables: what is proved holds on an instance |
| `pto_table` | TablesRight (TablesFitRamp, LevelLastsAccPeriod, LevelIsItsFrequency) | the real tables |
| `framebuf` | InOrder, ImplementsQueue, LapsOnlyAtZero | a host that pauses in time has a queue; one that does not keeps order and at-most-once; the ring is lapped only with the read pointer at 0 |
| `comm_frames` | RepliesAreFrames; HandlersSound (TypeOK, StaleOnlyIfShort, OnlyVersionHalts); ImplementsGrammar | exactly the frames are handled, replies are frames with the values reported, stale data only for short frames |
| `lift_hosts` | TableIsPosition, StopStops, SetStanding | the position is right but for a known drift, unless one of four things misled the task; stops stop; presets come from a standing lift |
| `kernel_calls` | Consistent (TypeOK, ListsAreWaiters, HighestRuns); NoLostWakeup; Inherits; NothingLost (KeepsMessages, HandedStays) | the kernel under any tasks: lists, inheritance, no message or wake-up lost |
| `sensors` | Undisturbed (TypeOK, HeldWhileMeasuring, OneCount, StampsFit); DistanceFresh; ReadingIsSensors; BothGoOn | late echoes and edges, one task suspending the other |
| `app` | ClockRight (TypeOK, MutualExclusion, ReplyCurrent, ClockKept, RecordWhole); FlagsWakeLift; ReplyUnbroken; TasksGoOn (HiddenNeverRun, OthersGoOn) | the tasks together: the clock, the flags, the transmitter, who runs |
| `logger` | VolumeSound (TypeOK, ChainsSound); ImplementsDayLog; DaysKept (RecordsOfTheirDay, NotTruncated); ResultsHold (OkIsStored, OpenWorks) | files through errors, power failures, a card taken out, and odd clocks |
| `card` | Remembers (TypeOK, Stored, LeavesNothing, ReadsAre); ReadyIfOk; Returns | the card driver against five kinds of card that are slow, lose answers, or are exchanged |
| `net` | CallsSound (TypeOK, AnsweredOnce, RoomForCalls); StuckForEver; StreamKept (InOrder, and nothing lost but by a full mailbox); TimersRight (ImplementsTimers, NotEarly); CallsReturn | the network side, with every end a connection may have, and windows and acknowledgements as the other side pleases |

Bounds, and why they are enough.

- *PTO*: ramps of two and of three levels (2+3, 2+3+4 pulses) have a first, a
  last and an inner level, so each branch of the switch is taken, at each of
  its borders; positions below 2*Half (40 and 32) make moves cross the wrap of the
  counter and of the sign; they include distances with an empty cruise, a short one,
  a shortened ramp, and none that fits. With `Byte` 8 and a table of three, level 4 is
  read past the tables, 8 is cut to no ramp at all, and 10 to the ramp of level 2. Two
  calls show what one leaves to the next, two limits take both branches of EXTI1.
- *PTOTable*: the real constants.
- *FrameBuf*: a ring of four; 10 bytes go round more than twice, so every pointer
  pair occurs at every stage of interrupt and reader. `Backlog` 5 never makes
  the host pause, 3 does so one byte before the ring is full.
- *Comm*: bytes of three bits, so head marks, commands, lengths and data
  coincide: every byte may be mistaken for any other. Two data bytes at most
  (MaxData 3), so there is a first and a last; the input is unbounded. Distance and
  temperature are every byte; the two times differ in each byte the check covers.
- *Lift*: six commands are what an orderly host needs to record a preset, leave it
  upwards and invoke it (four of a host that sends one flag at any moment, three of one
  that sends combinations); three numbers for two presets, one past the table; the clock wraps
  at 8 and starts at 6, so moves are measured across the wrap; two presets, one
  inside the stored part. A send takes one tick: the shortest that is not free.
- *Kernel*: three tasks and the idle task, so that an owner, a waiter and a task
  between them in priority exist; two messages, so that one may be in the box while
  another is handed over; waits for ever and for one tick. Nothing else is bounded.
- *Sensors*: an answer of three edges has a first, an inner and a last one; one
  foreign edge; echoes shorter and longer than the time-out. The ticks keep the
  order of the code's delays, time-outs and pulses.
- *App*: builds that let each optional task run at least once; a time whose month is
  12 and one whose is not; a reply of two bytes has an inside; `CommDelay` of two
  ticks, as a delay of one may end at once.
- *Logger*: three clusters and two entries for three names: the card and the
  directory can fill, chains have an inner link, and a name comes back. Two
  mishaps: an error and a failure during what follows it. The FAT takes two
  sectors, so that the window moves between an entry and its successor.
- *Card*: two sectors, so that a block may go to the wrong one, and an address in
  bytes differs from one in sectors; two tries stand for the 100 to 65535 of the
  code; one lost command or answer; one exchange.
- *Net*: two segments fill the receive mailbox, and the end of the data meets it full;
  room for one segment to send, so that a write fills it and the next one waits;
  one retransmission for a SYN and two for data, in a count of three values, so that
  the count passes the limit and wraps; a TCP timer of two ticks; two blocks, so that a
  second connection begins with what the first left. `tcpip_thread`'s mailbox has
  two entries for one packet in use and one call. A period of the timer stands for
  one retransmission time-out, and a packet that brings data and acknowledges is two.

## 4. What the runs show of the code

Properties are stated as the code keeps them; where it keeps less than its
comments promise, the exception is part of the property. In short:

- **PTO**. A limit interrupt that stops the motor inside `PTO_HZ_NUM` is followed by
  `TIM_Cmd(ENABLE)`: pulses with direction 0, uncounted (UncountedOnlyAfterLimit).
  A ramp that is shortened to fit the distance cruises at the frequency asked for:
  a jump at both ends of the cruise (RampGradual). A distance that no double ramp
  fits, equal to or below twice the first level, is dropped (DropsOnlyShortMoves). A
  limit inside the TIM1 interrupt, which it preempts, is undone in two cases, which are
  the exceptions of LimitHolds: inside the count the position read before the limit is
  stored over the 0 (HomeZero, `caught = "count"`), and inside the switch the case puts
  a state and a period of the ramp back, for the next homing to resume
  (StoppedIsIdle, `caught = "case"`). Nothing compares a frequency with the tables: from
  10 200 Hz on they are read past their ends, and from 51 200 Hz on the ramp is that of
  another frequency than the cruise.
- **FrameBuf**. The full test compares an `u8` with -1 when the read pointer is 0:
  there, and only there, the writer laps the reader, and the ring reads as empty.
- **Comm**. A frame shorter than its command needs is handled with bytes of an
  earlier one; a VERSION frame calls a null pointer.
- **Lift**. Four things mislead the position, each part of TableIsPosition: a command
  that is no motion between a start and its stop (a stop combined with other flags among
  them), a preset number that changes during an invocation, a number past the table,
  which `prvLift` takes and `taskLIFT.c:102`, `:122` and `:127` use as an index, and a
  restart with the lift elsewhere than at the top. The calibration that line 4 of
  `taskLIFT.c` says covers the time of a message is 0, and the wrap of the clock is measured
  a tick short (line 81): both are in `drift`. Storing the presets writes 256 of the 512
  erased words.
- **Kernel**. A promotion of a mutex owner that is timed out of another pend, or is
  suspended when its pend has been answered, leaves its old priority's bit in a wait
  list (`os_mutex.c:476`), and a later post then wakes nobody, or another task;
  a task that suspends itself with the scheduler locked does the like. `Careful`
  states the three rules under which no such bit arises; the tasks of this
  application keep them. `OSMutexPost` without waiters lowers the caller's priority
  and does not reschedule (`late`).
- **Sensors**. An echo after the five-tick time-out is read as the answer to the next
  trigger: the distance is then one trigger old (DistanceFresh). An edge counted
  between clearing the count and masking the interrupt is part of the next reading,
  which may then be all zeros, and passes its check sum (ReadingIsSensors).
- **App**. `vTaskStepMotor` and `vTaskRTC` never sleep: every task below them never
  runs (HiddenNeverRun). Until `vTaskRTC` has run the time is read and set without a
  mutex; the host's time is lost if set while the task is about to set its own
  (`raced`). A December comes back as month 0. What `vTaskLIFT` prints splits a reply if
  it slept through an invocation (ReplyUnbroken).
- **Logger**. `f_write` assigns the start cluster before it looks at `create_chain`'s
  result (`ff.c:2506`): after a disk error in a file's first write `f_sync` stores
  0xFFFFFFFF, and the next `f_open` of the name fails once with FR_INT_ERR. `f_close`
  returns FR_OK after an `f_sync` that failed late (2621). `disk_status` is always 0
  (`diskio.c:64`), so a card taken out and put back stays dead until a restart. A full
  disk is FR_OK with 0 bytes, and "write data ok". A restart sets `time_now` to its
  initial value and begins that day's file again; so does a clock that stands
  still at 23:59, every 78 seconds (NotTruncated).
- **Card**. `MSD0_Init` returns 0 without an initialized card when CMD8 has no or another
  answer, and without the capacity when ACMD41's answer was lost (CMD55 is then 00):
  a high-capacity card is then addressed by bytes. A block that takes too long is
  reported as failed and stored all the same. A call of several blocks that fails sends
  no stop token, and the next may store its blocks in the wrong sector (`stray`).
- **Net**. `sys_mbox_valid` is 0 for a *full* mailbox: a segment that meets one is
  acknowledged and dropped (`api_msg.c:228`), `netconn_recv` then fails for ever, and
  `netconn_drain` skips it (Clogged). `sys_mbox_free` never returns its block, so that
  after a few connections `netconn_new` fails and the client loops without a delay
  (Exhausted). The client closes only on ERR_CLSD: a reset recorded outside its
  fetch makes each receive fail at once (Spurned). All three are for ever
  (StuckForEver). A message that arrives within the tick is charged 0xffffffff ticks and
  fires the first timer at once; each message costs the timers one millisecond
  too much (NotEarly). A call returns but in one case, which `Stalled` states: a
  write or a close of which TCP counts no retransmission, because the other side keeps its
  window shut, or because nothing is unacked while room or memory is short
  (CallsReturn). Nothing in the code ends such a call.

## 5. Fairness

- PTO (`FairSpec`): weak fairness of `TIM1_Update` (the timer is hardware), of
  the TIM1 interrupt once pending, and of the calling task once inside a call.
  Nothing makes a task call or a switch close. The pulse frequency is low
  against the processor, so the task is not starved by the interrupt.
- Lift (`FairSpec`): weak fairness of the clock and of `vTaskLIFT`, which is the
  task of the highest priority the application creates. Nothing makes the host
  post.
- Sensors, App: weak fairness of "the running task takes a step" and of the tick:
  the processor does not stop, and time does not. Which task runs is the kernel's
  choice, so no task is given fairness of its own: OthersGoOn and BothGoOn are
  consequences of the scheduling. In Sensors the echo's edges come when due.
  A tick does not interrupt the same statement twice (`ticked`).
- Card: weak fairness of the driver. Nothing is assumed of the card.
- Net: weak fairness of `tcpip_thread` and of the tick; strong fairness of the client,
  which the thread, more urgent, interrupts again and again. CallsReturn is stated
  under TimersLeaveTime, that the thread is not always running: timers that fire
  at every message could starve the client, and the code has nothing against it. The
  other side is given no fairness: it may never acknowledge.
- Kernel, Logger, FrameBuf and Comm have no fairness and no liveness. `vTaskComm`
  (priority 7) runs below `vTaskStepMotor` (priority 5), whose loop never yields;
  that it goes on without the latter is App's OthersGoOn.

## 6. The proofs

Constants are arbitrary but for the named assumptions of each module.

- `PTO_proofs!TypeCorrect`: TypeOK is inductive; the lemmas bound machine
  arithmetic (`WrapType`, `SignedType`, `CruiseType`). It is about the width of each
  variable, whatever level is asked for. Assumes `SizesAssumption` and
  `TableAssumption` (at least two pulses per level, sums that are sums), which
  `pto_table` checks for the real tables.
- `PTO_proofs!RampWithinTables`: the indices with which the switch reads the tables
  stay within them during an undisturbed move. It is OnCourse that gives it: a move is
  on course only if its ramp was planned within the tables, which no code sees to.
- `PTO_proofs!MoveOnCourse`, `MovesAreExact`: MoveExact alone is not inductive:
  what makes the last pulse the right one is how far each phase had come.
  `OnCourse` says, for each ramp state, where the phase origin is relative to the
  start, between which partial sums the handled pulses are, and that the counted
  position is the start plus the counted pulses. Preservation is split by action:
  the switch (`SwitchOnCourse`), commands (`CommandOnCourse`), pulses
  (`PulseOnCourse`). `TravelledIs` is the heart: the wrapped absolute difference
  from the phase origin is the number of pulses since, in both directions.
- `PTO_proofs!Implementation`: every step is a step of `PositionMove` or a stutter
  (`RunningStep` during a move, `IdleStep` otherwise); `OnCourse` supplies the
  pulses left.
- `PTO_proofs!LimitsStopForGood`: LimitHolds, under `Waiting`, that is, if callers
  wait for the end of a move; limit interrupts come at every statement of a call and
  inside the TIM1 interrupt. The two cases in which the rest of that interrupt undoes
  the limit (section 4) are in the statement. `LimitInvariant` says that a motor at rest
  has nothing to resume, that a call in progress began at rest, which direction it has
  set, and what the stage that a limit came upon may still put back.
- `PTO_proofs!ProfilesFit`: ProfileFits with no such hypothesis. `RampInvariant` has
  the timer's period in each phase of a move. That some ramp fits every longer
  distance rests on there being a smallest level that does not (`SomeLevelSuits`).
- `PTO_proofs!TablesComputed`: the loops of `vPTOConfig` leave tables that are right
  (TablesRight), and that satisfy what `PTO` assumes of its own, for every
  acceleration, time per level, number of levels and width of an entry that are
  `Suitable` to each other: the run has the values of the code only. The invariant
  `TableInv` is the usual one of a loop, what has been computed so far; its lemmas say that
  the period, the pulses and the partial sums of a level fit an entry, for which the
  partial sum at level n is bounded by n + 1 times the pulses of the fastest level.
- `Commands_proofs!QueueImplementation`, `ByteQueueImplementation`: if
  `Backlog < FRAMEBUFMAX`, the ring implements the queue. The invariant `Paced` keeps
  unread bytes plus the one in the receiver within the backlog, so the pointers
  never meet when not empty.
- `Commands_proofs!ReadsInOrder`, `RingOrdered`: with no such assumption. `Ordered`
  orders the slots by age behind the write pointer; that order survives a lap,
  which is why bytes are still read in order, and at most once, by a reader that
  has been overtaken. `WriterLapsOnlyAtZero`: at any other read pointer the full test
  holds.
- `Commands_proofs!RingTypeCorrect`, `TypeCorrect`, `LiftTypeCorrect`: the ring's pointers stay in it, and
  no data byte is stored outside `FrameRData`, and the lift's position is never left below 0, whatever preset number was sent; the second needs `i < RDataLen` while data is read and `i = 0` before. The theorems of Comm hold
  for any operation in place of the exclusive or that stays within the bytes and of
  which 0 is the unit (`XorAssumption`).
- `Commands_proofs!CommImplementsGrammar`: each state of the parser is a place in a frame,
  and each of its exits one of Follow, Forget and Deliver. `CheckCovers` is the
  invariant: at every state the running check is the sum over the bytes of the line
  that it should cover, which `Covered` and `ReceivedOf` rebuild from the fields kept.
  `RunningXor` is a recursive function, and what it is at n is shown by the least n
  at which it would be something else (`Least`, from the well-foundedness of < on Nat),
  which needs no induction rule.
- `Commands_proofs!CommRepliesAreFrames`, `CommHandlersSound`: the reply of every
  handler is a frame with the values it reports; no stale byte but in a frame too short
  for its command. For each reply the sum that its loop makes over the buffer
  is unfolded at the handler's bounds (`XorInto`), and that of the grammar over the bytes
  of the frame, and the two meet only because the literals fit. `CommAssumption` has what
  they use of the constants: times of seven bytes, and command bytes are bytes.
- `Commands_proofs!PresetsStand`: SetStanding for every host. `StopIsLast` says that
  only a stop leaves `LiftStop` as the last command, and that nothing moves the
  lift before the next one.
- `Commands_proofs!PositionKept`, `OnTrackKept`: TableIsPosition for every host and every
  preset number, as long as none of the four things has misled the task, if `MaxTicks + SendTicks < TimeMod`, that is, if no move
  lasts the 49 days in which the tick counter wraps completely. `OnTrack` has one
  clause for each statement at which the task can be: `Moved` relates position,
  elapsed time and lift during a move, `Travelling` and `Arriving` during an
  invocation, and the last command always tells how the lift moves, which is what
  Stop relies on. It is proved separately for ticks (`TickOnTrack`), posts
  (`PostOnTrack`), the dispatch (`SwitchOnTrack`) and the ends of messages and delays
  (`SendOnTrack`). `OrderlyNeverMisleads`: a host that stops the lift before anything
  but a reversal, waits for the end of an invocation and uses numbers of the table never
  does.

- `OSCore_proofs`: a kernel state is one record, and a call a chain of EXCEPTs. For
  each operator of `OSCore` one lemma gives the fields of its result, so that no
  later proof expands it: `SchedFields`, `TaskRdyFields`, `AsleepFields`,
  `PendTailFields`, `TickFields` and so on. They hold of every set of tasks, objects
  and pointers.
- `Kernel_proofs!KernelSteady`: the inductive invariant of `Kernel` under `Careful`.
  `Sound` has a conjunct for each table (priorities, ready list, wait lists, the pend
  a task is in, who holds a message, what is counted, what the owner of the mutex is
  owed); `Settled` and `Steady` add where the processor is in the middle of a call and
  between two. A call changes one control block: for each conjunct a lemma (`KeepsListed`,
  `KeepsQueued`, ...) reduces it to that block, and a lemma for each action composes
  them. Promotion, which moves a bit from one priority to another in two lists, has
  lemmas of its own. Without `Careful` the code leaves phantom bits (section 4), and
  the theorems are false.
- `Kernel_proofs!KernelConsistent`, `KernelNoLostWakeup`, `KernelInherits` follow from
  it; `KernelNothingLost` is the refinement of `Delivery`, a step at a time, with the
  messages due being those in the mailbox and in the control blocks.
- `Sensors_proofs!SensorsInvariant`: `IInv` is the kernel's tables as far as two tasks
  and two objects can change them (`Steady`), `Ranger` and `Thermometer`. In `Ranger`
  the heart is `InTime`: the echo's counter plus what is left of the time-out stays below
  `SR04Ticks + 2`, which bounds what a byte must hold; in `Thermometer` it is `Counted`:
  the semaphore has a count only if the last edge has been seen, and at most one.
  `SensorsUndisturbed`, `SensorsDistanceFresh` and `SensorsReading` follow.
  `SR04Assumption` asks that a distance measured in time fits a byte (119 in the code)
  and that an echo ends before the next trigger; `SensorsAssumption` has the order of
  the priorities. The proof found StampsFit too strong as first stated: foreign edges that
  come while the task sleeps first of all are already in the count when its first
  measurement begins (`carried > 1`), and TLC's single foreign edge was too few to
  show it.
- `App_proofs!AppInvariant`: `IInv` says of the kernel (`Steady`) that its tables agree,
  that the most urgent ready task runs, and that only `vTaskComm` waits for the mutex, only for
  `vTaskRTC`, which is raised meanwhile (`Owned`); of the tasks, who exists (`Births`), what
  each sleeps or waits for and between which statements it owns the mutex (`Sleeps`,
  `Flagged`), which frame is in hand (`InHand`), and what each copy of the time holds
  (`Timed`, `Kept`, `Logged`). The argument is always the same: a running task tells where
  the more urgent ones are. While `vTaskComm` runs `vTaskLIFT` waits for a flag or sleeps
  (`CommRuns`); while `vTaskRTC` runs `vTaskComm` is asleep or in its pend (`RTCRuns`),
  which is why the pend of `vTaskRTC` never sleeps; and where `vTaskMSD` runs there is no
  `vTaskRTC` (`MSDRuns`), so that the record it makes without the mutex is whole. Each call
  of the kernel has a lemma for what it does to `Steady` (`DelaySteady`, `FlagPostSteady`,
  `TakeSteady`, `LockSleeps`, `HandOver`, `TickSteady`, ...), each task one for every statement.
  `AppClockRight`, `AppFlagsWakeLift`, `AppReplyUnbroken` and `AppHiddenNeverRun` follow.
  `AppAssumption` fixes the order of the priorities, since with another order other things are
  true; builds, delays (any number of ticks, 0 included), flags, calendar (any function as
  `Conv`), the length of a reply and of the ring are arbitrary. `Kept` holds only as
  long as no calibration has met `vTaskRTC` on its way to its first setting of the counter:
  then the host's time is lost, which is the case `raced` excepts.
- `Storage_proofs!CardRemembers`, `ReadyCard`: Remembers and ReadyIfOk, for any set of kinds
  of cards and of blocks, any number of retries, lost answers and exchanged cards, and any
  size of a sector from 2 up. The lemmas come in three layers: what a card that attends to
  a command does (`DoesReset`, `DoesSetUp`, `DoesStart`, ...), what the driver may then be
  answered, the lost answers included (`TakesReset`, ..., `ResetAnswers`, ...), and what a
  statement of the driver keeps. `Carried` is what every statement carries on: `Kept`,
  that a block which is still being programmed may be held by its sector as well, without
  which Stored is not inductive; `Writes`, what the card is about after it has accepted a
  block; `Aimed`, that the card is about the sector the call has come to, if nothing was
  astray when it was called; `Exchanged`, that a card put in since is asleep, since only
  CMD0 wakes it, so that it takes no block that was meant for another; and `Reads`, that
  blocks go on to come only while they are read, or if CMD12 was lost. `SetsUp` is what
  `MSD0_Init` knows of the card at each command. That a sector's address, in bytes or in
  sectors, stands for that sector in the card of that kind is `AddressIs`.
- `Storage_proofs!VolumeStaysSound`, `DaysStayKept`: VolumeSound and DaysKept, for any number
  of clusters, of FAT entries in a sector, of directory entries, days and mishaps, and
  whatever accesses fail. `FatFsAssumption` asks for one of each, `LoggerAssumption` that
  the names are those of the days. The argument follows the disk through every access. `View` is
  the disk with FatFs's window in it, what the card will be once the window is
  written; `Good` says that the card and the view are sound, which is what a power failure
  at that access leaves. `Vol` says it without following a chain: `own` gives each
  cluster to the directory slot whose file has it, or to none; a link leads from a
  cluster to one of the same slot, and each entry has a path of as many clusters as its
  size. So each write is one entry that changes (`FatSet`, `DirSet`), and what is to be
  shown is that the other slots keep what they had (`Keeps`): `Trash` are the clusters
  of a removed chain, nobody's from the moment the entry is emptied; `Weak` is the file
  after a failure in `create_chain`, of whose last cluster nothing is known but that
  `f_write` refuses it. The loops of `remove_chain` and `create_chain` are functions of the
  number of turns, and what they keep goes by the least turn that would break it
  (`Unlinking`, `Searching`). `InvChains` comes back from `own` to the chains that
  VolumeSound follows. For the days, `InTime` says of each statement what day the
  open file, the next file and the records at hand belong to, and `WroteInTime` that no name
  later than the day has records.
- `Net_proofs!CallsAnsweredOnce`, `StuckStays`, `StreamInOrder`, `TimersGoOffInTurn`: all
  of `net` but liveness, for any number of segments, packets, blocks and
  retransmissions, any room for data to send, any lengths of the mailboxes and any
  intervals. `NetAssumption` asks that `tcpip_thread`'s mailbox is longer than the pool of packet messages (20 and 8 in
  the code) and that the client's has room for two, without which a single segment would
  fill it; `TimeoutsAssumption` that no timer runs for what 0xffffffff ticks come to.
  The inductive invariant `IInv` has two halves. `CallInv` is about the calls. `Shows`
  reduces the kernel to what the two tasks see of it: their control blocks, the two queues
  and the count of the semaphore; each call of the kernel has a lemma for what it does to
  that (`MailAppends`, `BoxWakes`, `TokenTaken`, ...). `Where` says at which object each task
  sleeps; `Packed`, that the packets in the mailbox and in hand are those taken from the
  pool, which leaves room for a call; `Once`, that the message of a call, the
  connection that is to finish it, the signal, or the client woken by it, are one in all
  while the client waits and none otherwise; `Boxed` and `Streamed`, that the blocks the
  client has not read continue what it has, up to where TCP is, unless one was lost, which
  happens only to a full mailbox that nobody empties. None of these is inductive alone: an
  answer is due only because the message is nowhere else, and the mailbox a segment
  meets is full for ever only because the call that would empty it no longer
  asks. `Timed` and `Clocked` are about the list: `Due`, the sum of the differences up to an
  entry, is when it goes off; the invariant has that each entry is due within its interval,
  that the thread sleeps for what the first entry wants, and that of two due together the one
  armed first comes first, which the list of differences tells only by place.
  `TimeoutInserts` says where `sys_timeout` puts an entry and that no other moves,
  `WaitedPassed` and `TailPassed` what the passing of time and the first entry going off
  do. A step then is one of `Timers` (`TimersStep`). `Due` is a recursive function, and
  it is unique (`DueUnique`) by the least index at which two of its kind would differ.

Only model-checked:

- liveness (KeepsPromise, StopStops, BothGoOn, Returns, and the eventual
  parts of TasksGoOn; CallsReturn), since fairness and ENABLED are beyond the prover;
- ImplementsDayLog and ResultsHold of Logger: what the files hold, and what a result
  says of them, would need the contents of every cluster of a path in the invariant.

TypeOK of the modules with proofs is not run where it is proved.

## 7. What is not modelled

Components without a module are listed with reasons in `PROJECT.json`: drivers that
are register access (encoder, timers, ADC), and vendored code no task calls.

- *Everywhere*: peripheral set-up (it is the initial state), texts and layout of
  debug output, the sending side of the UARTs but for who sends when (App) and the
  time it takes (Lift).
- *PTO*: EXTI2, whose handler changes nothing.
- *UART receive path*: `UART1_Sendbyte` and `UART4_Sendbyte`, busy waits per byte.
- *Lift*: a power loss between the erase and the last word of the preset page,
  because nothing reads the page back.
- *Kernel*: memory partitions as calls (Net has the blocks it counts), timers, the
  statistics task, queue broadcast and flush, changes of priority, deletion of other
  tasks, semaphore and mailbox queries.
- *Sensors*: the forty bits and the sum over them, but for whose edges they are.
- *App*: the passing of seconds on the clock; the replies with distance and temperature,
  which are sent like that with the time.
- *FatFs*: what the logger does not call (reading, seeking, directories, renaming,
  formatting, long names); clusters of several sectors, FAT12 and FAT32, the second
  copy of the FAT, FSInfo, times and attributes; CTRL_SYNC, whose result is ignored.
- *Card*: the fields of CSD and CID (the capacity it computes overflows at 4 GB), bytes
  altered on the wire (no CRC is checked), calls before `MSD0_Init` succeeded (FatFs
  makes none).
- *Net*: the application does not start lwIP at present (`main.c:18` and the call of
  `lwip_pkt_handle` in `taskCommunication.c` are commented out); the model is of
  `lwip_comm_init` having been called. Left out: the socket client
  (`tcp_client_demo.c:39-117`; it does not close the socket of a failed connect, so the
  fifth has none), accepting and listening, `netconn_getaddr`, `sys_untimeout` and
  callbacks (unused), `OSQCreate` and `tcp_new` failing, sequence numbers and data out
  of order, the congestion window and Nagle's algorithm (with nothing unacked
  they hold back nothing), our own receive window, which is larger
  than what the bounds let in, keep-alive (off), and the registers and buffer of the
  ENC28J60.

## 8. What is left to do

1. The contents of the files in the invariant of Storage_proofs, for ImplementsDayLog and
   ResultsHold.
2. FrameBuf and Comm composed, the queue as the parser's input; FatFs over MSD0
   instead of a card that only fails.
3. The socket client, and the receive buffer of the ENC28J60.

## 9. Running the tools

    tlc -workers 2 -config PTO_calls.cfg MCPTO.tla
    tlapm PTO_proofs.tla

`PROJECT.json` names the module, configuration and expected result of each run,
and for every property a mutation of the model that breaks it. Most runs take less
than two minutes on two cores, `app` and `net` two to three. The operators marked
*Mutant* in the modules are those mutations; no specification uses them.
