---------------------------------- MODULE Comm ---------------------------------
(***************************************************************************)
(* The communication task of src/APP/taskCommunication.c: vTaskComm takes  *)
(* one byte at a time from the ring (FrameBuf.tla), walks the states of    *)
(* its frame parser, and calls the handler of a complete frame.            *)
(*                                                                         *)
(* Abstractions.  The input is any sequence of bytes: that covers every    *)
(* host, and every loss in the ring.  A handler is modelled by what it     *)
(* takes from the frame and what it hands on: the reply it sends, the      *)
(* flags it posts, the time or the preset number it sets.  A sensor value  *)
(* in a reply is any byte.  The sleep of 60 ms on an empty ring changes    *)
(* no state.                                                               *)
(***************************************************************************)
EXTENDS FrameCheck, FiniteSets

CONSTANTS
    HEAD1, HEAD2, END1, END2,
    Distance, VERSION, Temp, TimeGet, TimeCalibration, Lift, StepMotor,
    MaxData,            \* 10, the size of FrameRData
    TimeLen,            \* 7, the bytes of a time
    LEN,                \* 3, the data bytes of a lift command with a preset
    Times               \* times, as the seven bytes of a reply

Commands ==
    {Distance, VERSION, Temp, TimeGet, TimeCalibration, Lift, StepMotor}

ASSUME CommAssumption ==
    /\ {HEAD1, HEAD2, END1, END2} \cup Commands \subseteq Byte
    /\ Cardinality(Commands) = 7 /\ 0 \notin Commands
    /\ {MaxData, TimeLen, LEN} \subseteq Nat
    /\ TimeLen < MaxData /\ LEN <= MaxData /\ 2 <= LEN
    /\ {0, 1, 2, 7} \subseteq Byte    \* the lengths of the replies
    /\ Times \subseteq [1 .. 7 -> Byte]

VARIABLES
    State, i,           \* the statics of vTaskComm
    CMD, RDataLen, CHECK, FrameRData,   \* xFrame
    call                \* what the last byte made the task do, see NoCall

frame == << CMD, RDataLen, CHECK, FrameRData >>
vars == << State, i, frame, call >>

\* cmd is the command handled (0 for none), used the indices of FrameRData the
\* handler reads, sent the bytes it replies and told the values that they report,
\* and flags, preset and time what it posts to LiftStatus, sets PreSet_Position_No
\* to, and sets the clock to.
NoCall == [cmd |-> 0, used |-> {}, sent |-> << >>, told |-> << >>,
           flags |-> 0, preset |-> << >>, time |-> << >>]

Init ==
    /\ State = 0 /\ i = 0
    /\ CMD = 0 /\ RDataLen = 0 /\ CHECK = 0
    /\ FrameRData = [k \in 0 .. MaxData - 1 |-> 0]
    /\ call = NoCall

-----------------------------------------------------------------------------
(* The handlers.                                                           *)

\* u8SendBuf after prvSendBuFlush, with the head of a reply.
SendBuf ==
    [k \in 0 .. 19 |->
        CASE k = 0 -> HEAD1 [] k = 1 -> HEAD2 [] k = 2 -> CMD [] OTHER -> 0]

\* for(i = a; i < b; i++) u8SendBuf[c] ^= u8SendBuf[i];
XorInto(buf, c, a, b) ==
    [buf EXCEPT ![c] = XorByte(@, XorAll([k \in 1 .. b - a |-> buf[a + k - 1]]))]

\* UART1_Sendarray(u8SendBuf, n), of a reply that reports the values d.
Sendarray(buf, n, d) ==
    call' = [NoCall EXCEPT !.cmd = CMD, !.told = d,
                           !.sent = [k \in 1 .. n |-> buf[k - 1]]]

prvDisReport ==
    \E fSR04Distance \in Byte :
        LET buf == [SendBuf EXCEPT ![3] = 1, ![4] = fSR04Distance]
        IN  Sendarray([XorInto(buf, 5, 2, 5) EXCEPT ![6] = END1, ![7] = END2],
                      8, << fSR04Distance >>)

prvTempReport ==
    \E whole, hundredths \in Byte :
        LET buf == [SendBuf EXCEPT ![3] = 2, ![4] = whole, ![5] = hundredths]
        IN  Sendarray([XorInto(buf, 6, 2, 6) EXCEPT ![7] = END1, ![8] = END2],
                      9, << whole, hundredths >>)

\* u8SendBuf with a time.
TimeBuf(t) ==
    [SendBuf EXCEPT ![3] = 7, ![4] = t[1], ![5] = t[2], ![6] = t[3], ![7] = t[4],
                 ![8] = t[5], ![9] = t[6], ![10] = t[7]]

\* Mutant: the check leaves out the seconds.
prvTimeGetShort ==
    \E t \in Times :
        Sendarray([XorInto(TimeBuf(t), 11, 2, 10) EXCEPT ![12] = END1, ![13] = END2],
                  14, t)

prvTimeGet ==
    \E t \in Times :
        Sendarray([XorInto(TimeBuf(t), 11, 2, 11) EXCEPT ![12] = END1, ![13] = END2],
                  14, t)

\* The bytes a .. b of the data received.
Data(a, b) == [k \in 1 .. b - a + 1 |-> FrameRData[a + k - 1]]

prvTimeCalibration ==
    LET buf == [SendBuf EXCEPT ![3] = 0, ![4] = SendBuf[2], ![5] = END1, ![6] = END2]
    IN  call' = [NoCall EXCEPT
            !.cmd = CMD,
            !.used = 0 .. TimeLen - 1,
            !.time = Data(0, TimeLen - 1),
            !.sent = [k \in 1 .. 7 |-> buf[k - 1]]]

\* Mutant: the length is not looked at.
prvLiftAny ==
    call' = [NoCall EXCEPT
        !.cmd = CMD, !.used = 0 .. LEN - 1,
        !.flags = FrameRData[0], !.preset = Data(1, LEN - 1)]

prvLift ==
    call' = [NoCall EXCEPT
        !.cmd = CMD,
        !.used = IF RDataLen = LEN THEN 0 .. LEN - 1 ELSE {0},
        !.flags = FrameRData[0],
        !.preset = IF RDataLen = LEN THEN Data(1, LEN - 1) ELSE << >>]

prvMotor == call' = [NoCall EXCEPT !.cmd = CMD]

\* The entries of pf.
HasHandler == CMD \in Commands \ {VERSION}

Handle ==
    \/ CMD = Distance /\ prvDisReport
    \/ CMD = Temp /\ prvTempReport
    \/ CMD = TimeGet /\ prvTimeGet
    \/ CMD = TimeCalibration /\ prvTimeCalibration
    \/ CMD = Lift /\ prvLift
    \/ CMD = StepMotor /\ prvMotor

-----------------------------------------------------------------------------
(* vTaskComm, one byte at a time.                                          *)

Go(s) == State' = s /\ call' = NoCall

\* Any state: a byte that does not fit.
Reject(fits) ==
    /\ ~fits
    /\ Go(0)
    /\ UNCHANGED << i, frame >>

\* case 0
ExpectHead1(data) ==
    /\ State = 0
    /\ \/ data = HEAD1 /\ Go(1) /\ UNCHANGED << i, frame >>
       \/ Reject(data = HEAD1)

\* Mutant: the check is not cleared at the start of a frame.
ExpectHead2KeepsCheck(data) ==
    /\ State = 1
    /\ \/ /\ data = HEAD2
          /\ i' = 0
          /\ Go(2)
          /\ UNCHANGED frame
       \/ Reject(data = HEAD2)

\* case 1
ExpectHead2(data) ==
    /\ State = 1
    /\ \/ /\ data = HEAD2
          /\ i' = 0 /\ CHECK' = 0
          /\ Go(2)
          /\ UNCHANGED << CMD, RDataLen, FrameRData >>
       \/ Reject(data = HEAD2)

\* case 2
ExpectCommand(data) ==
    /\ State = 2
    /\ \/ /\ data \in Commands
          /\ CMD' = data /\ CHECK' = XorByte(CHECK, data)
          /\ Go(3)
          /\ UNCHANGED << i, RDataLen, FrameRData >>
       \/ Reject(data \in Commands)

\* case 3
ExpectLength(data) ==
    /\ State = 3
    /\ \/ /\ data < MaxData
          /\ RDataLen' = data /\ CHECK' = XorByte(CHECK, data)
          /\ Go(IF data = 0 THEN 5 ELSE 4)
          /\ UNCHANGED << i, CMD, FrameRData >>
       \/ Reject(data < MaxData)

\* case 4
ExpectData(data) ==
    /\ State = 4
    /\ FrameRData' = [FrameRData EXCEPT ![i] = data]
    /\ CHECK' = XorByte(CHECK, data)
    /\ IF i + 1 = RDataLen
       THEN i' = 0 /\ Go(5)
       ELSE i' = i + 1 /\ Go(4)
    /\ UNCHANGED << CMD, RDataLen >>

\* case 5
ExpectCheck(data) ==
    /\ State = 5
    /\ \/ data = CHECK /\ Go(6) /\ UNCHANGED << i, frame >>
       \/ Reject(data = CHECK)

\* case 6
ExpectEnd1(data) ==
    /\ State = 6
    /\ \/ data = END1 /\ Go(7) /\ UNCHANGED << i, frame >>
       \/ Reject(data = END1)

\* case 7.  The call of a null entry of pf does not return: State 8 stands for it.
ExpectEnd2(data) ==
    /\ State = 7
    /\ \/ /\ data = END2
          /\ HasHandler
          /\ Handle
          /\ State' = 0
          /\ UNCHANGED << i, frame >>
       \/ /\ data = END2
          /\ ~HasHandler
          /\ State' = 8
          /\ call' = [NoCall EXCEPT !.cmd = CMD]
          /\ UNCHANGED << i, frame >>
       \/ Reject(data = END2)

TakeByte(data) ==
    \/ ExpectHead1(data) \/ ExpectHead2(data) \/ ExpectCommand(data)
    \/ ExpectLength(data) \/ ExpectData(data) \/ ExpectCheck(data)
    \/ ExpectEnd1(data) \/ ExpectEnd2(data)

Next == \E data \in Byte : TakeByte(data)

Spec == Init /\ [][Next]_vars

-----------------------------------------------------------------------------
(* Properties.                                                             *)

TypeOK ==
    /\ State \in 0 .. 8
    /\ i \in 0 .. MaxData - 1
    /\ CMD \in Commands \cup {0}
    /\ RDataLen \in 0 .. MaxData - 1
    /\ CHECK \in Byte
    /\ FrameRData \in [0 .. MaxData - 1 -> Byte]
    /\ call.cmd \in Commands \cup {0}
    /\ State \in {2, 3} => i = 0
    /\ State = 4 => i < RDataLen

\* The bytes of a frame that the parser holds, k of them data.
Received(k) == << HEAD1, HEAD2, CMD, RDataLen >> \o Data(0, k - 1)

Line ==
    CASE State = 1 -> << HEAD1 >>
      [] State = 2 -> << HEAD1, HEAD2 >>
      [] State = 3 -> << HEAD1, HEAD2, CMD >>
      [] State = 4 -> Received(i)
      [] State = 5 -> Received(RDataLen)
      [] State = 6 -> Received(RDataLen) \o << CHECK >>
      [] State = 7 -> Received(RDataLen) \o << CHECK, END1 >>
      [] OTHER -> << >>

Delivered ==
    IF call.cmd = 0 THEN << >>
    ELSE Received(RDataLen) \o << CHECK, END1, END2 >>

Grammar == INSTANCE FrameGrammar WITH line <- Line, delivered <- Delivered
Reply == INSTANCE FrameGrammar WITH line <- Line, delivered <- Delivered, MaxData <- 10

\* vTaskComm handles exactly the well-formed frames: nothing else is ever handed
\* to a handler, whatever bytes come before it, and no frame is skipped that
\* starts when the parser is not inside another one.
ImplementsGrammar == Grammar!LineSpec

\* Every reply is itself a frame, and tells what it should: the indices, loop
\* bounds and lengths each handler has by hand (taskCommunication.c:139-145,
\* 157-164, 178-195, 214-222) agree, so that a receiver of the same protocol, with
\* room for 10 data bytes, finds the length, the values, the check byte and the
\* ends where it looks for them.
RepliesAreFrames ==
    LET s == call.sent
    IN  s # << >> => /\ Reply!IsFrame(s)
                     /\ Len(call.told) = s[4]
                     /\ \A k \in 1 .. Len(call.told) : call.told[k] = s[k + 4]

\* A handler uses data of an earlier frame only if its own has fewer bytes than
\* taskCommunication.h:34-37 gives the command: a time is then set, or flags are
\* posted, that nobody sent; a preset is never chosen so.
StaleOnlyIfShort ==
    call.used \subseteq 0 .. RDataLen - 1 \/
    RDataLen < (CASE call.cmd = TimeCalibration -> TimeLen [] call.cmd = Lift -> 1 [] OTHER -> 0)

\* The task calls a null handler, which ends it, only for a whole frame of the
\* one command the parser knows and pf does not: no noise, no other frame, and
\* no part of a frame stops it.
OnlyVersionHalts ==
    /\ State = 8 => CMD = VERSION /\ Grammar!IsFrame(Delivered)
    /\ CMD = VERSION /\ call.cmd # 0 => State = 8

\* Handlers run as meant, but for a frame that is too short and a command without
\* one; and no data byte is stored outside FrameRData.
HandlersSound == TypeOK /\ StaleOnlyIfShort /\ OnlyVersionHalts
================================================================================
