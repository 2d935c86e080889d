-------------------------------- MODULE FrameBuf -------------------------------
(***************************************************************************)
(* The receive path of USART1: the receiver's data register, the interrupt *)
(* USART1_IRQHandler (src/USER/stm32f10x_it.c) that writes the ring        *)
(* FrameBuf, and the task that reads it with FrameBufRead                  *)
(* (src/BSP/usart.c, src/APP/taskCommunication.c).                         *)
(*                                                                         *)
(* Abstractions.  A byte is its number in the order of arrival, which is   *)
(* what the properties tell apart.  The pointers are u8 and FRAMEBUFMAX is *)
(* 256: the increment wraps where the % FRAMEBUFMAX after it would, so no  *)
(* pointer is ever seen out of range, and incrementing is one step.  A     *)
(* FrameBufRead that finds the ring empty changes nothing.                 *)
(***************************************************************************)
EXTENDS Integers

CONSTANTS
    FRAMEBUFMAX,        \* 256
    Backlogs,           \* the hosts: one pauses while this many bytes are unread
    Overruns,           \* may a byte arrive before the last one was taken?
    MaxBytes            \* bound: bytes that arrive in a behaviour

ASSUME RingAssumption ==
    /\ FRAMEBUFMAX \in Nat /\ FRAMEBUFMAX >= 2
    /\ Backlogs \subseteq Nat
    /\ Overruns \in BOOLEAN
    /\ MaxBytes \in Nat

VARIABLES
    FrameBuf, FrameBufWptr, FrameBufRptr,
    DR, RXNE, ORE,      \* data register, its full flag, the overrun flag
    isr,                \* USART1_IRQHandler: "none", or what it does next
    rd, rdata,          \* FrameBufRead: what it does next, and its *data
    backlog,            \* the host of this behaviour, one of Backlogs
    arrived, got        \* history: bytes arrived, last byte read

ring == << FrameBuf, FrameBufWptr, FrameBufRptr >>
usart == << DR, RXNE, ORE >>
reader == << rd, rdata, got >>
ringvars == << ring, usart, isr, reader, backlog, arrived >>

Slots == 0 .. FRAMEBUFMAX - 1
Succ(p) == IF p = FRAMEBUFMAX - 1 THEN 0 ELSE p + 1

\* The number of bytes from the read pointer to the write pointer.
Unread ==
    IF FrameBufWptr >= FrameBufRptr
    THEN FrameBufWptr - FrameBufRptr
    ELSE FrameBufWptr - FrameBufRptr + FRAMEBUFMAX

RingInit ==
    /\ FrameBuf = [s \in Slots |-> 0]
    /\ FrameBufWptr = 0 /\ FrameBufRptr = 0
    /\ DR = 0 /\ RXNE = 0 /\ ORE = 0
    /\ isr = "none"
    /\ rd = "poll" /\ rdata = 0
    /\ backlog \in Backlogs
    /\ arrived = 0 /\ got = 0

-----------------------------------------------------------------------------
(* The receiver.                                                           *)

\* A byte arrives.  When the last one was not taken it is lost, and ORE says so.
Arrive ==
    /\ arrived < MaxBytes
    /\ Unread + RXNE < backlog
    /\ Overruns \/ (RXNE = 0 /\ isr = "none")
    /\ arrived' = arrived + 1
    /\ IF RXNE = 0
       THEN DR' = arrived + 1 /\ RXNE' = 1 /\ ORE' = ORE
       ELSE DR' = DR /\ RXNE' = 1 /\ ORE' = 1
    /\ UNCHANGED << ring, isr, reader >>

-----------------------------------------------------------------------------
(* USART1_IRQHandler.  Bytes may arrive between its steps.                 *)

IRQEnter ==
    /\ isr = "none"
    /\ RXNE = 1 /\ ORE = 0
    /\ isr' = "rxne"
    /\ UNCHANGED << ring, usart, reader, arrived >>

\* The empty read that clears ORE takes the byte in the data register with it.
EmptyRead ==
    /\ isr = "none"
    /\ ORE = 1
    /\ ORE' = 0 /\ RXNE' = 0 /\ DR' = DR
    /\ isr' = "rxne"
    /\ UNCHANGED << ring, reader, arrived >>

IRQNothing ==
    /\ isr = "rxne" /\ RXNE = 0
    /\ isr' = "none"
    /\ UNCHANGED << ring, usart, reader, arrived >>

\* FrameBufRptr - 1 is an int: it is -1, and no pointer, when FrameBufRptr is 0.
\* Mutant: full one slot early, missed at 1 as well.
FullEarly == FrameBufWptr = FrameBufRptr - 2
Full == FrameBufWptr = FrameBufRptr - 1

\* Mutant: the write pointer moves before the byte is stored.
FrameBufWriteEarly ==
    /\ isr = "rxne" /\ RXNE = 1
    /\ isr' = "clear"
    /\ IF Full
       THEN UNCHANGED << ring, RXNE >>
       ELSE /\ FrameBufWptr' = Succ(FrameBufWptr)
            /\ FrameBuf' = [FrameBuf EXCEPT ![FrameBufWptr'] = DR]
            /\ FrameBufRptr' = FrameBufRptr
            /\ RXNE' = 0
    /\ UNCHANGED << DR, ORE, reader, arrived >>

\* Reading the data register clears RXNE.
FrameBufWrite ==
    /\ isr = "rxne" /\ RXNE = 1
    /\ isr' = "clear"
    /\ IF Full
       THEN UNCHANGED << ring, RXNE >>
       ELSE /\ FrameBuf' = [FrameBuf EXCEPT ![FrameBufWptr] = DR]
            /\ FrameBufWptr' = Succ(FrameBufWptr)
            /\ FrameBufRptr' = FrameBufRptr
            /\ RXNE' = 0
    /\ UNCHANGED << DR, ORE, reader, arrived >>

\* USART_ClearITPendingBit: a byte that came in since is dropped with it.
ClearPending ==
    /\ isr = "clear"
    /\ isr' = "none"
    /\ RXNE' = 0
    /\ UNCHANGED << ring, DR, ORE, reader, arrived >>

USART1_IRQHandler ==
    IRQEnter \/ EmptyRead \/ IRQNothing \/ FrameBufWrite \/ ClearPending

-----------------------------------------------------------------------------
(* FrameBufRead, run by the task between interrupts.                       *)

ReadTest ==
    /\ isr = "none" /\ rd = "poll"
    /\ FrameBufRptr # FrameBufWptr
    /\ rd' = "copy"
    /\ UNCHANGED << ring, usart, isr, rdata, got, arrived >>

ReadCopy ==
    /\ isr = "none" /\ rd = "copy"
    /\ rdata' = FrameBuf[FrameBufRptr]
    /\ rd' = "advance"
    /\ UNCHANGED << ring, usart, isr, got, arrived >>

\* Mutant: the read pointer starts over one slot late.
ReadAdvanceLate ==
    /\ isr = "none" /\ rd = "advance"
    /\ FrameBufRptr' = IF FrameBufRptr = FRAMEBUFMAX - 1 THEN 1 ELSE FrameBufRptr + 1
    /\ got' = rdata
    /\ rd' = "poll"
    /\ UNCHANGED << FrameBuf, FrameBufWptr, usart, isr, rdata, arrived >>

ReadAdvance ==
    /\ isr = "none" /\ rd = "advance"
    /\ FrameBufRptr' = Succ(FrameBufRptr)
    /\ got' = rdata
    /\ rd' = "poll"
    /\ UNCHANGED << FrameBuf, FrameBufWptr, usart, isr, rdata, arrived >>

FrameBufRead == ReadTest \/ ReadCopy \/ ReadAdvance

RingNext ==
    /\ Arrive \/ USART1_IRQHandler \/ FrameBufRead
    /\ UNCHANGED backlog

RingSpec == RingInit /\ [][RingNext]_ringvars

-----------------------------------------------------------------------------
(* Properties.                                                             *)

RingTypeOK ==
    /\ FrameBuf \in [Slots -> 0 .. MaxBytes]
    /\ FrameBufWptr \in Slots /\ FrameBufRptr \in Slots
    /\ DR \in 0 .. MaxBytes /\ RXNE \in 0 .. 1 /\ ORE \in 0 .. 1
    /\ isr \in {"none", "rxne", "clear"}
    /\ rd \in {"poll", "copy", "advance"}
    /\ rdata \in 0 .. MaxBytes /\ got \in 0 .. MaxBytes
    /\ backlog \in Backlogs
    /\ arrived \in 0 .. MaxBytes

\* Whatever is lost to overruns, to a full ring or to a lap of the writer, the
\* task reads bytes in the order they arrived, and none of them twice
\* (USART1_IRQHandler and FrameBufWrite against every step of FrameBufRead).
InOrder == [][ rd = "advance" /\ rd' = "poll" => rdata > got ]_ringvars

\* The strengthening that makes InOrder inductive.  Age orders the slots from
\* the oldest byte stored to the newest, also after the writer lapped the
\* reader; the slots after the one being read are then those that are younger.
Age(s) ==
    IF s >= FrameBufWptr THEN s - FrameBufWptr
                         ELSE s - FrameBufWptr + FRAMEBUFMAX

Aged == \A s, t \in Slots :
    Age(s) < Age(t) => FrameBuf[s] < FrameBuf[t]
                       \/ (FrameBuf[s] = 0 /\ FrameBuf[t] = 0)

Newest ==
    /\ got <= arrived /\ DR <= arrived
    /\ \A s \in Slots : FrameBuf[s] <= arrived
    /\ RXNE = 1 => got < DR /\ \A s \in Slots : FrameBuf[s] < DR

Reading ==
    /\ rd = "poll" /\ FrameBufRptr # FrameBufWptr =>
          \A s \in Slots : Age(s) >= Age(FrameBufRptr) => got < FrameBuf[s]
    /\ rd = "copy" => got < FrameBuf[FrameBufRptr]
    /\ rd = "advance" => got < rdata /\ rdata <= FrameBuf[FrameBufRptr]

\* The bytes in the ring, the one being read and the one last read are ordered
\* by age, whoever lapped whom.
Ordered == Aged /\ Newest /\ Reading

\* The unread bytes, oldest first.
Contents ==
    [k \in 1 .. Unread |->
        LET s == FrameBufRptr + k - 1
        IN  FrameBuf[IF s >= FRAMEBUFMAX THEN s - FRAMEBUFMAX ELSE s]]

Queue == INSTANCE ByteQueue WITH q <- Contents, got <- got

\* With a host that pauses before the ring is full, the ring is a queue, for
\* every interleaving of the interrupt and the reader, overruns included
\* (FrameBufWrite against FrameBufRead).
ImplementsQueue ==
    /\ Queue!QInit
    /\ [][ backlog < FRAMEBUFMAX => Queue!Put \/ Queue!Get ]_<< Contents, got >>

\* Whatever the host does, a byte the interrupt stores is one more byte to read
\* unless the read pointer is 0: there the test against FrameBufRptr - 1
\* (usart.c:157) lets the writer lap the reader, which the comment beside it
\* says it prevents, and all that was unread is lost (FrameBufWrite).
LapsOnlyAtZero ==
    [][ FrameBufWptr' # FrameBufWptr /\ FrameBufRptr # 0
        => Unread' = Unread + 1 ]_ringvars
================================================================================
