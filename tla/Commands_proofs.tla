---------------------------- MODULE Commands_proofs ----------------------------
(***************************************************************************)
(* The host's commands, from the wire to the lift: the ring between the    *)
(* interrupt and the task (FrameBuf.tla), for every ring size, number of   *)
(* bytes and behaviour of the host; the task that takes the frames apart   *)
(* (Comm.tla), for every byte width, check operation, buffer size and      *)
(* input; and the task that obeys them (Lift.tla), for every clock, host   *)
(* and length of a message.                                                *)
(***************************************************************************)
EXTENDS FrameBuf, Comm, Lift, SequenceTheorems, FiniteSetTheorems, WellFoundedInduction, TLAPS

-----------------------------------------------------------------------------
(* The ring.                                                               *)

\* The next slot is a slot.
LEMMA SuccType == ASSUME NEW p \in Slots PROVE Succ(p) \in Slots
  BY RingAssumption DEF Slots, Succ

\* Type correctness is inductive by itself.
LEMMA RingTypeInductive == RingTypeOK /\ [RingNext]_ringvars => RingTypeOK'
<1> SUFFICES ASSUME RingTypeOK, [RingNext]_ringvars PROVE RingTypeOK'
  OBVIOUS
<1> USE RingAssumption DEF RingTypeOK
<1>0. backlog' = backlog
  BY DEF RingNext, ringvars
<1>1. CASE Arrive
  BY <1>0, <1>1 DEF Arrive, ring, reader
<1>2. CASE IRQEnter
  BY <1>0, <1>2 DEF IRQEnter, ring, usart, reader
<1>3. CASE EmptyRead
  BY <1>0, <1>3 DEF EmptyRead, ring, reader
<1>4. CASE IRQNothing
  BY <1>0, <1>4 DEF IRQNothing, ring, usart, reader
<1>5. CASE FrameBufWrite
  BY <1>0, <1>5, SuccType DEF FrameBufWrite, ring, reader
<1>6. CASE ClearPending
  BY <1>0, <1>6 DEF ClearPending, ring, reader
<1>7. CASE ReadTest
  BY <1>0, <1>7 DEF ReadTest, ring, usart
<1>8. CASE ReadCopy
  BY <1>0, <1>8 DEF ReadCopy, ring, usart
<1>9. CASE ReadAdvance
  BY <1>0, <1>9, SuccType DEF ReadAdvance, usart
<1>10. CASE UNCHANGED ringvars
  BY <1>0, <1>10 DEF ringvars, ring, usart, reader
<1> QED
  BY <1>1, <1>2, <1>3, <1>4, <1>5, <1>6, <1>7, <1>8, <1>9, <1>10
  DEF RingNext, USART1_IRQHandler, FrameBufRead

\* The pointers, registers and steps of the receive path keep their types.
THEOREM RingTypeCorrect == RingSpec => []RingTypeOK
<1>1. RingInit => RingTypeOK
  BY RingAssumption DEF RingInit, RingTypeOK, Slots
<1> QED
  BY <1>1, RingTypeInductive, PTL DEF RingSpec

-----------------------------------------------------------------------------
(* With a host that pauses in time, the ring is never full, so the writer  *)
(* never laps the reader, and the byte being read is never overwritten.    *)

Paced ==
    /\ Unread + RXNE <= backlog
    /\ rd # "poll" => Unread > 0
    /\ rd = "advance" => rdata = FrameBuf[FrameBufRptr]

LEMMA UnreadType == ASSUME RingTypeOK PROVE Unread \in Slots
  BY RingAssumption DEF RingTypeOK, Unread, Slots

\* One more byte is written, or one is read, in a ring with room.
LEMMA UnreadStep ==
    ASSUME NEW w \in Slots, NEW r \in Slots
    PROVE  LET n == IF w >= r THEN w - r ELSE w - r + FRAMEBUFMAX
               up == IF Succ(w) >= r THEN Succ(w) - r
                                     ELSE Succ(w) - r + FRAMEBUFMAX
               down == IF w >= Succ(r) THEN w - Succ(r)
                                       ELSE w - Succ(r) + FRAMEBUFMAX
           IN  /\ n < FRAMEBUFMAX - 1 => up = n + 1
               /\ n > 0 => down = n - 1
  BY RingAssumption DEF Slots, Succ

LEMMA PacedInductive ==
    ASSUME backlog < FRAMEBUFMAX, RingTypeOK, Paced, [RingNext]_ringvars
    PROVE  Paced'
<1> USE RingAssumption DEF RingTypeOK, Paced
<1>0. Unread \in Slots
  BY UnreadType
<1>b. backlog' = backlog /\ backlog \in Nat
  BY DEF RingNext, ringvars
<1>1. CASE Arrive
  <2>1. Unread' = Unread
    BY <1>1 DEF Arrive, ring, Unread
  <2> QED
    BY <1>0, <1>b, <1>1, <2>1 DEF Arrive, ring, reader, Slots
<1>2. CASE IRQEnter \/ EmptyRead \/ IRQNothing \/ ClearPending
  <2>1. UNCHANGED << ring, reader >> /\ RXNE' \in {0, RXNE}
    BY <1>2 DEF IRQEnter, EmptyRead, IRQNothing, ClearPending, ring, usart, reader
  <2>2. Unread' = Unread
    BY <2>1 DEF ring, Unread
  <2>3. Unread \in Int /\ RXNE \in 0 .. 1 /\ Unread + RXNE <= backlog
    BY <1>b, <1>0 DEF Slots
  <2>4. Unread + RXNE' <= backlog
    <3>1. CASE RXNE' = 0
      BY <2>3, <3>1
    <3>2. CASE RXNE' = RXNE
      BY <2>3, <3>2
    <3> QED
      BY <2>1, <3>1, <3>2
  <2> QED
    BY <1>b, <2>1, <2>2, <2>4 DEF ring, reader
<1>3. CASE FrameBufWrite
  <2>1. CASE Full
    <3>1. Unread' = Unread /\ RXNE' = RXNE
      BY <1>3, <2>1 DEF FrameBufWrite, ring, Unread
    <3> QED
      BY <1>b, <1>3, <2>1, <3>1 DEF FrameBufWrite, ring, reader
  <2>2. CASE ~Full
    <3>1. Unread < FRAMEBUFMAX - 1
      BY <1>b, <1>0, <1>3 DEF FrameBufWrite, Slots
    <3>2. Unread' = Unread + 1
      BY <1>3, <2>2, <3>1, UnreadStep DEF FrameBufWrite, ring, Unread
    <3>3. rd = "advance" => FrameBufWptr # FrameBufRptr
      BY DEF Unread, Slots
    <3> QED
      BY <1>b, <1>0, <1>3, <2>2, <3>2, <3>3 DEF FrameBufWrite, ring, reader, Slots
  <2> QED
    BY <2>1, <2>2
<1>4. CASE ReadTest \/ ReadCopy
  <2>1. Unread' = Unread
    BY <1>4 DEF ReadTest, ReadCopy, ring, Unread
  <2>2. FrameBufRptr # FrameBufWptr => Unread > 0
    BY DEF Unread, Slots
  <2> QED
    BY <1>b, <1>0, <1>4, <2>1, <2>2 DEF ReadTest, ReadCopy, ring, usart, Slots
<1>5. CASE ReadAdvance
  <2>1. Unread' = Unread - 1
    BY <1>5, UnreadStep DEF ReadAdvance, Unread
  <2> QED
    BY <1>b, <1>0, <1>5, <2>1 DEF ReadAdvance, usart, Slots
<1>6. CASE UNCHANGED ringvars
  BY <1>6 DEF ringvars, ring, usart, reader, Unread
<1> QED
  BY <1>1, <1>2, <1>3, <1>4, <1>5, <1>6 DEF RingNext, USART1_IRQHandler, FrameBufRead

-----------------------------------------------------------------------------
(* The ring as a queue.                                                    *)

\* The slot of the k-th unread byte.
Slot(k) ==
    LET s == FrameBufRptr + k - 1
    IN  IF s >= FRAMEBUFMAX THEN s - FRAMEBUFMAX ELSE s

LEMMA SlotFacts ==
    ASSUME RingTypeOK
    PROVE  /\ \A k \in 1 .. Unread : Slot(k) \in Slots /\ Slot(k) # FrameBufWptr
           /\ Slot(1) = FrameBufRptr
  BY RingAssumption DEF RingTypeOK, Slot, Slots, Unread

LEMMA ContentsFacts ==
    ASSUME RingTypeOK
    PROVE  /\ Contents \in Seq(Nat)
           /\ Len(Contents) = Unread
           /\ \A k \in 1 .. Unread : Contents[k] = FrameBuf[Slot(k)]
<1>1. Contents = [k \in 1 .. Unread |-> FrameBuf[Slot(k)]]
  BY DEF Contents, Slot
<1>2. \A k \in 1 .. Unread : FrameBuf[Slot(k)] \in Nat
  BY SlotFacts, RingAssumption DEF RingTypeOK
<1>3. Unread \in Nat
  BY UnreadType, RingAssumption DEF Slots
<1> QED
  BY <1>1, <1>2, <1>3

\* The same after a step.
LEMMA NextContents ==
    ASSUME RingTypeOK'
    PROVE  /\ Contents' \in Seq(Nat)
           /\ Len(Contents') = Unread'
           /\ \A k \in 1 .. Unread' : Contents'[k] = FrameBuf'[Slot(k)']
<1>1. (RingTypeOK => /\ Contents \in Seq(Nat)
                 /\ Len(Contents) = Unread
                 /\ \A k \in 1 .. Unread : Contents[k] = FrameBuf[Slot(k)])'
  BY ContentsFacts, PTL
<1> QED
  BY <1>1

\* A byte written is put at the end of the queue.
LEMMA WriteIsPut ==
    ASSUME backlog < FRAMEBUFMAX, RingTypeOK, RingTypeOK', Paced, FrameBufWrite, ~Full
    PROVE  Queue!Put
<1> USE RingAssumption DEF RingTypeOK
<1>0. Unread \in Slots
  BY UnreadType
<1>1. Unread < FRAMEBUFMAX - 1
  BY <1>0 DEF FrameBufWrite, Slots, Paced
<1>2. Unread' = Unread + 1
  BY <1>1, UnreadStep DEF FrameBufWrite, ring, Unread
<1>3. Len(Contents') = Unread + 1
      /\ \A k \in 1 .. Unread + 1 : Contents'[k] = FrameBuf'[Slot(k)']
  BY <1>2, NextContents
<1>4. ASSUME NEW k \in 1 .. Unread PROVE Contents'[k] = Contents[k]
  <2>1. Slot(k)' = Slot(k)
    BY DEF Slot, FrameBufWrite, ring
  <2>2. FrameBuf'[Slot(k)] = FrameBuf[Slot(k)]
    BY SlotFacts DEF FrameBufWrite
  <2>3. k \in 1 .. Unread + 1
    BY <1>0 DEF Slots
  <2> QED
    BY <1>3, <2>1, <2>2, <2>3, ContentsFacts
<1> QED
  BY <1>3, <1>4, ContentsFacts DEF Queue!Put, FrameBufWrite, reader

\* A byte read is the head of the queue.
LEMMA ReadIsGet ==
    ASSUME RingTypeOK, RingTypeOK', Paced, ReadAdvance
    PROVE  Queue!Get
<1> USE RingAssumption DEF RingTypeOK
<1>0. Unread \in Slots
  BY UnreadType
<1>1. Unread > 0 /\ rdata = FrameBuf[FrameBufRptr]
  BY DEF Paced, ReadAdvance
<1>2. Unread' = Unread - 1
  BY <1>1, UnreadStep DEF ReadAdvance, Unread
<1>3. /\ Contents' \in Seq(Nat)
      /\ Len(Contents') = Unread - 1
      /\ \A k \in 1 .. Unread - 1 : Contents'[k] = FrameBuf'[Slot(k)']
  BY <1>2, NextContents
<1>4. ASSUME NEW k \in 1 .. Unread - 1 PROVE Contents'[k] = Contents[k + 1]
  <2>1. Slot(k)' = Slot(k + 1)
    BY <1>0 DEF Slot, ReadAdvance, Succ, Slots
  <2>2. k + 1 \in 1 .. Unread
    BY <1>0 DEF Slots
  <2> QED
    BY <1>3, <2>1, <2>2, ContentsFacts DEF ReadAdvance
<1>5. Contents \in Seq(Nat) /\ Len(Contents) = Unread /\ Contents # << >>
  <2>1. Contents \in Seq(Nat) /\ Len(Contents) = Unread
    BY ContentsFacts, Zenon
  <2>2. Len(Contents) # 0
    BY <1>1, <2>1
  <2> QED
    BY <2>1, <2>2, EmptySeq
<1>6. Head(Contents) = rdata
  <2>1. Head(Contents) = Contents[1]
    BY <1>5
  <2>2. 1 \in 1 .. Unread
    BY <1>0, <1>1 DEF Slots
  <2> QED
    BY <1>1, <2>1, <2>2, SlotFacts, ContentsFacts
<1>7. Contents' = Tail(Contents)
  <2>1. /\ Tail(Contents) \in Seq(Nat)
        /\ Len(Tail(Contents)) = Unread - 1
        /\ \A k \in 1 .. Unread - 1 : Tail(Contents)[k] = Contents[k + 1]
    BY <1>5, HeadTailProperties
  <2>2. \A k \in 1 .. Len(Contents') : Contents'[k] = Tail(Contents)[k]
    BY <1>3, <1>4, <2>1
  <2> QED
    BY <1>3, <2>1, <2>2, SeqEqual, Zenon
<1> QED
  BY <1>5, <1>6, <1>7 DEF Queue!Get, ReadAdvance

\* Every other step leaves the queue alone.
LEMMA StepIsQueueStep ==
    ASSUME backlog < FRAMEBUFMAX, RingTypeOK, RingTypeOK', Paced, [RingNext]_ringvars
    PROVE  Queue!Put \/ Queue!Get \/ UNCHANGED << Contents, got >>
<1>1. CASE UNCHANGED << ring, got >>
  BY <1>1 DEF ring, Contents, Unread
<1>2. CASE FrameBufWrite /\ ~Full
  BY <1>2, WriteIsPut
<1>3. CASE ReadAdvance
  BY <1>3, ReadIsGet
<1>4. Arrive \/ IRQEnter \/ EmptyRead \/ IRQNothing \/ ClearPending
      \/ (FrameBufWrite /\ Full) \/ ReadTest \/ ReadCopy \/ UNCHANGED ringvars
      => UNCHANGED << ring, got >>
  BY DEF Arrive, IRQEnter, EmptyRead, IRQNothing, ClearPending, FrameBufWrite,
         ReadTest, ReadCopy, ringvars, ring, reader
<1> QED
  BY <1>1, <1>2, <1>3, <1>4 DEF RingNext, USART1_IRQHandler, FrameBufRead

\* With a host that pauses before the ring is full, the receive path is a
\* queue, whatever overruns happen before it (FrameBufWrite, FrameBufRead).
THEOREM QueueImplementation == RingSpec => ImplementsQueue
<1> DEFINE PacedOrNot == backlog < FRAMEBUFMAX => Paced
<1>1. RingInit => PacedOrNot /\ Queue!QInit
  BY RingAssumption DEF RingInit, Paced, Unread, Queue!QInit, Contents
<1>2. RingTypeOK /\ PacedOrNot /\ [RingNext]_ringvars => PacedOrNot'
  <2>1. [RingNext]_ringvars => backlog' = backlog
    BY DEF RingNext, ringvars
  <2> QED
    BY <2>1, PacedInductive
<1>3. RingTypeOK /\ RingTypeOK' /\ PacedOrNot /\ [RingNext]_ringvars
      => [backlog < FRAMEBUFMAX => Queue!Put \/ Queue!Get]_<< Contents, got >>
  BY StepIsQueueStep
<1> QED
  BY <1>1, <1>2, <1>3, RingTypeCorrect, PTL DEF RingSpec, ImplementsQueue

\* When every host pauses in time, the receive path implements ByteQueue.
COROLLARY ByteQueueImplementation ==
    ASSUME \A b \in Backlogs : b < FRAMEBUFMAX
    PROVE  RingSpec => Queue!QSpec
<1>1. RingTypeOK => backlog < FRAMEBUFMAX
  BY DEF RingTypeOK
<1>2. backlog < FRAMEBUFMAX
      /\ [backlog < FRAMEBUFMAX => Queue!Put \/ Queue!Get]_<< Contents, got >>
      => [Queue!Put \/ Queue!Get]_<< Contents, got >>
  OBVIOUS
<1> QED
  BY <1>1, <1>2, RingTypeCorrect, QueueImplementation, PTL
  DEF ImplementsQueue, Queue!QSpec

\* For every ring size, the writer laps the reader at slot 0 and nowhere else
\* (FrameBufWrite, usart.c:157).
THEOREM WriterLapsOnlyAtZero == RingSpec => LapsOnlyAtZero
<1>1. RingTypeOK /\ [RingNext]_ringvars
      => (FrameBufWptr' # FrameBufWptr /\ FrameBufRptr # 0 => Unread' = Unread + 1)
  <2> SUFFICES ASSUME RingTypeOK, [RingNext]_ringvars,
                      FrameBufWptr' # FrameBufWptr, FrameBufRptr # 0
               PROVE  Unread' = Unread + 1
    OBVIOUS
  <2>1. FrameBufWrite /\ ~Full
    BY DEF RingNext, USART1_IRQHandler, FrameBufRead, Arrive, IRQEnter, EmptyRead,
           IRQNothing, ClearPending, FrameBufWrite, ReadTest, ReadCopy,
           ReadAdvance, ringvars, ring
  <2>2. Unread < FRAMEBUFMAX - 1
    BY <2>1, RingAssumption DEF RingTypeOK, Full, Unread, Slots
  <2>3. FrameBufWptr' = Succ(FrameBufWptr) /\ FrameBufRptr' = FrameBufRptr
    BY <2>1 DEF FrameBufWrite
  <2> QED
    BY <2>2, <2>3, UnreadStep DEF RingTypeOK, Unread
<1> QED
  BY <1>1, RingTypeCorrect, PTL DEF RingSpec, LapsOnlyAtZero

-----------------------------------------------------------------------------
(* The order of the bytes read, whatever is lost.                          *)

LEMMA AgeFacts ==
    ASSUME RingTypeOK
    PROVE  /\ \A s \in Slots : Age(s) \in Slots
           /\ \A s, t \in Slots : Age(s) = Age(t) => s = t
           /\ Age(FrameBufWptr) = 0
           /\ \A s \in Slots \ {FRAMEBUFMAX - 1} :
                 Age(s + 1) = IF Age(s) = FRAMEBUFMAX - 1 THEN 0 ELSE Age(s) + 1
           /\ Age(0) = IF Age(FRAMEBUFMAX - 1) = FRAMEBUFMAX - 1
                       THEN 0 ELSE Age(FRAMEBUFMAX - 1) + 1
  BY RingAssumption DEF RingTypeOK, Age, Slots

\* A write makes the oldest slot the youngest and every other slot older.
LEMMA AgeAfterWrite ==
    ASSUME RingTypeOK, FrameBufWptr' = Succ(FrameBufWptr), NEW s \in Slots
    PROVE  Age(s)' = IF s = FrameBufWptr THEN FRAMEBUFMAX - 1 ELSE Age(s) - 1
  BY RingAssumption DEF RingTypeOK, Age, Slots, Succ

LEMMA WriteKeepsOrder ==
    ASSUME RingTypeOK, Ordered, FrameBufWrite, ~Full
    PROVE  Ordered'
<1> USE RingAssumption DEF RingTypeOK
<1> DEFINE W == FrameBufWptr
<1>1. /\ UNCHANGED << FrameBufRptr, DR, ORE, rd, rdata, got, arrived >>
      /\ FrameBuf' = [FrameBuf EXCEPT ![W] = DR]
      /\ FrameBufWptr' = Succ(W)
      /\ RXNE = 1 /\ RXNE' = 0
  BY DEF FrameBufWrite, reader
<1>2. FrameBuf'[W] = DR /\ \A s \in Slots \ {W} : FrameBuf'[s] = FrameBuf[s]
  BY <1>1
<1>3. /\ \A s \in Slots : FrameBuf[s] < DR
      /\ got < DR /\ DR <= arrived
      /\ \A s \in Slots : FrameBuf[s] \in Nat
      /\ DR \in Nat /\ got \in Nat /\ rdata \in Nat
  BY <1>1 DEF Ordered, Newest
<1>4. \A s \in Slots : Age(s)' = IF s = W THEN FRAMEBUFMAX - 1 ELSE Age(s) - 1
  BY <1>1, AgeAfterWrite
<1>5. \A s \in Slots : Age(s) \in Slots
  BY AgeFacts
<1>6. Aged'
  <2> SUFFICES ASSUME NEW s \in Slots, NEW t \in Slots, Age(s)' < Age(t)'
               PROVE  FrameBuf'[s] < FrameBuf'[t]
                      \/ (FrameBuf'[s] = 0 /\ FrameBuf'[t] = 0)
    BY DEF Aged
  <2>0. /\ Age(s)' = IF s = W THEN FRAMEBUFMAX - 1 ELSE Age(s) - 1
        /\ Age(t)' = IF t = W THEN FRAMEBUFMAX - 1 ELSE Age(t) - 1
        /\ Age(s) \in 0 .. FRAMEBUFMAX - 1 /\ Age(t) \in 0 .. FRAMEBUFMAX - 1
    BY <1>4, <1>5 DEF Slots
  <2>1. s # W
    BY <2>0
  <2>2. CASE t = W
    BY <1>2, <1>3, <2>1, <2>2
  <2>3. CASE t # W
    <3>1. Age(s) < Age(t)
      BY <2>0, <2>1, <2>3
    <3> QED
      BY <1>2, <2>1, <2>3, <3>1 DEF Ordered, Aged
  <2> QED
    BY <2>2, <2>3
<1>7. Newest'
  BY <1>1, <1>2, <1>3 DEF Ordered, Newest
<1>8. Reading'
  <2>1. ASSUME rd = "poll", FrameBufRptr # FrameBufWptr',
               NEW s \in Slots, Age(s)' >= Age(FrameBufRptr)'
        PROVE  got < FrameBuf'[s]
    <3>1. CASE s = W
      BY <1>2, <1>3, <3>1
    <3>2. CASE s # W
      <4>0. /\ Age(s)' = Age(s) - 1
            /\ Age(FrameBufRptr)' = IF FrameBufRptr = W THEN FRAMEBUFMAX - 1
                                                      ELSE Age(FrameBufRptr) - 1
            /\ Age(s) \in 0 .. FRAMEBUFMAX - 1
            /\ Age(FrameBufRptr) \in 0 .. FRAMEBUFMAX - 1
        <5>1. FrameBufRptr' = FrameBufRptr /\ FrameBufRptr \in Slots
          BY <1>1
        <5>2. Age(FrameBufRptr)' = IF FrameBufRptr = W THEN FRAMEBUFMAX - 1
                                                       ELSE Age(FrameBufRptr) - 1
          BY <5>1, <1>1 DEF Age, Slots, Succ
        <5> QED
          BY <1>4, <1>5, <3>2, <5>1, <5>2 DEF Slots
      <4>1. FrameBufRptr # W
        BY <2>1, <4>0
      <4>2. Age(s) >= Age(FrameBufRptr)
        BY <2>1, <4>0, <4>1
      <4> QED
        BY <1>2, <2>1, <3>2, <4>1, <4>2 DEF Ordered, Reading
    <3> QED
      BY <3>1, <3>2
  <2>2. FrameBuf[FrameBufRptr] <= FrameBuf'[FrameBufRptr]
    BY <1>2, <1>3
  <2>3. /\ rd = "copy" => got < FrameBuf'[FrameBufRptr]
        /\ rd = "advance" => got < rdata /\ rdata <= FrameBuf'[FrameBufRptr]
    BY <1>2, <1>3, <2>2 DEF Ordered, Reading
  <2> QED
    BY <1>1, <2>1, <2>3 DEF Reading, Age
<1> QED
  BY <1>6, <1>7, <1>8 DEF Ordered

LEMMA AdvanceKeepsOrder ==
    ASSUME RingTypeOK, Ordered, ReadAdvance
    PROVE  Ordered'
<1> USE RingAssumption DEF RingTypeOK
<1> DEFINE R == FrameBufRptr
<1>1. /\ UNCHANGED << FrameBuf, FrameBufWptr, DR, RXNE, rdata, arrived >>
      /\ rd = "advance" /\ rd' = "poll" /\ got' = rdata
      /\ FrameBufRptr' = Succ(R)
  BY DEF ReadAdvance, usart
<1>2. Aged'
  BY <1>1 DEF Ordered, Aged, Age
<1>3. rdata <= FrameBuf[R]
  BY <1>1 DEF Ordered, Reading
<1>4. Newest'
  BY <1>1, <1>3 DEF Ordered, Newest
<1>5. \A s \in Slots : Age(s)' = Age(s)
  BY <1>1 DEF Age
<1>6. ASSUME Succ(R) # FrameBufWptr,
             NEW s \in Slots, Age(s) >= Age(Succ(R))
      PROVE  rdata < FrameBuf[s]
  <2>1. Age(Succ(R)) = IF Age(R) = FRAMEBUFMAX - 1 THEN 0 ELSE Age(R) + 1
    BY AgeFacts DEF Succ, Slots
  <2>2. Succ(R) \in Slots /\ Age(Succ(R)) # 0
    BY <1>6, AgeFacts, SuccType
  <2>3. Age(R) < Age(s)
    <3>1. Age(R) \in 0 .. FRAMEBUFMAX - 1 /\ Age(s) \in 0 .. FRAMEBUFMAX - 1
      BY AgeFacts DEF Slots
    <3> QED
      BY <1>6, <2>1, <2>2, <3>1
  <2>4. FrameBuf[R] < FrameBuf[s] \/ FrameBuf[R] = 0
    BY <2>3 DEF Ordered, Aged
  <2>5. got < rdata
    BY <1>1 DEF Ordered, Reading
  <2> QED
    BY <1>3, <2>4, <2>5
<1>7. Reading'
  BY <1>1, <1>5, <1>6, SuccType DEF Reading
<1> QED
  BY <1>2, <1>4, <1>7 DEF Ordered

LEMMA OrderedInductive == RingTypeOK /\ Ordered /\ [RingNext]_ringvars => Ordered'
<1> SUFFICES ASSUME RingTypeOK, Ordered, [RingNext]_ringvars PROVE Ordered'
  OBVIOUS
<1> USE RingAssumption DEF RingTypeOK
<1>1. CASE Arrive
  <2>1. UNCHANGED << ring, reader >> /\ arrived' = arrived + 1
        /\ (RXNE = 0 => DR' = arrived + 1) /\ (RXNE = 1 => DR' = DR)
    BY <1>1 DEF Arrive
  <2>2. Newest'
    BY <2>1 DEF ring, reader, Ordered, Newest
  <2> QED
    BY <2>1, <2>2 DEF ring, reader, Ordered, Aged, Reading, Age
<1>2. CASE IRQEnter \/ EmptyRead \/ IRQNothing \/ ClearPending \/ UNCHANGED ringvars
  <2>1. UNCHANGED << ring, reader, DR, arrived >> /\ RXNE' \in {0, RXNE}
    BY <1>2 DEF IRQEnter, EmptyRead, IRQNothing, ClearPending, ringvars, usart
  <2> QED
    BY <2>1 DEF ring, reader, Ordered, Aged, Newest, Reading, Age
<1>3. CASE FrameBufWrite /\ Full
  BY <1>3 DEF FrameBufWrite, ring, reader, Ordered, Aged, Newest, Reading, Age
<1>4. CASE FrameBufWrite /\ ~Full
  BY <1>4, WriteKeepsOrder
<1>5. CASE ReadTest \/ ReadCopy
  <2>1. UNCHANGED << ring, usart, got, arrived >>
    BY <1>5 DEF ReadTest, ReadCopy
  <2>2. Aged' /\ Newest'
    BY <2>1 DEF ring, usart, Ordered, Aged, Newest, Age
  <2>3. CASE ReadTest
    <3>1. Age(FrameBufRptr) >= Age(FrameBufRptr)
      BY AgeFacts DEF Slots
    <3> QED
      BY <2>1, <2>2, <2>3, <3>1 DEF ReadTest, ring, Ordered, Reading
  <2>4. CASE ReadCopy
    BY <2>1, <2>2, <2>4 DEF ReadCopy, ring, Slots, Ordered, Reading
  <2> QED
    BY <1>5, <2>3, <2>4
<1>6. CASE ReadAdvance
  BY <1>6, AdvanceKeepsOrder
<1> QED
  BY <1>1, <1>2, <1>3, <1>4, <1>5, <1>6 DEF RingNext, USART1_IRQHandler, FrameBufRead

\* The bytes in the ring, the one being read and the one last read stay ordered
\* by age (FrameBufWrite and USART1_IRQHandler against FrameBufRead).
THEOREM RingOrdered == RingSpec => []Ordered
<1>1. RingInit => Ordered
  BY RingAssumption DEF RingInit, Ordered, Aged, Newest, Reading, Age, Slots
<1> QED
  BY <1>1, OrderedInductive, RingTypeCorrect, PTL DEF RingSpec

\* Bytes are read in the order of their arrival and at most once, even when the
\* writer laps the reader (FrameBufWrite against FrameBufRead).
THEOREM ReadsInOrder == RingSpec => InOrder
<1>1. Ordered => (rd = "advance" /\ rd' = "poll" => rdata > got)
  BY DEF Ordered, Reading
<1> QED
  BY <1>1, RingOrdered, PTL DEF RingSpec, InOrder

-----------------------------------------------------------------------------
(* The communication task: the check byte is what the grammar asks for, so *)
(* the parser implements the grammar, its replies are frames, and its      *)
(* handlers run as meant.                                                  *)

-----------------------------------------------------------------------------
(* The check byte.  RunningXor is a recursive function; what it computes   *)
(* is shown by the least index at which it would be something else.        *)

\* x is the running check of s up to its n-th byte.
Runs(x, s, n) == x = [k \in 0 .. n |-> IF k = 0 THEN 0 ELSE XorByte(x[k - 1], s[k])]

\* A set of naturals that is not empty has a least element.
LEMMA Least ==
    ASSUME NEW P \in SUBSET Nat, P # {}
    PROVE  \E m \in P : \A n \in P : m <= n
<1>1. PICK m \in P : \A n \in P : ~ (<<n, m>> \in OpToRel(<, Nat))
  BY NatLessThanWellFounded, WFMin
<1>2. ASSUME NEW n \in P PROVE m <= n
  <2>1. <<n, m>> \in Nat \X Nat
    OBVIOUS
  <2>2. ~(n < m)
    BY <1>1, <2>1 DEF OpToRel
  <2> QED
    BY <2>2
<1> QED
  BY <1>2

LEMMA RunExists ==
    ASSUME NEW s, NEW n \in Nat
    PROVE  \E x : Runs(x, s, n)
<1> DEFINE Bad == {m \in Nat : ~ \E x : Runs(x, s, m)}
<1>1. SUFFICES Bad = {}
  OBVIOUS
<1>2. SUFFICES ASSUME Bad # {} PROVE FALSE
  OBVIOUS
<1>3. PICK m \in Bad : \A k \in Bad : m <= k
  BY <1>2, Least
<1>4. CASE m = 0
  <2>1. Runs([k \in 0 .. m |-> 0], s, m)
    BY <1>4 DEF Runs
  <2> QED
    BY <1>3, <2>1
<1>5. CASE m # 0
  <2>1. m - 1 \in Nat /\ m - 1 \notin Bad
    BY <1>3, <1>5
  <2>2. PICK x : Runs(x, s, m - 1)
    BY <2>1
  <2> DEFINE y == [k \in 0 .. m |-> IF k = m THEN XorByte(x[m - 1], s[m]) ELSE x[k]]
  <2>3. \A k \in 0 .. m - 1 : x[k] = IF k = 0 THEN 0 ELSE XorByte(x[k - 1], s[k])
    BY <2>2 DEF Runs
  <2>4. ASSUME NEW k \in 0 .. m PROVE y[k] = IF k = 0 THEN 0 ELSE XorByte(y[k - 1], s[k])
    BY <1>5, <2>1, <2>3
  <2>5. Runs(y, s, m)
    BY <2>4 DEF Runs
  <2> QED
    BY <1>3, <2>5
<1> QED
  BY <1>4, <1>5

LEMMA RunningIs ==
    ASSUME NEW s \in Seq(Byte)
    PROVE  Runs(RunningXor(s), s, Len(s))
<1>1. Len(s) \in Nat
  OBVIOUS
<1>2. \E x : Runs(x, s, Len(s))
  BY <1>1, RunExists
<1> QED
  BY <1>2 DEF Runs, RunningXor

\* Two runs over the same bytes agree.
LEMMA RunsAgree ==
    ASSUME NEW s, NEW t, NEW x, NEW y, NEW n \in Nat, NEW m \in Nat,
           Runs(x, s, n), Runs(y, t, m), n <= m,
           \A k \in 1 .. n : s[k] = t[k]
    PROVE  \A k \in 0 .. n : x[k] = y[k]
<1> DEFINE Bad == {k \in 0 .. n : x[k] # y[k]}
<1>1. SUFFICES ASSUME Bad # {} PROVE FALSE
  OBVIOUS
<1>2. PICK k \in Bad : \A j \in Bad : k <= j
  <2>1. Bad \in SUBSET Nat
    OBVIOUS
  <2> HIDE DEF Bad
  <2> QED
    BY <1>1, <2>1, Least
<1>3. /\ \A j \in 0 .. n : x[j] = IF j = 0 THEN 0 ELSE XorByte(x[j - 1], s[j])
      /\ \A j \in 0 .. n : y[j] = IF j = 0 THEN 0 ELSE XorByte(y[j - 1], t[j])
  BY DEF Runs
<1>4. k # 0
  BY <1>2, <1>3
<1>5. k - 1 \in 0 .. n /\ k - 1 \notin Bad
  BY <1>2, <1>4
<1>6. x[k - 1] = y[k - 1] /\ s[k] = t[k]
  BY <1>2, <1>4, <1>5
<1> QED
  BY <1>2, <1>3, <1>4, <1>6

\* The check of no bytes, and of one more byte.
LEMMA XorEmpty == XorAll(<< >>) = 0
<1>1. << >> \in Seq(Byte) /\ Len(<< >>) = 0
  OBVIOUS
<1>2. Runs(RunningXor(<< >>), << >>, 0)
  BY <1>1, RunningIs
<1> QED
  BY <1>1, <1>2 DEF Runs, XorAll

LEMMA XorAppend ==
    ASSUME NEW s \in Seq(Byte), NEW b \in Byte
    PROVE  XorAll(Append(s, b)) = XorByte(XorAll(s), b)
<1> DEFINE t == Append(s, b)
           n == Len(s)
           x == RunningXor(s)
           y == RunningXor(t)
<1>1. t \in Seq(Byte) /\ n \in Nat /\ Len(t) = n + 1 /\ t[n + 1] = b /\ \A k \in 1 .. n : s[k] = t[k]
  OBVIOUS
<1>2. Runs(x, s, n) /\ Runs(y, t, n + 1)
  BY <1>1, RunningIs
<1> HIDE DEF t, n, x, y
<1>3. \A k \in 0 .. n : x[k] = y[k]
  <2> DEFINE m == n + 1
  <2>1. m \in Nat /\ n \in Nat /\ n <= m
    BY <1>1
  <2>2. \A k \in 1 .. n : s[k] = t[k]
    BY <1>1
  <2>3. Runs(x, s, n) /\ Runs(y, t, m)
    BY <1>2
  <2> HIDE DEF m
  <2> QED
    BY <2>1, <2>2, <2>3, RunsAgree
<1>4. y[n + 1] = XorByte(y[n], t[n + 1])
  BY <1>1, <1>2 DEF Runs
<1>5. y[n + 1] = XorByte(x[n], b)
  BY <1>1, <1>3, <1>4
<1> QED
  BY <1>1, <1>5 DEF XorAll, t, n, x, y

\* The check is a byte.
LEMMA XorType ==
    ASSUME NEW s \in Seq(Byte)
    PROVE  XorAll(s) \in Byte
<1> DEFINE n == Len(s)
           x == RunningXor(s)
           Bad == {k \in 0 .. n : x[k] \notin Byte}
<1>1. n \in Nat /\ \A k \in 1 .. n : s[k] \in Byte
  OBVIOUS
<1>2. \A j \in 0 .. n : x[j] = IF j = 0 THEN 0 ELSE XorByte(x[j - 1], s[j])
  BY RunningIs DEF Runs
<1> HIDE DEF x, n
<1>3. SUFFICES Bad = {}
  BY <1>1 DEF XorAll, x, n
<1>4. SUFFICES ASSUME Bad # {} PROVE FALSE
  OBVIOUS
<1>5. PICK k \in Bad : \A j \in Bad : k <= j
  <2>1. Bad \in SUBSET Nat
    BY <1>1
  <2> HIDE DEF Bad
  <2> QED
    BY <1>4, <2>1, Least
<1>6. k # 0
  BY <1>2, <1>5, XorAssumption
<1>7. k - 1 \in 0 .. n /\ k - 1 \notin Bad
  BY <1>1, <1>5, <1>6
<1>8. x[k] = XorByte(x[k - 1], s[k]) /\ k \in 1 .. n
  BY <1>1, <1>2, <1>5, <1>6
<1>9. x[k - 1] \in Byte /\ s[k] \in Byte
  BY <1>1, <1>7, <1>8
<1> QED
  BY <1>5, <1>8, <1>9, XorAssumption
-----------------------------------------------------------------------------
(* Types.                                                                  *)

\* A byte that does not fit, and every byte that only moves the state on.
LEMMA RejectType ==
    ASSUME TypeOK, Go(0), UNCHANGED << i, frame >>
    PROVE  TypeOK'
  BY DEF Go, frame, TypeOK, NoCall

\* A handler leaves the frame alone and records its command.
LEMMA HandleType ==
    ASSUME TypeOK, Handle
    PROVE  call'.cmd \in Commands \cup {0}
<1>1. call'.cmd = CMD
  BY DEF Handle, prvDisReport, prvTempReport, prvTimeGet, prvTimeCalibration,
         prvLift, prvMotor, Sendarray, NoCall
<1> QED
  BY <1>1 DEF TypeOK

LEMMA ByteType ==
    ASSUME TypeOK, NEW data \in Byte, TakeByte(data)
    PROVE  TypeOK'
<1> USE CommAssumption, XorAssumption
<1>1. Go(0) /\ UNCHANGED << i, frame >> => TypeOK'
  BY RejectType
<1>2. CASE ExpectHead1(data)
  BY <1>1, <1>2 DEF ExpectHead1, Reject, Go, frame, TypeOK, NoCall
<1>3. CASE ExpectHead2(data)
  BY <1>1, <1>3 DEF ExpectHead2, Reject, Go, TypeOK, NoCall
<1>4. CASE ExpectCommand(data)
  BY <1>1, <1>4 DEF ExpectCommand, Reject, Go, TypeOK, NoCall
<1>5. CASE ExpectLength(data)
  BY <1>1, <1>5 DEF ExpectLength, Reject, Go, TypeOK, NoCall
<1>6. CASE ExpectData(data)
  BY <1>6 DEF ExpectData, Reject, Go, TypeOK, NoCall
<1>7. CASE ExpectCheck(data)
  BY <1>1, <1>7 DEF ExpectCheck, Reject, Go, frame, TypeOK, NoCall
<1>8. CASE ExpectEnd1(data)
  BY <1>1, <1>8 DEF ExpectEnd1, Reject, Go, frame, TypeOK, NoCall
<1>9. CASE ExpectEnd2(data)
  <2>1. CASE HasHandler /\ Handle /\ State' = 0 /\ UNCHANGED << i, frame >>
    <3>1. call'.cmd \in Commands \cup {0}
      BY <2>1, HandleType
    <3> QED
      BY <2>1, <3>1 DEF frame, TypeOK
  <2>2. CASE /\ State' = 8
             /\ call' = [NoCall EXCEPT !.cmd = CMD]
             /\ UNCHANGED << i, frame >>
    <3>1. call'.cmd = CMD
      BY <2>2 DEF NoCall
    <3> QED
      BY <2>2, <3>1 DEF frame, TypeOK
  <2>3. CASE Reject(data = END2)
    BY <1>1, <2>3 DEF Reject
  <2> QED
    BY <1>9, <2>1, <2>2, <2>3, Zenon DEF ExpectEnd2
<1> QED
  BY <1>2, <1>3, <1>4, <1>5, <1>6, <1>7, <1>8, <1>9 DEF TakeByte

\* Whatever bytes come in, the parser and the frame keep their types: in
\* particular a data byte is always stored inside FrameRData (case 4).
THEOREM TypeCorrect == Spec => []TypeOK
<1>1. Init => TypeOK
  BY CommAssumption, XorAssumption DEF Init, TypeOK, NoCall
<1>2. TypeOK /\ [Next]_vars => TypeOK'
  <2> SUFFICES ASSUME TypeOK, [Next]_vars PROVE TypeOK'
    OBVIOUS
  <2>1. CASE Next
    BY <2>1, ByteType DEF Next
  <2>2. CASE UNCHANGED vars
    BY <2>2 DEF vars, frame, TypeOK
  <2> QED
    BY <2>1, <2>2
<1> QED
  BY <1>1, <1>2, PTL DEF Spec

-----------------------------------------------------------------------------
(* What CHECK covers: the invariant the other theorems rest on.            *)

\* The first k data bytes; the bytes from the command on, k of them data; and the
\* frame up to there.
Stored(f, k) == [j \in 1 .. k |-> f[j - 1]]
CoveredOf(c, n, f, k) == << c, n >> \o Stored(f, k)
Covered(k) == CoveredOf(CMD, RDataLen, FrameRData, k)
ReceivedOf(c, n, f, k) == << HEAD1, HEAD2, c, n >> \o Stored(f, k)

\* CHECK is the exclusive or of the bytes it should cover, at every state of the
\* parser and after a handler ran; a frame past its command has a known one; and
\* what is handled is the frame in hand.
CheckCovers ==
    /\ RDataLen \in Byte
    /\ State \in 3 .. 8 => CMD \in Commands
    /\ State = 2 => CHECK = 0
    /\ State = 3 => CHECK = XorByte(0, CMD)
    /\ State = 4 => CHECK = XorAll(Covered(i))
    /\ State \in 5 .. 8 => CHECK = XorAll(Covered(RDataLen))
    /\ call.cmd # 0 => /\ State \in {0, 8} /\ call.cmd = CMD
                       /\ CHECK = XorAll(Covered(RDataLen))

IInv == TypeOK /\ CheckCovers

\* These bytes, one by one.
LEMMA StoredIs ==
    ASSUME NEW f \in [0 .. MaxData - 1 -> Byte], NEW k \in 0 .. MaxData
    PROVE  /\ Stored(f, k) \in Seq(Byte)
           /\ Len(Stored(f, k)) = k
           /\ \A j \in 1 .. k : Stored(f, k)[j] = f[j - 1]
<1>0. k \in Nat /\ MaxData \in Nat /\ k <= MaxData
  BY CommAssumption
<1>1. Stored(f, k) \in [1 .. k -> Byte]
  <2>1. \A j \in 1 .. k : f[j - 1] \in Byte
    BY <1>0
  <2> QED
    BY <2>1 DEF Stored
<1>2. \A j \in 1 .. k : Stored(f, k)[j] = f[j - 1]
  BY DEF Stored
<1> QED
  BY <1>0, <1>1, <1>2

IsCovered(s, c, n, f, k) ==
    /\ s \in Seq(Byte) /\ Len(s) = k + 2
    /\ s[1] = c /\ s[2] = n
    /\ \A j \in 1 .. k : s[j + 2] = f[j - 1]

IsReceived(s, c, n, f, k) ==
    /\ s \in Seq(Byte) /\ Len(s) = k + 4
    /\ s[1] = HEAD1 /\ s[2] = HEAD2 /\ s[3] = c /\ s[4] = n
    /\ \A j \in 1 .. k : s[j + 4] = f[j - 1]

LEMMA CoveredIs ==
    ASSUME NEW f \in [0 .. MaxData - 1 -> Byte], NEW k \in 0 .. MaxData,
           NEW c \in Byte, NEW n \in Byte
    PROVE  IsCovered(CoveredOf(c, n, f, k), c, n, f, k)
<1> DEFINE h == << c, n >>
           d == Stored(f, k)
<1>0. k \in Nat
  BY CommAssumption
<1>1. h \in Seq(Byte) /\ Len(h) = 2 /\ h[1] = c /\ h[2] = n
  OBVIOUS
<1>2. d \in Seq(Byte) /\ Len(d) = k /\ \A j \in 1 .. k : d[j] = f[j - 1]
  BY StoredIs
<1>3. CoveredOf(c, n, f, k) = h \o d
  BY DEF CoveredOf
<1> HIDE DEF d
<1>4. h \o d \in Seq(Byte) /\ Len(h \o d) = k + 2
  BY <1>0, <1>1, <1>2
<1>5. (h \o d)[1] = c /\ (h \o d)[2] = n
  BY <1>0, <1>1, <1>2
<1>6. \A j \in 1 .. k : (h \o d)[j + 2] = d[j]
  BY <1>0, <1>1, <1>2
<1>7. \A j \in 1 .. k : (h \o d)[j + 2] = f[j - 1]
  BY <1>2, <1>6
<1> QED
  BY <1>3, <1>4, <1>5, <1>7 DEF IsCovered

LEMMA ReceivedIs ==
    ASSUME NEW f \in [0 .. MaxData - 1 -> Byte], NEW k \in 0 .. MaxData,
           NEW c \in Byte, NEW n \in Byte
    PROVE  IsReceived(ReceivedOf(c, n, f, k), c, n, f, k)
<1> DEFINE h == << HEAD1, HEAD2, c, n >>
           d == Stored(f, k)
<1>0. k \in Nat
  BY CommAssumption
<1>1. h \in Seq(Byte) /\ Len(h) = 4 /\ h[1] = HEAD1 /\ h[2] = HEAD2 /\ h[3] = c /\ h[4] = n
  BY CommAssumption
<1>2. d \in Seq(Byte) /\ Len(d) = k /\ \A j \in 1 .. k : d[j] = f[j - 1]
  BY StoredIs
<1>3. ReceivedOf(c, n, f, k) = h \o d
  BY DEF ReceivedOf
<1> HIDE DEF d
<1>4. h \o d \in Seq(Byte) /\ Len(h \o d) = k + 4
  BY <1>0, <1>1, <1>2
<1>5. /\ (h \o d)[1] = HEAD1 /\ (h \o d)[2] = HEAD2
      /\ (h \o d)[3] = c /\ (h \o d)[4] = n
  BY <1>0, <1>1, <1>2
<1>6. \A j \in 1 .. k : (h \o d)[j + 4] = d[j]
  BY <1>0, <1>1, <1>2
<1>7. \A j \in 1 .. k : (h \o d)[j + 4] = f[j - 1]
  BY <1>2, <1>6
<1> QED
  BY <1>3, <1>4, <1>5, <1>7 DEF IsReceived

\* The parser's own view of them.
LEMMA ReceivedNow ==
    ASSUME NEW k \in Nat
    PROVE  /\ Received(k) = ReceivedOf(CMD, RDataLen, FrameRData, k)
           /\ Received(k)' = ReceivedOf(CMD', RDataLen', FrameRData', k)
<1>1. (k - 1) - 0 + 1 = k /\ \A j \in 1 .. k : 0 + j - 1 = j - 1
  OBVIOUS
<1>2. Data(0, k - 1) = Stored(FrameRData, k)
  BY <1>1 DEF Data, Stored
<1>3. Data(0, k - 1)' = Stored(FrameRData', k)
  BY <1>1 DEF Data, Stored
<1> QED
  BY <1>2, <1>3 DEF Received, ReceivedOf

\* A data byte stored behind k others: the rest of g is not looked at.
Stores(g, f, k, b) == g[k] = b /\ \A j \in 0 .. k - 1 : g[j] = f[j]

LEMMA StoreNext ==
    ASSUME NEW f \in [0 .. MaxData - 1 -> Byte], NEW k \in 0 .. MaxData - 1,
           NEW c \in Byte, NEW n \in Byte, NEW b \in Byte,
           NEW g \in [0 .. MaxData - 1 -> Byte], NEW q \in 0 .. MaxData
    PROVE  q = k + 1 /\ Stores(g, f, k, b) =>
               /\ CoveredOf(c, n, g, q) = Append(CoveredOf(c, n, f, k), b)
               /\ ReceivedOf(c, n, g, q) = Append(ReceivedOf(c, n, f, k), b)
<1>k. k \in Nat /\ k \in 0 .. MaxData
  BY CommAssumption
<1>q. q \in Nat /\ q \in 0 .. MaxData
  BY CommAssumption
<1>1. IsCovered(CoveredOf(c, n, g, q), c, n, g, q)
  BY <1>q, CoveredIs
<1>2. IsReceived(ReceivedOf(c, n, g, q), c, n, g, q)
  BY <1>q, ReceivedIs
<1>5. IsCovered(CoveredOf(c, n, f, k), c, n, f, k)
  BY <1>k, CoveredIs
<1>6. IsReceived(ReceivedOf(c, n, f, k), c, n, f, k)
  BY <1>k, ReceivedIs
<1> SUFFICES ASSUME q = k + 1, g[k] = b, \A j \in 0 .. k - 1 : g[j] = f[j]
             PROVE  /\ CoveredOf(c, n, g, q) = Append(CoveredOf(c, n, f, k), b)
                    /\ ReceivedOf(c, n, g, q) = Append(ReceivedOf(c, n, f, k), b)
  BY DEF Stores
<1>3. CoveredOf(c, n, g, q) = Append(CoveredOf(c, n, f, k), b)
  <2> DEFINE s == CoveredOf(c, n, g, q)
             t == CoveredOf(c, n, f, k)
  <2>1. IsCovered(s, c, n, g, q)
    BY <1>1
  <2>2. IsCovered(t, c, n, f, k)
    BY <1>5
  <2> HIDE DEF s, t
  <2>3. /\ Append(t, b) \in Seq(Byte) /\ Len(Append(t, b)) = q + 2 /\ Append(t, b)[q + 2] = b
        /\ \A j \in 1 .. k + 2 : Append(t, b)[j] = t[j]
    BY <1>k, <1>q, <2>2 DEF IsCovered
  <2>4. ASSUME NEW j \in 1 .. q + 2 PROVE s[j] = Append(t, b)[j]
    <3>1. CASE j \in 1 .. 2
      BY <1>k, <3>1, <2>1, <2>2, <2>3 DEF IsCovered
    <3>2. CASE j - 2 \in 1 .. k
      <4> DEFINE e == j - 2
      <4>1. e \in 1 .. k /\ e \in 1 .. q /\ j = e + 2 /\ j \in 1 .. k + 2 /\ e - 1 \in 0 .. k - 1
        BY <1>k, <1>q, <3>2
      <4> HIDE DEF e
      <4>2. s[e + 2] = g[e - 1] /\ t[e + 2] = f[e - 1]
        BY <2>1, <2>2, <4>1 DEF IsCovered
      <4> QED
        BY <4>1, <4>2, <2>3
    <3>3. CASE j - 2 = q
      <4>1. q \in 1 .. q /\ j = q + 2 /\ q - 1 = k
        BY <1>k, <1>q, <3>3
      <4>2. s[q + 2] = g[q - 1]
        BY <2>1, <4>1 DEF IsCovered
      <4> QED
        BY <4>1, <4>2, <2>3
    <3>4. j \in 1 .. 2 \/ j - 2 \in 1 .. k \/ j - 2 = q
      BY <1>k, <1>q
    <3> QED
      BY <3>1, <3>2, <3>3, <3>4
  <2>5. s = Append(t, b)
    BY <2>1, <2>3, <2>4, SeqEqual DEF IsCovered
  <2> QED
    BY <2>5 DEF s, t
<1>4. ReceivedOf(c, n, g, q) = Append(ReceivedOf(c, n, f, k), b)
  <2> DEFINE s == ReceivedOf(c, n, g, q)
             t == ReceivedOf(c, n, f, k)
  <2>1. IsReceived(s, c, n, g, q)
    BY <1>2
  <2>2. IsReceived(t, c, n, f, k)
    BY <1>6
  <2> HIDE DEF s, t
  <2>3. /\ Append(t, b) \in Seq(Byte) /\ Len(Append(t, b)) = q + 4 /\ Append(t, b)[q + 4] = b
        /\ \A j \in 1 .. k + 4 : Append(t, b)[j] = t[j]
    BY <1>k, <1>q, <2>2 DEF IsReceived
  <2>4. ASSUME NEW j \in 1 .. q + 4 PROVE s[j] = Append(t, b)[j]
    <3>1. CASE j \in 1 .. 4
      BY <1>k, <3>1, <2>1, <2>2, <2>3 DEF IsReceived
    <3>2. CASE j - 4 \in 1 .. k
      <4> DEFINE e == j - 4
      <4>1. e \in 1 .. k /\ e \in 1 .. q /\ j = e + 4 /\ j \in 1 .. k + 4 /\ e - 1 \in 0 .. k - 1
        BY <1>k, <1>q, <3>2
      <4> HIDE DEF e
      <4>2. s[e + 4] = g[e - 1] /\ t[e + 4] = f[e - 1]
        BY <2>1, <2>2, <4>1 DEF IsReceived
      <4> QED
        BY <4>1, <4>2, <2>3
    <3>3. CASE j - 4 = q
      <4>1. q \in 1 .. q /\ j = q + 4 /\ q - 1 = k
        BY <1>k, <1>q, <3>3
      <4>2. s[q + 4] = g[q - 1]
        BY <2>1, <4>1 DEF IsReceived
      <4> QED
        BY <4>1, <4>2, <2>3
    <3>4. j \in 1 .. 4 \/ j - 4 \in 1 .. k \/ j - 4 = q
      BY <1>k, <1>q
    <3> QED
      BY <3>1, <3>2, <3>3, <3>4
  <2>5. s = Append(t, b)
    BY <2>1, <2>3, <2>4, SeqEqual DEF IsReceived
  <2> QED
    BY <2>5 DEF s, t
<1> QED
  BY <1>3, <1>4

\* The check the grammar asks of a frame that begins with these bytes.
LEMMA GrammarCheck ==
    ASSUME NEW f \in [0 .. MaxData - 1 -> Byte], NEW c \in Byte, NEW n \in Byte,
           n < MaxData, NEW l \in Seq(Byte), Len(l) >= n + 4,
           \A j \in 1 .. n + 4 : l[j] = ReceivedOf(c, n, f, n)[j]
    PROVE  Grammar!CheckOf(l) = XorAll(CoveredOf(c, n, f, n))
<1> DEFINE s == SubSeq(l, 3, 4 + n)
           t == CoveredOf(c, n, f, n)
           r == ReceivedOf(c, n, f, n)
<1>0. n \in Nat /\ MaxData \in Nat /\ n \in 0 .. MaxData /\ Len(l) \in Nat
  <2>1. n \in Nat
    BY XorAssumption
  <2>2. MaxData \in Nat
    BY CommAssumption
  <2>3. Len(l) \in Nat
    OBVIOUS
  <2> QED
    BY <2>1, <2>2, <2>3
<1>1. IsCovered(t, c, n, f, n)
  BY <1>0, CoveredIs
<1>2. IsReceived(r, c, n, f, n)
  BY <1>0, ReceivedIs
<1>3. /\ s \in Seq(Byte) /\ Len(s) = n + 2
      /\ \A j \in 1 .. n + 2 : s[j] = l[j + 2]
  BY <1>0
<1> HIDE DEF s, t
<1>4. ASSUME NEW j \in 1 .. n + 2 PROVE s[j] = t[j]
  <2>1. j + 2 \in 1 .. n + 4 /\ s[j] = r[j + 2]
    BY <1>0, <1>3
  <2> HIDE DEF r
  <2>2. CASE j \in {1, 2}
    BY <1>1, <1>2, <2>1, <2>2 DEF IsCovered, IsReceived
  <2>3. CASE j \in 3 .. n + 2
    <3> DEFINE e == j - 2
    <3>1. e \in 1 .. n /\ j = e + 2 /\ j + 2 = e + 4
      BY <1>0, <2>3
    <3> HIDE DEF e
    <3>2. t[e + 2] = f[e - 1] /\ r[e + 4] = f[e - 1]
      BY <1>1, <1>2, <3>1 DEF IsCovered, IsReceived
    <3> QED
      BY <2>1, <3>1, <3>2
  <2> QED
    BY <1>0, <2>2, <2>3
<1>5. s = t
  BY <1>0, <1>1, <1>3, <1>4, SeqEqual DEF IsCovered
<1>6. l[4] = n
  BY <1>0, <1>2 DEF IsReceived
<1> QED
  BY <1>5, <1>6 DEF Grammar!CheckOf, Grammar!XorAll, Grammar!RunningXor, XorAll, RunningXor, s, t

\* The check of a command and a length.
LEMMA XorTwo ==
    ASSUME NEW a \in Byte, NEW b \in Byte
    PROVE  XorAll(<< a, b >>) = XorByte(XorByte(0, a), b)
<1>1. XorAll(<< a >>) = XorByte(0, a)
  <2>1. << >> \in Seq(Byte) /\ << a >> = Append(<< >>, a)
    OBVIOUS
  <2> QED
    BY <2>1, XorEmpty, XorAppend
<1>2. << a >> \in Seq(Byte) /\ << a, b >> = Append(<< a >>, b)
  OBVIOUS
<1> QED
  BY <1>1, <1>2, XorAppend

\* No data byte yet.
LEMMA StoredNone ==
    ASSUME NEW f, NEW c, NEW n
    PROVE  /\ CoveredOf(c, n, f, 0) = << c, n >>
           /\ ReceivedOf(c, n, f, 0) = << HEAD1, HEAD2, c, n >>
<1>1. Stored(f, 0) = << >>
  BY DEF Stored
<1>2. << c, n >> \o << >> = << c, n >>
  OBVIOUS
<1>3. << HEAD1, HEAD2, c, n >> \o << >> = << HEAD1, HEAD2, c, n >>
  OBVIOUS
<1> QED
  BY <1>1, <1>2, <1>3 DEF CoveredOf, ReceivedOf

\* Whichever handler runs, it is the one of the frame's command.
LEMMA HandleCmd ==
    ASSUME Handle
    PROVE  call'.cmd = CMD
  BY DEF Handle, prvDisReport, prvTempReport, prvTimeGet, prvTimeCalibration,
         prvLift, prvMotor, Sendarray, NoCall

\* Case 4 stores its byte behind those the parser holds.
LEMMA StoreData ==
    ASSUME FrameRData \in [0 .. MaxData - 1 -> Byte], i \in 0 .. MaxData - 1,
           CMD \in Byte, RDataLen \in Byte, NEW b \in Byte,
           FrameRData' \in [0 .. MaxData - 1 -> Byte], FrameRData'[i] = b,
           \A j \in 0 .. i - 1 : FrameRData'[j] = FrameRData[j]
    PROVE  /\ CoveredOf(CMD, RDataLen, FrameRData', i + 1)
                   = Append(CoveredOf(CMD, RDataLen, FrameRData, i), b)
           /\ ReceivedOf(CMD, RDataLen, FrameRData', i + 1)
                   = Append(ReceivedOf(CMD, RDataLen, FrameRData, i), b)
<1>1. Stores(FrameRData', FrameRData, i, b)
  BY DEF Stores
<1>2. i + 1 \in 0 .. MaxData
  BY CommAssumption
<1>3. ASSUME NEW q \in 0 .. MaxData, q = i + 1
      PROVE  /\ CoveredOf(CMD, RDataLen, FrameRData', q)
                     = Append(CoveredOf(CMD, RDataLen, FrameRData, i), b)
             /\ ReceivedOf(CMD, RDataLen, FrameRData', q)
                     = Append(ReceivedOf(CMD, RDataLen, FrameRData, i), b)
  <2>1. CoveredOf(CMD, RDataLen, FrameRData', q)
            = Append(CoveredOf(CMD, RDataLen, FrameRData, i), b)
    BY <1>1, <1>3, StoreNext
  <2>2. ReceivedOf(CMD, RDataLen, FrameRData', q)
            = Append(ReceivedOf(CMD, RDataLen, FrameRData, i), b)
    BY <1>1, <1>3, StoreNext
  <2> QED
    BY <2>1, <2>2
<1> QED
  BY <1>2, <1>3

LEMMA InitCovers == Init => IInv
<1> USE CommAssumption, XorAssumption
<1>1. Init => TypeOK
  BY DEF Init, TypeOK, NoCall
<1>2. Init => CheckCovers
  BY DEF Init, CheckCovers, NoCall
<1> QED
  BY <1>1, <1>2 DEF IInv

LEMMA RejectCovers ==
    ASSUME IInv, Go(0), UNCHANGED << i, frame >>
    PROVE  CheckCovers'
  BY DEF Go, frame, IInv, CheckCovers, NoCall

\* CHECK takes in each byte from the command on as it is received.
LEMMA ByteCovers ==
    ASSUME IInv, NEW data \in Byte, TakeByte(data)
    PROVE  CheckCovers'
<1> USE CommAssumption, XorAssumption
<1>0. TypeOK /\ CheckCovers
  BY DEF IInv
<1>1. Go(0) /\ UNCHANGED << i, frame >> => CheckCovers'
  BY RejectCovers
<1>2. CASE ExpectHead1(data)
  BY <1>0, <1>1, <1>2 DEF ExpectHead1, Reject, Go, frame, CheckCovers, NoCall
<1>3. CASE ExpectHead2(data)
  BY <1>0, <1>1, <1>3 DEF ExpectHead2, Reject, Go, CheckCovers, NoCall
<1>4. CASE ExpectCommand(data)
  BY <1>0, <1>1, <1>4 DEF ExpectCommand, Reject, Go, CheckCovers, NoCall
<1>5. CASE ExpectLength(data)
  <2> SUFFICES ASSUME State = 3, data < MaxData,
                      RDataLen' = data, CHECK' = XorByte(CHECK, data),
                      Go(IF data = 0 THEN 5 ELSE 4), UNCHANGED << i, CMD, FrameRData >>
               PROVE  CheckCovers'
    BY <1>1, <1>5 DEF ExpectLength, Reject
  <2>1. CMD \in Commands /\ CMD \in Byte /\ CHECK = XorByte(0, CMD) /\ i = 0
    BY <1>0 DEF CheckCovers, TypeOK
  <2>2. CHECK' = XorAll(<< CMD, data >>)
    BY <2>1, XorTwo
  <2>3. CHECK' = XorAll(CoveredOf(CMD', RDataLen', FrameRData', 0))
    BY <2>2, StoredNone
  <2>4. (State' = 4 /\ i' = 0) \/ (State' = 5 /\ RDataLen' = 0)
    BY <2>1 DEF Go
  <2>5. State' = 4 => CHECK' = XorAll(Covered(i)')
    BY <2>3, <2>4 DEF Covered
  <2>6. State' = 5 => CHECK' = XorAll(Covered(RDataLen)')
    BY <2>3, <2>4 DEF Covered
  <2>7. call'.cmd = 0
    BY DEF Go, NoCall
  <2> QED
    BY <2>1, <2>4, <2>5, <2>6, <2>7 DEF CheckCovers
<1>6. CASE ExpectData(data)
  <2>1. /\ State = 4 /\ FrameRData' = [FrameRData EXCEPT ![i] = data]
        /\ CHECK' = XorByte(CHECK, data) /\ UNCHANGED << CMD, RDataLen >>
        /\ (i + 1 = RDataLen /\ State' = 5) \/ (i + 1 # RDataLen /\ i' = i + 1 /\ State' = 4)
        /\ call' = NoCall
    BY <1>6 DEF ExpectData, Go
  <2>2. /\ CMD \in Commands /\ CMD \in Byte /\ RDataLen \in Byte /\ CHECK = XorAll(Covered(i))
        /\ FrameRData \in [0 .. MaxData - 1 -> Byte] /\ i \in 0 .. MaxData - 1
        /\ i < RDataLen /\ RDataLen \in 0 .. MaxData - 1 /\ MaxData \in Nat
    BY <1>0, <2>1 DEF CheckCovers, TypeOK
  <2>3. i \in Nat /\ i + 1 \in 0 .. MaxData /\ i \in 0 .. MaxData
    BY <2>2
  <2>4. /\ FrameRData' \in [0 .. MaxData - 1 -> Byte] /\ FrameRData'[i] = data
        /\ \A j \in 0 .. i - 1 : FrameRData'[j] = FrameRData[j]
    <3>1. FrameRData' \in [0 .. MaxData - 1 -> Byte] /\ FrameRData'[i] = data
      BY <2>1, <2>2
    <3>2. ASSUME NEW j \in 0 .. i - 1 PROVE FrameRData'[j] = FrameRData[j]
      <4>1. j \in 0 .. MaxData - 1 /\ j # i
        BY <2>2, <2>3
      <4> QED
        BY <2>1, <2>2, <4>1
    <3> QED
      BY <3>1, <3>2
  <2>5. CoveredOf(CMD, RDataLen, FrameRData', i + 1) = Append(Covered(i), data)
    BY <2>2, <2>3, <2>4, StoreData DEF Covered
  <2>6. Covered(i) \in Seq(Byte)
    <3>1. IsCovered(CoveredOf(CMD, RDataLen, FrameRData, i), CMD, RDataLen, FrameRData, i)
      BY <2>2, <2>3, CoveredIs
    <3> QED
      BY <3>1 DEF IsCovered, Covered
  <2>7. CHECK' = XorAll(CoveredOf(CMD', RDataLen', FrameRData', i + 1))
    <3>1. XorAll(Append(Covered(i), data)) = XorByte(XorAll(Covered(i)), data)
      BY <2>6, XorAppend
    <3>2. CHECK' = XorAll(Append(Covered(i), data))
      BY <2>1, <2>2, <3>1
    <3> QED
      BY <2>1, <2>5, <3>2
  <2>8. State' = 4 => CHECK' = XorAll(Covered(i)')
    BY <2>1, <2>7 DEF Covered
  <2>9. State' = 5 => CHECK' = XorAll(Covered(RDataLen)')
    BY <2>1, <2>7 DEF Covered
  <2>10. call'.cmd = 0
    BY <2>1 DEF NoCall
  <2> QED
    BY <2>1, <2>2, <2>8, <2>9, <2>10 DEF CheckCovers
<1>7. CASE ExpectCheck(data)
  BY <1>0, <1>1, <1>7 DEF ExpectCheck, Reject, Go, frame, CheckCovers, Covered, NoCall
<1>8. CASE ExpectEnd1(data)
  BY <1>0, <1>1, <1>8 DEF ExpectEnd1, Reject, Go, frame, CheckCovers, Covered, NoCall
<1>9. CASE ExpectEnd2(data)
  <2>1. CASE data = END2
    <3>1. State = 7 /\ UNCHANGED << i, frame >> /\ State' \in {0, 8} /\ call'.cmd = CMD
      BY <1>9, <2>1, HandleCmd DEF ExpectEnd2, Reject, NoCall
    <3> QED
      BY <1>0, <3>1 DEF CheckCovers, Covered, frame
  <2>2. CASE data # END2
    BY <1>1, <1>9, <2>2 DEF ExpectEnd2, Reject
  <2> QED
    BY <2>1, <2>2
<1> QED
  BY <1>2, <1>3, <1>4, <1>5, <1>6, <1>7, <1>8, <1>9 DEF TakeByte

LEMMA Invariance == Spec => []IInv
<1>1. IInv /\ [Next]_vars => IInv'
  <2> SUFFICES ASSUME IInv, [Next]_vars PROVE IInv'
    OBVIOUS
  <2>1. CASE Next
    BY <2>1, ByteType, ByteCovers DEF Next, IInv
  <2>2. CASE UNCHANGED vars
    BY <2>2 DEF vars, frame, IInv, TypeOK, CheckCovers, Covered
  <2> QED
    BY <2>1, <2>2
<1> QED
  BY <1>1, InitCovers, PTL DEF Spec

-----------------------------------------------------------------------------
(* The frames of the grammar.                                              *)

\* l begins with the four bytes of a head, a command and a length.
Headed(l, c, n) ==
    /\ l \in Seq(Byte) /\ Len(l) >= 4
    /\ l[1] = HEAD1 /\ l[2] = HEAD2 /\ l[3] = c /\ l[4] = n

\* What is left to check of such bytes.
LEMMA HeadedBegins ==
    ASSUME NEW c \in Commands, NEW n \in Byte, NEW l, Headed(l, c, n)
    PROVE  /\ Grammar!Begins(l) <=>
                  /\ n < MaxData /\ Len(l) <= n + 7
                  /\ Len(l) >= n + 5 => l[n + 5] = Grammar!CheckOf(l)
                  /\ Len(l) >= n + 6 => l[n + 6] = END1
                  /\ Len(l) >= n + 7 => l[n + 7] = END2
           /\ Grammar!IsFrame(l) <=> Len(l) = n + 7 /\ Grammar!Begins(l)
<1>0. n \in Nat /\ Len(l) \in Nat
  BY XorAssumption DEF Headed
<1>1. Grammar!Begins(l) <=>
          /\ n < MaxData /\ Len(l) <= n + 7
          /\ Len(l) >= n + 5 => l[n + 5] = Grammar!CheckOf(l)
          /\ Len(l) >= n + 6 => l[n + 6] = END1
          /\ Len(l) >= n + 7 => l[n + 7] = END2
  BY <1>0 DEF Headed, Grammar!Begins
<1>2. Grammar!IsFrame(l) <=> Len(l) = n + 7 /\ Grammar!Begins(l)
  BY <1>0 DEF Headed, Grammar!IsFrame
<1> QED
  BY <1>1, <1>2

\* Fewer than four bytes: only the head and the command are checked.
LEMMA ShortBegins ==
    /\ \A b \in Byte : /\ Grammar!Begins(<< b >>) <=> b = HEAD1
                       /\ ~Grammar!IsFrame(<< b >>)
    /\ \A b \in Byte : /\ Grammar!Begins(<< HEAD1, b >>) <=> b = HEAD2
                       /\ ~Grammar!IsFrame(<< HEAD1, b >>)
    /\ \A b \in Byte : /\ Grammar!Begins(<< HEAD1, HEAD2, b >>) <=> b \in Commands
                       /\ ~Grammar!IsFrame(<< HEAD1, HEAD2, b >>)
  BY DEF Grammar!Begins, Grammar!IsFrame

\* l is t behind the k + 4 bytes of r.
Behind(l, r, k, t) ==
    /\ Len(l) = k + 4 + Len(t)
    /\ \A j \in 1 .. k + 4 : l[j] = r[j]
    /\ \A j \in 1 .. Len(t) : l[k + 4 + j] = t[j]

\* The bytes the parser holds, and t behind them.
LEMMA TailIs ==
    ASSUME NEW f \in [0 .. MaxData - 1 -> Byte], NEW c \in Byte, NEW n \in Byte,
           NEW k \in 0 .. MaxData, NEW t \in Seq(Byte)
    PROVE  LET r == ReceivedOf(c, n, f, k)
           IN  Headed(r \o t, c, n) /\ Behind(r \o t, r, k, t)
<1> DEFINE r == ReceivedOf(c, n, f, k)
<1>0. k \in Nat /\ Len(t) \in Nat
  BY CommAssumption
<1>1. IsReceived(r, c, n, f, k)
  BY ReceivedIs
<1> HIDE DEF r
<1>2. r \in Seq(Byte) /\ Len(r) = k + 4
  BY <1>1 DEF IsReceived
<1>3. r \o t \in Seq(Byte) /\ Len(r \o t) = k + 4 + Len(t)
  BY <1>0, <1>2
<1>4. /\ \A j \in 1 .. k + 4 : (r \o t)[j] = r[j]
      /\ \A j \in 1 .. Len(t) : (r \o t)[k + 4 + j] = t[j]
  BY <1>0, <1>2
<1>5. Headed(r \o t, c, n)
  <2>1. 1 \in 1 .. k + 4 /\ 2 \in 1 .. k + 4 /\ 3 \in 1 .. k + 4 /\ 4 \in 1 .. k + 4
    BY <1>0
  <2>2. Len(r \o t) >= 4
    BY <1>0, <1>3
  <2> QED
    BY <1>1, <1>3, <1>4, <2>1, <2>2 DEF Headed, IsReceived
<1>6. Behind(r \o t, r, k, t)
  BY <1>3, <1>4 DEF Behind
<1> QED
  BY <1>5, <1>6 DEF r

\* Behind the data of a whole frame, the check and the end marks are checked.
LEMMA WholeBegins ==
    ASSUME NEW f \in [0 .. MaxData - 1 -> Byte], NEW c \in Commands, NEW n \in Byte,
           n < MaxData, NEW t \in Seq(Byte), Len(t) \in 1 .. 3
    PROVE  LET l == ReceivedOf(c, n, f, n) \o t
           IN  /\ Grammar!Begins(l) <=>
                      /\ t[1] = XorAll(CoveredOf(c, n, f, n))
                      /\ Len(t) >= 2 => t[2] = END1
                      /\ Len(t) >= 3 => t[3] = END2
               /\ Grammar!IsFrame(l) <=> Len(t) = 3 /\ Grammar!Begins(l)
<1> DEFINE r == ReceivedOf(c, n, f, n)
           l == r \o t
<1>0. n \in Nat /\ MaxData \in Nat /\ n \in 0 .. MaxData /\ c \in Byte
  BY CommAssumption, XorAssumption
<1>7. Headed(l, c, n) /\ Behind(l, r, n, t)
  BY <1>0, TailIs
<1>8. Len(t) \in {1, 2, 3}
  OBVIOUS
<1>1. /\ Headed(l, c, n) /\ Len(l) = n + 4 + Len(t)
      /\ \A j \in 1 .. n + 4 : l[j] = r[j]
      /\ \A j \in 1 .. Len(t) : l[n + 4 + j] = t[j]
  <2> HIDE DEF l, r
  <2> QED
    BY <1>7 DEF Behind
<1>2. Grammar!CheckOf(l) = XorAll(CoveredOf(c, n, f, n))
  <2>1. l \in Seq(Byte) /\ Len(l) >= n + 4
    BY <1>0, <1>1 DEF Headed
  <2> HIDE DEF l
  <2> QED
    BY <1>0, <1>1, <2>1, GrammarCheck
<1> HIDE DEF l, r
<1>3. /\ l[n + 5] = t[1]
      /\ Len(t) >= 2 => l[n + 6] = t[2]
      /\ Len(t) >= 3 => l[n + 7] = t[3]
  <2>1. n + 4 + 1 = n + 5 /\ n + 4 + 2 = n + 6 /\ n + 4 + 3 = n + 7
    BY <1>0
  <2>2. 1 \in 1 .. Len(t) /\ (Len(t) >= 2 => 2 \in 1 .. Len(t)) /\ (Len(t) >= 3 => 3 \in 1 .. Len(t))
    <3>1. ASSUME NEW u \in {1, 2, 3}
          PROVE  1 \in 1 .. u /\ (u >= 2 => 2 \in 1 .. u) /\ (u >= 3 => 3 \in 1 .. u)
      OBVIOUS
    <3> QED
      BY <1>8, <3>1
  <2>3. /\ l[n + 4 + 1] = t[1]
        /\ Len(t) >= 2 => l[n + 4 + 2] = t[2]
        /\ Len(t) >= 3 => l[n + 4 + 3] = t[3]
    BY <1>1, <2>2
  <2> QED
    BY <2>1, <2>3
<1>4. /\ Len(l) <= n + 7 /\ Len(l) >= n + 5
      /\ Len(l) >= n + 6 <=> Len(t) >= 2
      /\ Len(l) >= n + 7 <=> Len(t) >= 3
      /\ Len(l) = n + 7 <=> Len(t) = 3
  <2>1. n \in Nat /\ Len(l) = n + 4 + Len(t)
    BY <1>0, <1>1
  <2>2. ASSUME NEW u \in {1, 2, 3}, NEW v, v = n + 4 + u
        PROVE  /\ v <= n + 7 /\ v >= n + 5
               /\ v >= n + 6 <=> u >= 2
               /\ v >= n + 7 <=> u >= 3
               /\ v = n + 7 <=> u = 3
    <3>1. CASE u = 1
      BY <2>1, <2>2, <3>1
    <3>2. CASE u = 2
      BY <2>1, <2>2, <3>2
    <3>3. CASE u = 3
      BY <2>1, <2>2, <3>3
    <3> QED
      BY <3>1, <3>2, <3>3
  <2> QED
    BY <1>8, <2>1, <2>2
<1>5. /\ Grammar!Begins(l) <=>
             /\ n < MaxData /\ Len(l) <= n + 7
             /\ Len(l) >= n + 5 => l[n + 5] = Grammar!CheckOf(l)
             /\ Len(l) >= n + 6 => l[n + 6] = END1
             /\ Len(l) >= n + 7 => l[n + 7] = END2
      /\ Grammar!IsFrame(l) <=> Len(l) = n + 7 /\ Grammar!Begins(l)
  BY <1>1, HeadedBegins
<1> QED
  BY <1>2, <1>3, <1>4, <1>5 DEF l, r

-----------------------------------------------------------------------------
(* The parser implements the grammar.                                      *)

\* What the parser holds, state by state, before and after a step.
LEMMA LineIs ==
    /\ State \in {0, 8} => Line = << >>
    /\ State = 1 => Line = << HEAD1 >>
    /\ State = 2 => Line = << HEAD1, HEAD2 >>
    /\ State = 3 => Line = << HEAD1, HEAD2, CMD >>
    /\ State = 4 => Line = Received(i)
    /\ State = 5 => Line = Received(RDataLen)
    /\ State = 6 => Line = Received(RDataLen) \o << CHECK >>
    /\ State = 7 => Line = Received(RDataLen) \o << CHECK, END1 >>
  BY DEF Line

LEMMA NextLineIs ==
    /\ State' \in {0, 8} => Line' = << >>
    /\ State' = 1 => Line' = << HEAD1 >>
    /\ State' = 2 => Line' = << HEAD1, HEAD2 >>
    /\ State' = 3 => Line' = << HEAD1, HEAD2, CMD' >>
    /\ State' = 4 => Line' = Received(i)'
    /\ State' = 5 => Line' = Received(RDataLen)'
    /\ State' = 6 => Line' = Received(RDataLen)' \o << CHECK' >>
    /\ State' = 7 => Line' = Received(RDataLen)' \o << CHECK', END1 >>
  BY DEF Line

\* A byte that only moves the parser on delivers nothing.
LEMMA GoDelivers ==
    ASSUME NEW s, Go(s)
    PROVE  Delivered' = << >>
  BY DEF Go, NoCall, Delivered

LEMMA Rejects ==
    ASSUME NEW b \in Byte, Go(0), ~Grammar!Begins(Append(Line, b))
    PROVE  Grammar!Forget(b)
<1>1. Line' = << >>
  BY NextLineIs DEF Go
<1> QED
  BY <1>1, GoDelivers DEF Grammar!Forget

LEMMA Follows ==
    ASSUME NEW b \in Byte, NEW s, Go(s), Grammar!Begins(Append(Line, b)),
           ~Grammar!IsFrame(Append(Line, b)), Line' = Append(Line, b)
    PROVE  Grammar!Follow(b)
  BY GoDelivers DEF Grammar!Follow

\* The frame in hand: what the parser knows of it past the length.
LEMMA InHand ==
    ASSUME IInv, State \in 4 .. 7
    PROVE  /\ FrameRData \in [0 .. MaxData - 1 -> Byte] /\ CMD \in Commands /\ CMD \in Byte
           /\ RDataLen \in Byte /\ RDataLen \in 0 .. MaxData - 1
           /\ RDataLen \in Nat /\ MaxData \in Nat /\ RDataLen < MaxData /\ RDataLen \in 0 .. MaxData
           /\ CHECK \in Byte /\ END1 \in Byte /\ END2 \in Byte
           /\ Received(RDataLen) = ReceivedOf(CMD, RDataLen, FrameRData, RDataLen)
<1>1. RDataLen \in Nat /\ MaxData \in Nat
  BY CommAssumption DEF IInv, TypeOK
<1>2. Received(RDataLen) = ReceivedOf(CMD, RDataLen, FrameRData, RDataLen)
  <2>1. ASSUME NEW k \in Nat, k = RDataLen
        PROVE  Received(k) = ReceivedOf(CMD, RDataLen, FrameRData, k)
    BY ReceivedNow
  <2> QED
    BY <1>1, <2>1
<1> QED
  BY <1>1, <1>2, CommAssumption DEF IInv, TypeOK, CheckCovers

\* The bytes held when the parser waits for the check or an end mark, and one more.
LEMMA TailStep ==
    ASSUME IInv, State \in 5 .. 7, NEW b \in Byte
    PROVE  LET r == Received(RDataLen)
           IN  /\ State = 5 => /\ Append(Line, b) = r \o << b >>
                               /\ Grammar!Begins(Append(Line, b)) <=> b = CHECK
                               /\ ~Grammar!IsFrame(Append(Line, b))
               /\ State = 6 => /\ Append(Line, b) = r \o << CHECK, b >>
                               /\ Grammar!Begins(Append(Line, b)) <=> b = END1
                               /\ ~Grammar!IsFrame(Append(Line, b))
               /\ State = 7 => /\ Append(Line, b) = r \o << CHECK, END1, b >>
                               /\ Grammar!Begins(Append(Line, b)) <=> b = END2
                               /\ Grammar!IsFrame(Append(Line, b)) <=> b = END2
<1> DEFINE r == ReceivedOf(CMD, RDataLen, FrameRData, RDataLen)
<1>1. /\ FrameRData \in [0 .. MaxData - 1 -> Byte] /\ CMD \in Commands /\ CMD \in Byte
      /\ RDataLen \in Byte /\ RDataLen < MaxData /\ RDataLen \in 0 .. MaxData
      /\ CHECK \in Byte /\ END1 \in Byte /\ END2 \in Byte
      /\ Received(RDataLen) = r
  BY InHand
<1>2. CHECK = XorAll(CoveredOf(CMD, RDataLen, FrameRData, RDataLen))
  BY DEF IInv, CheckCovers, Covered
<1>3. r \in Seq(Byte)
  <2>1. IsReceived(r, CMD, RDataLen, FrameRData, RDataLen)
    BY <1>1, ReceivedIs
  <2> QED
    BY <2>1 DEF IsReceived
<1>4. ASSUME NEW t \in Seq(Byte), Len(t) \in 1 .. 3
      PROVE  /\ Grammar!Begins(r \o t) <=>
                    /\ t[1] = CHECK
                    /\ Len(t) >= 2 => t[2] = END1
                    /\ Len(t) >= 3 => t[3] = END2
             /\ Grammar!IsFrame(r \o t) <=> Len(t) = 3 /\ Grammar!Begins(r \o t)
  BY <1>1, <1>2, <1>4, WholeBegins
<1> HIDE DEF r
<1>5. CASE State = 5
  <2>1. Append(Line, b) = r \o << b >>
    BY <1>1, <1>3, <1>5, LineIs
  <2>2. << b >> \in Seq(Byte) /\ Len(<< b >>) = 1 /\ << b >>[1] = b
    OBVIOUS
  <2>3. /\ Grammar!Begins(r \o << b >>) <=> b = CHECK
        /\ ~Grammar!IsFrame(r \o << b >>)
    BY <1>4, <2>2
  <2> QED
    BY <1>1, <1>5, <2>1, <2>3
<1>6. CASE State = 6
  <2>1. Append(Line, b) = r \o << CHECK, b >>
    BY <1>1, <1>3, <1>6, LineIs
  <2>2. /\ << CHECK, b >> \in Seq(Byte) /\ Len(<< CHECK, b >>) = 2
        /\ << CHECK, b >>[1] = CHECK /\ << CHECK, b >>[2] = b
    BY <1>1
  <2>3. /\ Grammar!Begins(r \o << CHECK, b >>) <=> b = END1
        /\ ~Grammar!IsFrame(r \o << CHECK, b >>)
    BY <1>4, <2>2
  <2>4. /\ Append(Line, b) = Received(RDataLen) \o << CHECK, b >>
        /\ Grammar!Begins(Append(Line, b)) <=> b = END1
        /\ ~Grammar!IsFrame(Append(Line, b))
    BY <1>1, <2>1, <2>3, Zenon
  <2>5. State # 5 /\ State # 7
    BY <1>6
  <2> QED
    BY <2>4, <2>5
<1>7. CASE State = 7
  <2>1. Append(Line, b) = r \o << CHECK, END1, b >>
    BY <1>1, <1>3, <1>7, LineIs
  <2>2. /\ << CHECK, END1, b >> \in Seq(Byte) /\ Len(<< CHECK, END1, b >>) = 3
        /\ << CHECK, END1, b >>[1] = CHECK /\ << CHECK, END1, b >>[2] = END1
        /\ << CHECK, END1, b >>[3] = b
    BY <1>1
  <2>3. /\ Grammar!Begins(r \o << CHECK, END1, b >>) <=> b = END2
        /\ Grammar!IsFrame(r \o << CHECK, END1, b >>) <=> b = END2
    <3> DEFINE t == << CHECK, END1, b >>
    <3>1. /\ Grammar!Begins(r \o t) <=>
                 /\ t[1] = CHECK
                 /\ Len(t) >= 2 => t[2] = END1
                 /\ Len(t) >= 3 => t[3] = END2
          /\ Grammar!IsFrame(r \o t) <=> Len(t) = 3 /\ Grammar!Begins(r \o t)
      <4>1. t \in Seq(Byte) /\ Len(t) \in 1 .. 3
        BY <2>2
      <4> HIDE DEF t
      <4> QED
        BY <1>4, <4>1
    <3>2. t[1] = CHECK /\ t[2] = END1 /\ t[3] = b /\ Len(t) = 3 /\ Len(t) >= 2 /\ Len(t) >= 3
      BY <2>2
    <3> HIDE DEF t
    <3>3. Grammar!Begins(r \o t) <=> b = END2
      BY <3>1, <3>2
    <3>4. Grammar!IsFrame(r \o t) <=> b = END2
      BY <3>1, <3>2, <3>3
    <3> QED
      BY <3>3, <3>4 DEF t
  <2>4. /\ Append(Line, b) = Received(RDataLen) \o << CHECK, END1, b >>
        /\ Grammar!Begins(Append(Line, b)) <=> b = END2
        /\ Grammar!IsFrame(Append(Line, b)) <=> b = END2
    BY <1>1, <2>1, <2>3, Zenon
  <2>5. State # 5 /\ State # 6
    BY <1>7
  <2> QED
    BY <2>4, <2>5
<1> QED
  BY <1>5, <1>6, <1>7

LEMMA NextReceived ==
    /\ i' \in Nat => Received(i)' = ReceivedOf(CMD', RDataLen', FrameRData', i')
    /\ RDataLen' \in Nat =>
           Received(RDataLen)' = ReceivedOf(CMD', RDataLen', FrameRData', RDataLen')
<1>1. ASSUME NEW k \in Nat
      PROVE  [j \in 1 .. (k - 1) - 0 + 1 |-> FrameRData'[0 + j - 1]] = Stored(FrameRData', k)
  <2>1. (k - 1) - 0 + 1 = k /\ \A j \in 1 .. k : 0 + j - 1 = j - 1
    OBVIOUS
  <2> QED
    BY <2>1 DEF Stored
<1>2. i' \in Nat => Received(i)' = ReceivedOf(CMD', RDataLen', FrameRData', i')
  BY <1>1 DEF Received, ReceivedOf, Data
<1>3. RDataLen' \in Nat =>
          Received(RDataLen)' = ReceivedOf(CMD', RDataLen', FrameRData', RDataLen')
  BY <1>1 DEF Received, ReceivedOf, Data
<1> QED
  BY <1>2, <1>3

LEMMA AppendTuple ==
    /\ \A a, b \in Byte : << a, b >> = Append(<< a >>, b)
    /\ \A a, b, c \in Byte : << a, b, c >> = Append(<< a, b >>, c)
<1>1. ASSUME NEW a \in Byte, NEW b \in Byte PROVE << a, b >> = Append(<< a >>, b)
  OBVIOUS
<1>2. ASSUME NEW a \in Byte, NEW b \in Byte, NEW c \in Byte
      PROVE  << a, b, c >> = Append(<< a, b >>, c)
  OBVIOUS
<1> QED
  BY <1>1, <1>2

LEMMA HeadReceives ==
    ASSUME NEW b \in Byte, ExpectHead1(b) \/ ExpectHead2(b) \/ ExpectCommand(b)
    PROVE  Grammar!Follow(b) \/ Grammar!Forget(b)
<1>0. HEAD1 \in Byte /\ HEAD2 \in Byte
  BY CommAssumption
<1>1. CASE ExpectHead1(b)
  <2>1. State = 0 /\ Append(Line, b) = << b >>
    BY <1>1, LineIs DEF ExpectHead1
  <2>2. CASE b = HEAD1
    <3>1. Go(1)
      BY <1>1, <2>2 DEF ExpectHead1, Reject
    <3>2. Line' = << b >>
      BY <2>2, <3>1, NextLineIs DEF Go
    <3> QED
      BY <2>1, <2>2, <3>1, <3>2, ShortBegins, Follows
  <2>3. CASE b # HEAD1
    <3>1. Go(0)
      BY <1>1, <2>3 DEF ExpectHead1, Reject
    <3> QED
      BY <2>1, <2>3, <3>1, ShortBegins, Rejects
  <2> QED
    BY <2>2, <2>3
<1>2. CASE ExpectHead2(b)
  <2>1. State = 1 /\ Append(Line, b) = << HEAD1, b >>
    <3>1. State = 1 /\ Line = << HEAD1 >>
      BY <1>2, LineIs DEF ExpectHead2
    <3>2. Append(<< HEAD1 >>, b) = << HEAD1, b >>
      BY <1>0, AppendTuple
    <3> QED
      BY <3>1, <3>2
  <2>2. CASE b = HEAD2
    <3>1. Go(2)
      BY <1>2, <2>2 DEF ExpectHead2, Reject
    <3>2. Line' = << HEAD1, b >>
      BY <2>2, <3>1, NextLineIs DEF Go
    <3> QED
      BY <2>1, <2>2, <3>1, <3>2, ShortBegins, Follows
  <2>3. CASE b # HEAD2
    <3>1. Go(0)
      BY <1>2, <2>3 DEF ExpectHead2, Reject
    <3> QED
      BY <2>1, <2>3, <3>1, ShortBegins, Rejects
  <2> QED
    BY <2>2, <2>3
<1>3. CASE ExpectCommand(b)
  <2>1. State = 2 /\ Append(Line, b) = << HEAD1, HEAD2, b >>
    <3>1. State = 2 /\ Line = << HEAD1, HEAD2 >>
      BY <1>3, LineIs DEF ExpectCommand
    <3>2. Append(<< HEAD1, HEAD2 >>, b) = << HEAD1, HEAD2, b >>
      BY <1>0, AppendTuple
    <3> QED
      BY <3>1, <3>2
  <2>2. CASE b \in Commands
    <3>1. Go(3) /\ CMD' = b
      BY <1>3, <2>2 DEF ExpectCommand, Reject
    <3>2. Line' = << HEAD1, HEAD2, b >>
      BY <3>1, NextLineIs DEF Go
    <3> QED
      BY <2>1, <2>2, <3>1, <3>2, ShortBegins, Follows
  <2>3. CASE b \notin Commands
    <3>1. Go(0)
      BY <1>3, <2>3 DEF ExpectCommand, Reject
    <3> QED
      BY <2>1, <2>3, <3>1, ShortBegins, Rejects
  <2> QED
    BY <2>2, <2>3
<1> QED
  BY <1>1, <1>2, <1>3

LEMMA LengthReceives ==
    ASSUME IInv, NEW b \in Byte, ExpectLength(b)
    PROVE  Grammar!Follow(b) \/ Grammar!Forget(b)
<1>1. State = 3 /\ CMD \in Commands /\ CMD \in Byte /\ i = 0
  BY CommAssumption DEF ExpectLength, IInv, CheckCovers, TypeOK
<1> DEFINE l == << HEAD1, HEAD2, CMD, b >>
<1>2. Append(Line, b) = l
  <2>1. Line = << HEAD1, HEAD2, CMD >>
    BY <1>1, LineIs
  <2>2. Append(<< HEAD1, HEAD2, CMD >>, b) = l
    <3>1. HEAD1 \in Byte /\ HEAD2 \in Byte /\ CMD \in Byte
      BY <1>1, CommAssumption
    <3>2. << HEAD1, HEAD2, CMD, b >> = Append(<< HEAD1, HEAD2, CMD >>, b)
      BY <3>1
    <3> QED
      BY <3>2
  <2> QED
    BY <2>1, <2>2
<1>3. Headed(l, CMD, b) /\ Len(l) = 4
  BY <1>1, CommAssumption DEF Headed
<1>4. b \in Nat
  BY XorAssumption
<1> HIDE DEF l
<1>5. /\ Grammar!Begins(l) <=>
             /\ b < MaxData /\ Len(l) <= b + 7
             /\ Len(l) >= b + 5 => l[b + 5] = Grammar!CheckOf(l)
             /\ Len(l) >= b + 6 => l[b + 6] = END1
             /\ Len(l) >= b + 7 => l[b + 7] = END2
      /\ Grammar!IsFrame(l) <=> Len(l) = b + 7 /\ Grammar!Begins(l)
  BY <1>1, <1>3, HeadedBegins
<1>6. Len(l) <= b + 7 /\ ~(Len(l) >= b + 5) /\ ~(Len(l) >= b + 6) /\ ~(Len(l) >= b + 7) /\ Len(l) # b + 7
  BY <1>3, <1>4
<1>7. CASE b < MaxData
  <2>1. Go(IF b = 0 THEN 5 ELSE 4) /\ UNCHANGED << i, CMD, FrameRData >> /\ RDataLen' = b
    BY <1>7 DEF ExpectLength, Reject
  <2>2. (State' = 4 /\ i' = 0) \/ (State' = 5 /\ RDataLen' = 0)
    BY <1>1, <2>1 DEF Go
  <2>3. 0 \in Nat
    OBVIOUS
  <2>4. Line' = ReceivedOf(CMD', RDataLen', FrameRData', 0)
    BY <2>2, <2>3, NextLineIs, NextReceived
  <2>5. Line' = l
    BY <2>1, <2>4, StoredNone DEF l
  <2>6. Grammar!Begins(l) /\ ~Grammar!IsFrame(l)
    BY <1>5, <1>6, <1>7
  <2> QED
    BY <1>2, <2>1, <2>5, <2>6, Follows
<1>8. CASE ~(b < MaxData)
  <2>1. Go(0)
    BY <1>8 DEF ExpectLength, Reject
  <2>2. ~Grammar!Begins(l)
    BY <1>5, <1>8
  <2> QED
    BY <1>2, <2>1, <2>2, Rejects
<1> QED
  BY <1>7, <1>8

LEMMA DataReceives ==
    ASSUME IInv, NEW b \in Byte, ExpectData(b)
    PROVE  Grammar!Follow(b)
<1>1. /\ State = 4 /\ FrameRData' = [FrameRData EXCEPT ![i] = b]
      /\ CMD' = CMD /\ RDataLen' = RDataLen
      /\ \/ i + 1 = RDataLen /\ Go(5)
         \/ i' = i + 1 /\ Go(4)
  BY DEF ExpectData
<1>2. /\ FrameRData \in [0 .. MaxData - 1 -> Byte] /\ CMD \in Commands /\ CMD \in Byte
      /\ RDataLen \in Byte /\ RDataLen \in Nat /\ MaxData \in Nat /\ RDataLen < MaxData
  BY <1>1, InHand
<1>3. i \in Nat /\ i < RDataLen /\ i \in 0 .. MaxData - 1 /\ i \in 0 .. MaxData /\ i + 1 \in Nat
  BY <1>1, <1>2 DEF IInv, TypeOK
<1> DEFINE r == ReceivedOf(CMD, RDataLen, FrameRData, i)
           l == Append(r, b)
<1>4. Line = r
  <2>1. ASSUME NEW k \in Nat, k = i PROVE Received(k) = ReceivedOf(CMD, RDataLen, FrameRData, k)
    BY ReceivedNow
  <2> QED
    BY <1>1, <1>3, <2>1, LineIs
<1>5. r \in Seq(Byte) /\ Len(r) = i + 4 /\ Headed(r, CMD, RDataLen)
  <2>1. IsReceived(r, CMD, RDataLen, FrameRData, i)
    BY <1>2, <1>3, ReceivedIs
  <2> HIDE DEF r
  <2> QED
    BY <1>3, <2>1 DEF IsReceived, Headed
<1>6. Headed(l, CMD, RDataLen) /\ Len(l) = i + 5
  <2> HIDE DEF r
  <2>1. Len(l) = i + 5 /\ l \in Seq(Byte) /\ \A j \in 1 .. i + 4 : l[j] = r[j]
    BY <1>3, <1>5
  <2>2. 1 \in 1 .. i + 4 /\ 2 \in 1 .. i + 4 /\ 3 \in 1 .. i + 4 /\ 4 \in 1 .. i + 4 /\ i + 5 >= 4
    BY <1>3
  <2> QED
    BY <1>5, <2>1, <2>2 DEF Headed
<1>7. Grammar!Begins(l) /\ ~Grammar!IsFrame(l)
  <2> HIDE DEF l
  <2>1. /\ Grammar!Begins(l) <=>
               /\ RDataLen < MaxData /\ Len(l) <= RDataLen + 7
               /\ Len(l) >= RDataLen + 5 => l[RDataLen + 5] = Grammar!CheckOf(l)
               /\ Len(l) >= RDataLen + 6 => l[RDataLen + 6] = END1
               /\ Len(l) >= RDataLen + 7 => l[RDataLen + 7] = END2
        /\ Grammar!IsFrame(l) <=> Len(l) = RDataLen + 7 /\ Grammar!Begins(l)
    BY <1>2, <1>6, HeadedBegins
  <2>2. /\ Len(l) <= RDataLen + 7 /\ ~(Len(l) >= RDataLen + 5) /\ ~(Len(l) >= RDataLen + 6)
        /\ ~(Len(l) >= RDataLen + 7) /\ Len(l) # RDataLen + 7
    BY <1>2, <1>3, <1>6
  <2> QED
    BY <1>2, <2>1, <2>2
<1>8. ReceivedOf(CMD, RDataLen, FrameRData', i + 1) = l
  <2>1. FrameRData' \in [0 .. MaxData - 1 -> Byte] /\ FrameRData'[i] = b
    BY <1>1, <1>2, <1>3
  <2>2. ASSUME NEW j \in 0 .. i - 1 PROVE FrameRData'[j] = FrameRData[j]
    <3>1. j \in 0 .. MaxData - 1 /\ j # i
      BY <1>2, <1>3
    <3> QED
      BY <1>1, <1>2, <3>1
  <2> QED
    BY <1>2, <1>3, <2>1, <2>2, StoreData
<1>9. Line' = l
  <2> HIDE DEF l, r
  <2>1. CASE i + 1 = RDataLen /\ Go(5)
    BY <1>1, <1>2, <1>8, <2>1, NextLineIs, NextReceived DEF Go
  <2>2. CASE i' = i + 1 /\ Go(4)
    BY <1>1, <1>3, <1>8, <2>2, NextLineIs, NextReceived DEF Go
  <2> QED
    BY <1>1, <2>1, <2>2
<1> HIDE DEF l, r
<1>10. Append(Line, b) = l
  BY <1>4 DEF l
<1> QED
  BY <1>1, <1>7, <1>9, <1>10, Follows

LEMMA TailReceives ==
    ASSUME IInv, NEW b \in Byte, ExpectCheck(b) \/ ExpectEnd1(b) \/ ExpectEnd2(b)
    PROVE  Grammar!Follow(b) \/ Grammar!Forget(b) \/ Grammar!Deliver(b)
<1> DEFINE r == Received(RDataLen)
<1>0. UNCHANGED << i, frame >> => Received(RDataLen)' = Received(RDataLen)
  BY DEF frame, Received, Data
<1>1. CASE ExpectCheck(b)
  <2>1. /\ State = 5 /\ Append(Line, b) = r \o << b >>
        /\ Grammar!Begins(Append(Line, b)) <=> b = CHECK
        /\ ~Grammar!IsFrame(Append(Line, b))
    BY <1>1, TailStep DEF ExpectCheck
  <2>2. CASE b = CHECK
    <3>1. Go(6) /\ UNCHANGED << i, frame >>
      BY <1>1, <2>2 DEF ExpectCheck, Reject
    <3>2. Line' = Received(RDataLen)' \o << CHECK' >> /\ CHECK' = CHECK
      BY <3>1, NextLineIs DEF Go, frame
    <3>3. Line' = Append(Line, b)
      BY <1>0, <2>1, <2>2, <3>1, <3>2
    <3> QED
      BY <2>1, <2>2, <3>1, <3>3, Follows
  <2>3. CASE b # CHECK
    <3>1. Go(0)
      BY <1>1, <2>3 DEF ExpectCheck, Reject
    <3> QED
      BY <2>1, <2>3, <3>1, Rejects
  <2> QED
    BY <2>2, <2>3
<1>2. CASE ExpectEnd1(b)
  <2>1. /\ State = 6 /\ Append(Line, b) = r \o << CHECK, b >>
        /\ Grammar!Begins(Append(Line, b)) <=> b = END1
        /\ ~Grammar!IsFrame(Append(Line, b))
    BY <1>2, TailStep DEF ExpectEnd1
  <2>2. CASE b = END1
    <3>1. Go(7) /\ UNCHANGED << i, frame >>
      BY <1>2, <2>2 DEF ExpectEnd1, Reject
    <3>2. Line' = Received(RDataLen)' \o << CHECK', END1 >> /\ CHECK' = CHECK
      BY <3>1, NextLineIs DEF Go, frame
    <3>3. Line' = Append(Line, b)
      BY <1>0, <2>1, <2>2, <3>1, <3>2
    <3> QED
      BY <2>1, <2>2, <3>1, <3>3, Follows
  <2>3. CASE b # END1
    <3>1. Go(0)
      BY <1>2, <2>3 DEF ExpectEnd1, Reject
    <3> QED
      BY <2>1, <2>3, <3>1, Rejects
  <2> QED
    BY <2>2, <2>3
<1>3. CASE ExpectEnd2(b)
  <2>1. /\ State = 7 /\ Append(Line, b) = r \o << CHECK, END1, b >>
        /\ Grammar!Begins(Append(Line, b)) <=> b = END2
        /\ Grammar!IsFrame(Append(Line, b)) <=> b = END2
    BY <1>3, TailStep DEF ExpectEnd2
  <2>2. CASE b = END2
    <3>1. /\ UNCHANGED << i, frame >> /\ State' \in {0, 8}
          /\ Handle \/ call' = [NoCall EXCEPT !.cmd = CMD]
      BY <1>3, <2>2 DEF ExpectEnd2, Reject
    <3>2. call'.cmd # 0
      <4>1. CMD # 0
        BY <2>1, InHand, CommAssumption
      <4> QED
        BY <3>1, <4>1, HandleCmd DEF NoCall
    <3>3. Line' = << >>
      BY <3>1, NextLineIs
    <3>4. Delivered' = Received(RDataLen)' \o << CHECK', END1, END2 >>
      BY <3>2 DEF Delivered
    <3>5. Delivered' = Append(Line, b)
      BY <1>0, <2>1, <2>2, <3>1, <3>4 DEF frame
    <3> QED
      BY <2>1, <2>2, <3>3, <3>5 DEF Grammar!Deliver
  <2>3. CASE b # END2
    <3>1. Go(0)
      BY <1>3, <2>3 DEF ExpectEnd2, Reject
    <3> QED
      BY <2>1, <2>3, <3>1, Rejects
  <2> QED
    BY <2>2, <2>3
<1> QED
  BY <1>1, <1>2, <1>3

\* vTaskComm handles exactly the well-formed frames of the line, whatever else
\* comes in: nothing but a frame reaches a handler, and none is missed.
THEOREM CommImplementsGrammar == Spec => ImplementsGrammar
<1>1. Init => Grammar!LineInit
  <2> SUFFICES ASSUME Init PROVE Grammar!LineInit
    OBVIOUS
  <2>1. State = 0 /\ call.cmd = 0
    BY DEF Init, NoCall
  <2> QED
    BY <2>1, LineIs DEF Grammar!LineInit, Delivered
<1>2. IInv /\ [Next]_vars => [Grammar!Receive]_<< Line, Delivered >>
  <2> SUFFICES ASSUME IInv, [Next]_vars PROVE [Grammar!Receive]_<< Line, Delivered >>
    OBVIOUS
  <2>1. CASE Next
    <3>1. PICK b \in Byte : TakeByte(b)
      BY <2>1 DEF Next
    <3>2. Grammar!Follow(b) \/ Grammar!Forget(b) \/ Grammar!Deliver(b)
      BY <3>1, HeadReceives, LengthReceives, DataReceives, TailReceives DEF TakeByte
    <3> QED
      BY <3>2 DEF Grammar!Receive
  <2>2. CASE UNCHANGED vars
    <3>1. Line' = Line
      BY <2>2 DEF vars, frame, Line, Received, Data
    <3>2. Delivered' = Delivered
      BY <2>2 DEF vars, frame, Delivered, Received, Data
    <3> QED
      BY <3>1, <3>2
  <2> QED
    BY <2>1, <2>2
<1> QED
  BY <1>1, <1>2, Invariance, PTL DEF Spec, ImplementsGrammar, Grammar!LineSpec

-----------------------------------------------------------------------------
(* The replies are frames of the same grammar that tell what they report.  *)

\* What a handler sends is a frame that tells what it reports.
Told(s, d) ==
    /\ Reply!IsFrame(s)
    /\ Len(d) = s[4]
    /\ \A k \in 1 .. Len(d) : d[k] = s[k + 4]

\* Whatever the length, the bytes sent lie within u8SendBuf.
LEMMA BufferBounds ==
    \A m \in 0 .. 9 : m + 7 \in Nat /\ \A k \in 1 .. m + 7 : k - 1 \in 0 .. 19
OBVIOUS

\* n bytes of u8SendBuf that are a frame, its check taken from the bytes before it,
\* with the values d behind the length.
LEMMA BufferIsFrame ==
    ASSUME CMD \in Commands, NEW d, NEW n \in 0 .. 9, Len(d) = n,
           NEW buf \in [0 .. 19 -> Byte],
           buf[0] = HEAD1, buf[1] = HEAD2, buf[2] = CMD, buf[3] = n,
           \A k \in 1 .. n : d[k] = buf[k + 3],
           buf[n + 4] = XorAll([k \in 1 .. n + 2 |-> buf[k + 1]]),
           buf[n + 5] = END1, buf[n + 6] = END2
    PROVE  Told([k \in 1 .. n + 7 |-> buf[k - 1]], d)
<1> DEFINE s == [k \in 1 .. n + 7 |-> buf[k - 1]]
<1>0. n + 7 \in Nat /\ \A k \in 1 .. n + 7 : k - 1 \in 0 .. 19
  BY BufferBounds, Zenon
<1>1. s \in Seq(Byte) /\ Len(s) = n + 7
  <2>1. s \in [1 .. n + 7 -> Byte]
    BY <1>0
  <2> HIDE DEF s
  <2> QED
    BY <1>0, <2>1
<1>2. \A k \in 1 .. n + 7 : s[k] = buf[k - 1]
  OBVIOUS
<1>3. /\ s[1] = HEAD1 /\ s[2] = HEAD2 /\ s[3] = CMD /\ s[4] = n
      /\ s[n + 5] = buf[n + 4] /\ s[n + 6] = END1 /\ s[n + 7] = END2
  BY <1>2
<1> HIDE DEF s
<1>4. Reply!CheckOf(s) = s[n + 5]
  <2>1. SubSeq(s, 3, 4 + s[4]) = [k \in 1 .. n + 2 |-> s[k + 2]]
    BY <1>1, <1>3
  <2>2. \A k \in 1 .. n + 2 : s[k + 2] = buf[k + 1]
    BY <1>2
  <2>3. SubSeq(s, 3, 4 + s[4]) = [k \in 1 .. n + 2 |-> buf[k + 1]]
    BY <2>1, <2>2
  <2>4. Reply!CheckOf(s) = XorAll(SubSeq(s, 3, 4 + s[4]))
    BY DEF Reply!CheckOf, Reply!XorAll, Reply!RunningXor, XorAll, RunningXor
  <2> QED
    BY <1>3, <2>3, <2>4
<1>5. Reply!Begins(s)
  BY <1>1, <1>3, <1>4 DEF Reply!Begins
<1>6. Reply!IsFrame(s)
  BY <1>1, <1>3, <1>5 DEF Reply!IsFrame
<1>7. \A k \in 1 .. n : d[k] = s[k + 4]
  <2>1. \A k \in 1 .. n : s[k + 4] = buf[k + 3]
    BY <1>2
  <2> QED
    BY <2>1
<1> QED
  BY <1>3, <1>6, <1>7 DEF s, Told

\* The buffer before the handlers fill it, and the check byte behind n values.
LEMMA BufferHead ==
    ASSUME CMD \in Commands
    PROVE  /\ SendBuf \in [0 .. 19 -> Byte]
           /\ SendBuf[0] = HEAD1 /\ SendBuf[1] = HEAD2 /\ SendBuf[2] = CMD
           /\ \A k \in 3 .. 19 : SendBuf[k] = 0
BY CommAssumption, XorAssumption DEF SendBuf

\* The loop over the bytes before the check byte puts their exclusive or there.
LEMMA XorIntoIs ==
    ASSUME NEW buf \in [0 .. 19 -> Byte], NEW n \in 0 .. 9, buf[n + 4] = 0
    PROVE  /\ XorInto(buf, n + 4, 2, n + 4) \in [0 .. 19 -> Byte]
           /\ XorInto(buf, n + 4, 2, n + 4)[n + 4] = XorAll([k \in 1 .. n + 2 |-> buf[k + 1]])
           /\ \A k \in (0 .. 19) \ {n + 4} : XorInto(buf, n + 4, 2, n + 4)[k] = buf[k]
<1> DEFINE t == [k \in 1 .. n + 2 |-> buf[k + 1]]
           u == [k \in 1 .. (n + 4) - 2 |-> buf[2 + k - 1]]
<1>1. t = u
  OBVIOUS
<1>2. t \in Seq(Byte)
  OBVIOUS
<1>3. XorAll(t) \in Byte
  <2> HIDE DEF t
  <2> QED
    BY <1>2, XorType
<1>4. XorInto(buf, n + 4, 2, n + 4) = [buf EXCEPT ![n + 4] = XorByte(buf[n + 4], XorAll(u))]
  BY DEF XorInto
<1> HIDE DEF t, u
<1>5. XorByte(buf[n + 4], XorAll(u)) = XorAll(t)
  BY <1>1, <1>3, XorAssumption
<1>6. n + 4 \in 0 .. 19
  OBVIOUS
<1> QED
  BY <1>3, <1>4, <1>5, <1>6 DEF t

\* m bytes of the buffer, with the check byte at c and the ends at e and f.
Filled(buf, c, e, f, m) ==
    [k \in 1 .. m |-> [XorInto(buf, c, 2, c) EXCEPT ![e] = END1, ![f] = END2][k - 1]]

\* A buffer with n values, sent behind its check byte and the ends, tells them.
LEMMA FilledReply ==
    ASSUME CMD \in Commands, NEW d, NEW n \in 0 .. 9, Len(d) = n,
           NEW buf \in [0 .. 19 -> Byte],
           buf[0] = HEAD1, buf[1] = HEAD2, buf[2] = CMD, buf[3] = n, buf[n + 4] = 0,
           \A k \in 1 .. n : d[k] = buf[k + 3],
           NEW c, c = n + 4, NEW e, e = n + 5, NEW f, f = n + 6, NEW m, m = n + 7
    PROVE  Told(Filled(buf, c, e, f, m), d)
<1> DEFINE x == XorInto(buf, n + 4, 2, n + 4)
           out == [x EXCEPT ![n + 5] = END1, ![n + 6] = END2]
<1>1. /\ x \in [0 .. 19 -> Byte]
      /\ x[n + 4] = XorAll([k \in 1 .. n + 2 |-> buf[k + 1]])
      /\ \A k \in (0 .. 19) \ {n + 4} : x[k] = buf[k]
  BY XorIntoIs
<1> HIDE DEF x
<1>0. /\ n + 4 \in 0 .. 19 /\ n + 5 \in 0 .. 19 /\ n + 6 \in 0 .. 19
      /\ n + 4 # n + 5 /\ n + 4 # n + 6 /\ n + 5 # n + 6
      /\ \A k \in 0 .. n + 3 : k \in (0 .. 19) \ {n + 4} /\ k # n + 5 /\ k # n + 6
  OBVIOUS
<1>e. END1 \in Byte /\ END2 \in Byte
  BY CommAssumption
<1>2. /\ out \in [0 .. 19 -> Byte]
      /\ out[n + 5] = END1 /\ out[n + 6] = END2
      /\ out[n + 4] = x[n + 4]
      /\ \A k \in 0 .. n + 3 : out[k] = buf[k]
  BY <1>0, <1>1, <1>e
<1> HIDE DEF out
<1>3. \A k \in 1 .. n + 2 : buf[k + 1] = out[k + 1]
  BY <1>2
<1>4. [k \in 1 .. n + 2 |-> buf[k + 1]] = [k \in 1 .. n + 2 |-> out[k + 1]]
  BY <1>3
<1>5. out[n + 4] = XorAll([k \in 1 .. n + 2 |-> out[k + 1]])
  BY <1>1, <1>2, <1>4
<1>6. out[0] = HEAD1 /\ out[1] = HEAD2 /\ out[2] = CMD /\ out[3] = n
  BY <1>2
<1>7. \A k \in 1 .. n : d[k] = out[k + 3]
  BY <1>2
<1>8. Told([k \in 1 .. n + 7 |-> out[k - 1]], d)
  BY <1>2, <1>5, <1>6, <1>7, BufferIsFrame
<1> QED
  BY <1>8 DEF out, x, Filled

\* A handler's reply is a frame that tells its values.
LEMMA HandleReplies ==
    ASSUME CMD \in Commands, Handle
    PROVE  call'.sent # << >> => Told(call'.sent, call'.told)
<1>0. /\ {HEAD1, HEAD2, END1, END2, CMD, 0, 1, 2, 7} \subseteq Byte
  BY CommAssumption
<1>h. /\ SendBuf \in [0 .. 19 -> Byte]
      /\ SendBuf[0] = HEAD1 /\ SendBuf[1] = HEAD2 /\ SendBuf[2] = CMD
      /\ \A k \in 3 .. 19 : SendBuf[k] = 0
  BY BufferHead
<1>1. CASE prvDisReport
  <2>1. PICK a \in Byte :
            Sendarray([XorInto([SendBuf EXCEPT ![3] = 1, ![4] = a],
                               5, 2, 5) EXCEPT ![6] = END1, ![7] = END2], 8, << a >>)
    BY <1>1 DEF prvDisReport
  <2> DEFINE d == << a >>
             buf == [SendBuf EXCEPT ![3] = 1, ![4] = a]
             n == 1
  <2>2. /\ buf \in [0 .. 19 -> Byte]
        /\ buf[0] = HEAD1 /\ buf[1] = HEAD2 /\ buf[2] = CMD /\ buf[3] = n
        /\ buf[n + 4] = 0
    BY <1>0, <1>h
  <2>3. n \in 0 .. 9 /\ n + 4 = 5 /\ n + 5 = 6 /\ n + 6 = 7 /\ n + 7 = 8
    OBVIOUS
  <2>4. Len(d) = n /\ \A k \in 1 .. n : d[k] = buf[k + 3]
    BY <1>0, <1>h
  <2>5. call'.sent = Filled(buf, 5, 6, 7, 8) /\ call'.told = d
    BY <2>1 DEF Sendarray, Filled, NoCall
  <2> HIDE DEF buf, d, n
  <2>6. Told(Filled(buf, 5, 6, 7, 8), d)
    BY <2>2, <2>3, <2>4, FilledReply
  <2> QED
    BY <2>5, <2>6
<1>2. CASE prvTempReport
  <2>1. PICK a \in Byte, b \in Byte :
            Sendarray([XorInto([SendBuf EXCEPT ![3] = 2, ![4] = a, ![5] = b],
                               6, 2, 6) EXCEPT ![7] = END1, ![8] = END2], 9, << a, b >>)
    BY <1>2 DEF prvTempReport
  <2> DEFINE d == << a, b >>
             buf == [SendBuf EXCEPT ![3] = 2, ![4] = a, ![5] = b]
             n == 2
  <2>2. /\ buf \in [0 .. 19 -> Byte]
        /\ buf[0] = HEAD1 /\ buf[1] = HEAD2 /\ buf[2] = CMD /\ buf[3] = n
        /\ buf[n + 4] = 0
    BY <1>0, <1>h
  <2>3. n \in 0 .. 9 /\ n + 4 = 6 /\ n + 5 = 7 /\ n + 6 = 8 /\ n + 7 = 9
    OBVIOUS
  <2>4. Len(d) = n /\ \A k \in 1 .. n : d[k] = buf[k + 3]
    BY <1>0, <1>h
  <2>5. call'.sent = Filled(buf, 6, 7, 8, 9) /\ call'.told = d
    BY <2>1 DEF Sendarray, Filled, NoCall
  <2> HIDE DEF buf, d, n
  <2>6. Told(Filled(buf, 6, 7, 8, 9), d)
    BY <2>2, <2>3, <2>4, FilledReply
  <2> QED
    BY <2>5, <2>6
<1>3. CASE prvTimeGet
  <2>1. PICK t \in Times :
            Sendarray([XorInto([SendBuf EXCEPT ![3] = 7, ![4] = t[1], ![5] = t[2], ![6] = t[3],
                                        ![7] = t[4], ![8] = t[5], ![9] = t[6], ![10] = t[7]],
                               11, 2, 11) EXCEPT ![12] = END1, ![13] = END2], 14, t)
    BY <1>3 DEF prvTimeGet, TimeBuf
  <2> DEFINE d == t
             buf == [SendBuf EXCEPT ![3] = 7, ![4] = t[1], ![5] = t[2], ![6] = t[3],
                                        ![7] = t[4], ![8] = t[5], ![9] = t[6], ![10] = t[7]]
             n == 7
  <2>t. t \in [1 .. 7 -> Byte]
    BY CommAssumption
  <2>2. /\ buf \in [0 .. 19 -> Byte]
        /\ buf[0] = HEAD1 /\ buf[1] = HEAD2 /\ buf[2] = CMD /\ buf[3] = n
        /\ buf[n + 4] = 0
    BY <1>0, <1>h, <2>t
  <2>3. n \in 0 .. 9 /\ n + 4 = 11 /\ n + 5 = 12 /\ n + 6 = 13 /\ n + 7 = 14
    OBVIOUS
  <2>4. Len(d) = n /\ \A k \in 1 .. n : d[k] = buf[k + 3]
    BY <1>0, <1>h, <2>t
  <2>5. call'.sent = Filled(buf, 11, 12, 13, 14) /\ call'.told = d
    BY <2>1 DEF Sendarray, Filled, NoCall
  <2> HIDE DEF buf, d, n
  <2>6. Told(Filled(buf, 11, 12, 13, 14), d)
    BY <2>2, <2>3, <2>4, FilledReply
  <2> QED
    BY <2>5, <2>6
<1>4. CASE prvTimeCalibration
  <2> DEFINE buf == [SendBuf EXCEPT ![3] = 0, ![4] = SendBuf[2], ![5] = END1, ![6] = END2]
             d == << >>
             n == 0
  <2>1. call'.sent = [k \in 1 .. 7 |-> buf[k - 1]] /\ call'.told = d
    BY <1>4 DEF prvTimeCalibration, NoCall
  <2>2. /\ buf \in [0 .. 19 -> Byte]
        /\ buf[0] = HEAD1 /\ buf[1] = HEAD2 /\ buf[2] = CMD /\ buf[3] = n
        /\ buf[4] = CMD /\ buf[5] = END1 /\ buf[6] = END2
    BY <1>0, <1>h
  <2>3. n \in 0 .. 9 /\ n + 2 = 2 /\ n + 4 = 4 /\ n + 5 = 5 /\ n + 6 = 6 /\ n + 7 = 7
    OBVIOUS
  <2>4. Len(d) = n /\ \A k \in 1 .. n : d[k] = buf[k + 3]
    OBVIOUS
  <2> HIDE DEF buf, d
  <2>5. XorAll([k \in 1 .. 2 |-> buf[k + 1]]) = CMD
    <3> DEFINE r == [k \in 1 .. 2 |-> buf[k + 1]]
    <3>1. r = << CMD, 0 >>
      <4>1. r \in Seq(Byte) /\ Len(r) = 2 /\ r[1] = CMD /\ r[2] = 0
        BY <2>2
      <4>2. << CMD, 0 >> \in Seq(Byte) /\ Len(<< CMD, 0 >>) = 2
        BY <1>0
      <4> HIDE DEF r
      <4>3. \A j \in 1 .. 2 : r[j] = << CMD, 0 >>[j]
        BY <4>1
      <4> QED
        BY <4>1, <4>2, <4>3, SeqEqual
    <3> HIDE DEF r
    <3>2. XorAll(<< CMD, 0 >>) = XorByte(XorByte(0, CMD), 0)
      BY <1>0, XorTwo
    <3>3. XorByte(XorByte(0, CMD), 0) = CMD
      BY <1>0, XorAssumption
    <3> QED
      BY <3>1, <3>2, <3>3 DEF r
  <2> HIDE DEF n
  <2>6. buf[n + 4] = XorAll([k \in 1 .. n + 2 |-> buf[k + 1]])
    BY <2>2, <2>3, <2>5
  <2>7. buf[n + 5] = END1 /\ buf[n + 6] = END2
    BY <2>2, <2>3
  <2>8. Told([k \in 1 .. n + 7 |-> buf[k - 1]], d)
    BY <2>2, <2>3, <2>4, <2>6, <2>7, BufferIsFrame
  <2> QED
    BY <2>1, <2>3, <2>8
<1>5. CASE prvLift \/ prvMotor
  BY <1>5 DEF prvLift, prvMotor, NoCall
<1> QED
  BY <1>1, <1>2, <1>3, <1>4, <1>5 DEF Handle

\* Every reply is itself a frame of the protocol and tells what it should: the
\* indices, loop bounds and lengths that each handler has by hand put the length,
\* the values, the check byte and the ends where a receiver looks for them.
THEOREM CommRepliesAreFrames == Spec => []RepliesAreFrames
<1>0. RepliesAreFrames <=> (call.sent # << >> => Told(call.sent, call.told))
  BY DEF RepliesAreFrames, Told
<1>1. Init => RepliesAreFrames
  BY DEF Init, RepliesAreFrames, NoCall
<1>2. IInv /\ RepliesAreFrames /\ [Next]_vars => RepliesAreFrames'
  <2> SUFFICES ASSUME IInv, RepliesAreFrames, [Next]_vars PROVE RepliesAreFrames'
    OBVIOUS
  <2>1. SUFFICES call'.sent # << >> => Told(call'.sent, call'.told)
    BY DEF RepliesAreFrames, Told, Reply!IsFrame, Reply!Begins, Reply!CheckOf,
           Reply!XorAll, Reply!RunningXor
  <2>2. CASE Next
    <3>1. PICK b \in Byte : TakeByte(b)
      BY <2>2 DEF Next
    <3>2. CASE State = 7 /\ CMD \in Commands /\ Handle
      BY <3>2, HandleReplies
    <3>3. CASE call' = NoCall \/ call' = [NoCall EXCEPT !.cmd = CMD]
      BY <3>3 DEF NoCall
    <3>4. State = 7 => CMD \in Commands
      BY DEF IInv, CheckCovers
    <3>5. call' = NoCall \/ call' = [NoCall EXCEPT !.cmd = CMD] \/ (State = 7 /\ Handle)
      BY <3>1 DEF TakeByte, ExpectHead1, ExpectHead2, ExpectCommand, ExpectLength, ExpectData,
                  ExpectCheck, ExpectEnd1, ExpectEnd2, Reject, Go
    <3> QED
      BY <3>2, <3>3, <3>4, <3>5
  <2>3. CASE UNCHANGED vars
    BY <1>0, <2>3 DEF vars
  <2> QED
    BY <2>2, <2>3
<1> QED
  BY <1>1, <1>2, Invariance, PTL DEF Spec

-----------------------------------------------------------------------------
(* The handlers.                                                           *)

\* A finite set of at most n elements.
AtMost(S, n) == IsFiniteSet(S) /\ Cardinality(S) <= n

\* The two commands whose handlers read the data are different ones.
LEMMA TwoCommands == TimeCalibration # Lift
<1>1. SUFFICES ASSUME TimeCalibration = Lift PROVE FALSE
  OBVIOUS
<1> DEFINE S0 == {Distance}
           S1 == S0 \cup {VERSION}
           S2 == S1 \cup {Temp}
           S3 == S2 \cup {TimeGet}
           S4 == S3 \cup {TimeCalibration}
           S5 == S4 \cup {StepMotor}
<1>2. Commands = S5
  BY <1>1 DEF Commands
<1>3. IsFiniteSet(S0) /\ Cardinality(S0) = 1
  BY FS_Singleton
<1>4. ASSUME NEW S, NEW n \in Nat, AtMost(S, n), NEW x
      PROVE  AtMost(S \cup {x}, n + 1)
  <2>1. IsFiniteSet(S) /\ Cardinality(S) \in Nat
    BY <1>4, FS_CardinalityType DEF AtMost
  <2>2. /\ IsFiniteSet(S \cup {x})
        /\ Cardinality(S \cup {x}) = IF x \in S THEN Cardinality(S) ELSE Cardinality(S) + 1
    BY <2>1, FS_AddElement
  <2> QED
    BY <1>4, <2>1, <2>2 DEF AtMost
<1>5. AtMost(S0, 1)
  BY <1>3 DEF AtMost
<1> HIDE DEF S0, S1, S2, S3, S4, S5
<1>6. AtMost(S1, 2)
  <2>1. 1 \in Nat /\ 1 + 1 = 2
    OBVIOUS
  <2>2. AtMost(S0 \cup {VERSION}, 1 + 1)
    BY <1>4, <1>5, <2>1
  <2> QED
    BY <2>1, <2>2 DEF S1
<1>7. AtMost(S2, 3)
  <2>1. 2 \in Nat /\ 2 + 1 = 3
    OBVIOUS
  <2>2. AtMost(S1 \cup {Temp}, 2 + 1)
    BY <1>4, <1>6, <2>1
  <2> QED
    BY <2>1, <2>2 DEF S2
<1>8. AtMost(S3, 4)
  <2>1. 3 \in Nat /\ 3 + 1 = 4
    OBVIOUS
  <2>2. AtMost(S2 \cup {TimeGet}, 3 + 1)
    BY <1>4, <1>7, <2>1
  <2> QED
    BY <2>1, <2>2 DEF S3
<1>9. AtMost(S4, 5)
  <2>1. 4 \in Nat /\ 4 + 1 = 5
    OBVIOUS
  <2>2. AtMost(S3 \cup {TimeCalibration}, 4 + 1)
    BY <1>4, <1>8, <2>1
  <2> QED
    BY <2>1, <2>2 DEF S4
<1>10. AtMost(S5, 6)
  <2>1. 5 \in Nat /\ 5 + 1 = 6
    OBVIOUS
  <2>2. AtMost(S4 \cup {StepMotor}, 5 + 1)
    BY <1>4, <1>9, <2>1
  <2> QED
    BY <2>1, <2>2 DEF S5
<1> QED
  BY <1>2, <1>10, CommAssumption DEF AtMost

\* A handler given enough data reads only that.
LEMMA HandleUses ==
    ASSUME IInv, Handle
    PROVE  \/ call'.used \subseteq 0 .. RDataLen - 1
           \/ call'.cmd = TimeCalibration /\ RDataLen < TimeLen
           \/ call'.cmd = Lift /\ RDataLen < 1
<1>0. RDataLen \in Nat /\ TimeLen \in Nat /\ LEN \in Nat
  BY CommAssumption DEF IInv, TypeOK
<1>1. CASE prvDisReport \/ prvTempReport \/ prvTimeGet \/ prvMotor
  BY <1>1 DEF prvDisReport, prvTempReport, prvTimeGet, prvMotor, Sendarray, NoCall
<1>2. CASE CMD = TimeCalibration /\ prvTimeCalibration
  <2>1. call'.used = 0 .. TimeLen - 1 /\ call'.cmd = TimeCalibration
    BY <1>2 DEF prvTimeCalibration, NoCall
  <2> QED
    BY <1>0, <2>1
<1>3. CASE CMD = Lift /\ prvLift
  <2>1. call'.used = (IF RDataLen = LEN THEN 0 .. LEN - 1 ELSE {0}) /\ call'.cmd = Lift
    BY <1>3 DEF prvLift, NoCall
  <2> QED
    BY <1>0, <2>1
<1> QED
  BY <1>1, <1>2, <1>3 DEF Handle

LEMMA ByteHandles ==
    ASSUME IInv, StaleOnlyIfShort, OnlyVersionHalts, NEW b \in Byte, TakeByte(b)
    PROVE  StaleOnlyIfShort' /\ (CMD' = VERSION /\ call'.cmd # 0 => State' = 8)
                             /\ (State' = 8 => CMD' = VERSION)
<1>1. CASE call' = NoCall /\ State' \in 0 .. 7
  BY <1>1 DEF StaleOnlyIfShort, NoCall
<1>2. CASE State' = 8 /\ CMD \in Commands /\ ~HasHandler /\ call' = [NoCall EXCEPT !.cmd = CMD] /\ CMD' = CMD
  BY <1>2 DEF StaleOnlyIfShort, NoCall, HasHandler
<1>3. CASE State' = 0 /\ HasHandler /\ Handle /\ CMD' = CMD /\ RDataLen' = RDataLen
  <2>1. StaleOnlyIfShort'
    BY <1>3, HandleUses, TwoCommands DEF StaleOnlyIfShort
  <2> QED
    BY <1>3, <2>1 DEF HasHandler
<1>4. State = 7 => CMD \in Commands
  BY DEF IInv, CheckCovers
<1> QED
  BY <1>1, <1>2, <1>3, <1>4
     DEF TakeByte, ExpectHead1, ExpectHead2, ExpectCommand, ExpectLength, ExpectData,
         ExpectCheck, ExpectEnd1, ExpectEnd2, Reject, Go, frame

\* The frame that was just handled is one of the grammar.
LEMMA HandledIsFrame ==
    ASSUME IInv, State = 8, call.cmd # 0
    PROVE  Grammar!IsFrame(Delivered)
<1> DEFINE t == << CHECK, END1, END2 >>
<1>1. /\ FrameRData \in [0 .. MaxData - 1 -> Byte] /\ CMD \in Commands
      /\ RDataLen \in Byte /\ RDataLen < MaxData /\ RDataLen \in Nat
      /\ CHECK \in Byte /\ END1 \in Byte /\ END2 \in Byte
      /\ CHECK = XorAll(CoveredOf(CMD, RDataLen, FrameRData, RDataLen))
  BY CommAssumption DEF IInv, TypeOK, CheckCovers, Covered
<1>2. Received(RDataLen) = ReceivedOf(CMD, RDataLen, FrameRData, RDataLen)
  <2>1. ASSUME NEW k \in Nat, k = RDataLen
        PROVE  Received(k) = ReceivedOf(CMD, RDataLen, FrameRData, k)
    BY ReceivedNow
  <2> QED
    BY <1>1, <2>1
<1>3. t \in Seq(Byte) /\ Len(t) = 3 /\ t[1] = CHECK /\ t[2] = END1 /\ t[3] = END2
  BY <1>1
<1>4. Delivered = ReceivedOf(CMD, RDataLen, FrameRData, RDataLen) \o t
  BY <1>2 DEF Delivered
<1> HIDE DEF t
<1>5. Len(t) \in 1 .. 3
  BY <1>3
<1>6. /\ Grammar!Begins(Delivered) <=>
             /\ t[1] = XorAll(CoveredOf(CMD, RDataLen, FrameRData, RDataLen))
             /\ Len(t) >= 2 => t[2] = END1
             /\ Len(t) >= 3 => t[3] = END2
      /\ Grammar!IsFrame(Delivered) <=> Len(t) = 3 /\ Grammar!Begins(Delivered)
  BY <1>1, <1>3, <1>4, <1>5, WholeBegins
<1> QED
  BY <1>1, <1>3, <1>6

\* Handlers run as meant: a null entry of pf is called for a whole VERSION frame and
\* for nothing else, and bytes of an earlier frame are used only where the frame at
\* hand is shorter than its command needs.
THEOREM CommHandlersSound == Spec => []HandlersSound
<1> DEFINE J == /\ IInv /\ StaleOnlyIfShort
                /\ State = 8 => CMD = VERSION /\ call.cmd # 0
                /\ CMD = VERSION /\ call.cmd # 0 => State = 8
<1>1. Init => J
  BY InitCovers DEF Init, StaleOnlyIfShort, NoCall
<1>2. J => HandlersSound
  BY HandledIsFrame DEF IInv, HandlersSound, OnlyVersionHalts
<1>3. J /\ [Next]_vars => J'
  <2> SUFFICES ASSUME J, [Next]_vars PROVE J'
    OBVIOUS
  <2>1. CASE Next
    <3>1. PICK b \in Byte : TakeByte(b)
      BY <2>1 DEF Next
    <3>2. IInv'
      BY <3>1, ByteType, ByteCovers DEF IInv
    <3>3. OnlyVersionHalts
      BY HandledIsFrame DEF OnlyVersionHalts
    <3>4. StaleOnlyIfShort' /\ (CMD' = VERSION /\ call'.cmd # 0 => State' = 8)
                            /\ (State' = 8 => CMD' = VERSION)
      BY <3>1, <3>3, ByteHandles
    <3>5. State' = 8 => call'.cmd # 0
      <4>1. State = 7 => CMD \in Commands
        BY DEF IInv, CheckCovers
      <4> QED
        BY <3>1, <4>1, CommAssumption
           DEF TakeByte, ExpectHead1, ExpectHead2, ExpectCommand, ExpectLength, ExpectData,
               ExpectCheck, ExpectEnd1, ExpectEnd2, Reject, Go, NoCall
    <3> QED
      BY <3>2, <3>4, <3>5
  <2>2. CASE UNCHANGED vars
    BY <2>2 DEF vars, frame, IInv, TypeOK, CheckCovers, Covered, StaleOnlyIfShort
  <2> QED
    BY <2>1, <2>2
<1> QED
  BY <1>1, <1>2, <1>3, PTL DEF Spec

-----------------------------------------------------------------------------
(* The lift task: its types, and that presets are only recorded from a lift *)
(* that stands, for every clock, host and length of a message.              *)

\* A wrap of the clock hides one tick from the task, and no more.
LEMMA Measured ==
    ASSUME LiftTypeOK
    PROVE  /\ Elapsed \in 0 .. TimeMod - 1
           /\ MeasureDrift \in 0 .. 1
           /\ Time_LiftTable_buf = Elapsed - MeasureDrift
           /\ Time_LiftTable_buf \in Nat
  BY LiftAssumption
     DEF LiftAssumption, LiftTypeOK, Elapsed, MeasureDrift, Time_LiftTable_buf, Wrapped

\* A case that ends keeps the types of what it writes, and leaves the clamp at 0
\* in force.
LEMMA EndCaseType ==
    ASSUME LiftTypeOK, NEW t \in Int, EndCase(t)
    PROVE  /\ Time_LiftTable' \in Nat
           /\ LiftValuesTemp' = LiftValues /\ LiftValues' = {}
           /\ PreSetbuf' \in Int
           /\ pc' = "pend" /\ left' = 0
  BY DEF LiftTypeOK, EndCase, NonNegative

\* What is read for a preset is a number, also past the table.
LEMMA PresetType == ASSUME LiftTypeOK, NEW p \in PresetRead PROVE p \in Int
  BY LiftAssumption DEF PresetRead, InTable, LiftTypeOK, LiftAssumption

\* The types are kept by every step, one case per action of Next.
LEMMA TypeInductive == LiftTypeOK /\ [LiftNext]_liftvars => LiftTypeOK'
<1> SUFFICES ASSUME LiftTypeOK, [LiftNext]_liftvars PROVE LiftTypeOK'
  OBVIOUS
<1> USE DEF LiftTypeOK, store, lift, clock, history
<1>1. CASE Tick
  BY <1>1, LiftAssumption DEF Tick, LiftAssumption
<1>2. CASE OSFlagPend
  BY <1>2 DEF OSFlagPend
<1>3. ASSUME NEW d \in {"Up", "Down"}, Travel(d) PROVE LiftTypeOK'
  <2>1. CASE EndCase(Time_LiftTable)
    BY <1>3, <2>1, EndCaseType DEF Travel
  <2>2. CASE Enter("reverse") \/ Enter("start")
    BY <1>3, <2>2, LiftAssumption DEF Travel, Enter, Send, LiftAssumption
  <2> QED
    BY <1>3, <2>1, <2>2 DEF Travel
<1>4. CASE Reverse
  BY <1>4, Measured, LiftAssumption DEF LiftAssumption, Reverse, Send, Drifts, MeasureDrift
<1>5. CASE Start
  BY <1>5, EndCaseType DEF Start
<1>6. CASE BeginStop
  BY <1>6, LiftAssumption DEF BeginStop, Enter, Send, LiftAssumption
<1>7. CASE Stop
  <2>1. PICK t \in Int : EndCase(t)
    BY <1>7, Measured DEF Stop
  <2> QED
    BY <1>7, <2>1, EndCaseType DEF Stop, Drifts, MeasureDrift
<1>8. CASE BeginInvoke
  <2>1. PICK p \in PresetRead : PreSetbuf' = p - Time_LiftTable
    BY <1>8 DEF BeginInvoke
  <2>2. p \in Int
    BY PresetType
  <2> QED
    BY <1>8, <2>1, <2>2, LiftAssumption DEF BeginInvoke, Send, LiftAssumption
<1>9. CASE Depart
  BY <1>9, LiftAssumption DEF Depart, LiftAssumption
<1>10. CASE EndDelay
  BY <1>10, LiftAssumption DEF EndDelay, Enter, Send, LiftAssumption
<1>11. CASE EndInvoke
  <2>1. PICK p \in PresetRead : EndCase(p)
    BY <1>11 DEF EndInvoke
  <2>2. p \in Int
    BY PresetType
  <2> QED
    BY <1>11, <2>1, <2>2, EndCaseType, LiftAssumption
       DEF LiftAssumption, EndInvoke, Drifts, InvokeDrift
<1>12. CASE Set
  <2>1. misled' \in BOOLEAN
    BY <1>12 DEF Set
  <2>2. PreSet_Position' \in [Presets -> Nat]
    <3>1. Time_LiftTable \in Nat
      BY <1>12 DEF Set
    <3>2. CASE PreSet_Position' = [PreSet_Position EXCEPT ![PreSet_Position_No] = Time_LiftTable]
      BY <3>1, <3>2
    <3> QED
      BY <1>12, <3>2 DEF Set
  <2>3. /\ UNCHANGED << LiftStatus, PreSet_Position_No, flash, Time_LiftTable_buf1,
                         clock, lift, host, drift, posts >>
        /\ EndCase(Time_LiftTable) /\ Time_LiftTable \in Int
    BY <1>12 DEF Set
  <2> QED
    BY <2>1, <2>2, <2>3, EndCaseType
<1>13. CASE ToStore
  BY <1>13, EndCaseType, LiftAssumption DEF ToStore, LiftAssumption
<1>14. CASE OtherCase
  BY <1>14, EndCaseType DEF OtherCase
<1>15. ASSUME NEW S \in SUBSET Flags, NEW no \in Numbers, PostFlags(S, no)
       PROVE  LiftTypeOK'
  BY <1>15, LiftAssumption DEF PostFlags, MayPost, LiftAssumption
<1>16. CASE Restart
  <2>1. 0 \in Presets /\ 0 \in 0 .. TimeMod - 1
    BY LiftAssumption DEF LiftAssumption, Presets
  <2>2. Time_LiftTable_buf1' \in 0 .. TimeMod - 1
    BY <1>16, LiftAssumption DEF Restart, LiftAssumption
  <2>3. misled' \in BOOLEAN
    BY <1>16 DEF Restart
  <2>4. posts' \in 0 .. MaxPosts[host] /\ UNCHANGED << flash, ticks, lift, host, drift >>
    BY <1>16, LiftAssumption DEF Restart, LiftAssumption
  <2> QED
    BY <1>16, <2>1, <2>2, <2>3, <2>4 DEF Restart
<1>17. CASE UNCHANGED liftvars
  BY <1>17 DEF liftvars
<1>18. CASE HardFault
  BY <1>18 DEF HardFault
<1> QED
  BY <1>1, <1>2, <1>3, <1>4, <1>5, <1>6, <1>7, <1>8, <1>9, <1>10, <1>11, <1>12,
     <1>13, <1>14, <1>15, <1>16, <1>17, <1>18 DEF LiftNext, vTaskLIFT

\* Every variable keeps its type (vTaskLIFT as a whole): in particular the
\* position never stays below 0, as taskLIFT.c:151 has it, for every clock and host.
THEOREM LiftTypeCorrect == LiftSpec => []LiftTypeOK
<1>1. LiftInit => LiftTypeOK
  <2> SUFFICES ASSUME LiftInit PROVE LiftTypeOK
    OBVIOUS
  <2>1. misled \in BOOLEAN
    BY DEF LiftInit
  <2> QED
    BY <2>1, LiftAssumption
       DEF LiftAssumption, LiftInit, LiftTypeOK, store, lift, clock, history, Presets
<1> QED
  BY <1>1, TypeInductive, PTL DEF LiftSpec

-----------------------------------------------------------------------------
(* Presets.                                                                *)

LEMMA Singles ==
    /\ \A f, g : {f} = {g} => f = g
    /\ \A f : {f} # {} /\ Cardinality({f}) = 1
<1>1. \A f, g : {f} = {g} => f = g
  OBVIOUS
<1>2. \A f : {f} # {} /\ Cardinality({f}) = 1
  BY FS_Singleton
<1> QED
  BY <1>1, <1>2

\* Only Stop leaves {"Stop"} as the last command, and it stops the lift.
LEMMA StopIsLastInductive ==
    LiftTypeOK /\ StopIsLast /\ [LiftNext]_liftvars => StopIsLast'
<1> SUFFICES ASSUME LiftTypeOK, StopIsLast, [LiftNext]_liftvars PROVE StopIsLast'
  OBVIOUS
<1> USE DEF StopIsLast, store, lift, clock, history
<1>0. {"Stop"} \notin {{"Up"}, {"Down"}, {"Invoke"}, {"Set"}, {"Get"}, {"ToStore"}}
  BY Singles
<1>1. CASE Tick
  BY <1>1 DEF Tick
<1>2. CASE OSFlagPend
  BY <1>2 DEF OSFlagPend
<1>3. ASSUME NEW d \in {"Up", "Down"}, Travel(d) PROVE StopIsLast'
  <2>1. CASE EndCase(Time_LiftTable)
    BY <1>0, <1>3, <2>1 DEF Travel, EndCase
  <2>2. CASE Enter("reverse") \/ Enter("start")
    BY <1>3, <2>2 DEF Travel, Enter, Send
  <2> QED
    BY <1>3, <2>1, <2>2 DEF Travel
<1>4. CASE Reverse
  BY <1>4 DEF Reverse, Send
<1>5. CASE Start
  BY <1>0, <1>5, EndCaseType DEF Start, LiftTypeOK
<1>6. CASE BeginStop
  BY <1>6 DEF BeginStop, Enter, Send
<1>7. CASE Stop
  BY <1>7 DEF Stop, EndCase
<1>8. CASE BeginInvoke
  BY <1>8 DEF BeginInvoke, Send
<1>9. CASE Depart
  BY <1>9 DEF Depart
<1>10. CASE EndDelay
  BY <1>10 DEF EndDelay, Enter, Send
<1>11. CASE EndInvoke
  <2>1. LiftValues = {"Invoke"} /\ \E p \in PresetRead : EndCase(p)
    BY <1>11 DEF EndInvoke
  <2> QED
    BY <1>0, <2>1 DEF EndCase
<1>12. CASE Set
  BY <1>0, <1>12 DEF Set, EndCase
<1>13. CASE ToStore
  BY <1>0, <1>13 DEF ToStore, EndCase
<1>14. CASE OtherCase
  <2>1. LiftValues # {"Stop"}
    BY <1>0, <1>14, Singles DEF OtherCase
  <2> QED
    BY <1>14, <2>1 DEF OtherCase, EndCase
<1>15. ASSUME NEW S \in SUBSET Flags, NEW no \in Numbers, PostFlags(S, no)
       PROVE  StopIsLast'
  BY <1>15 DEF PostFlags
<1>16. CASE Restart
  <2>1. pc' = "pend" /\ LiftValuesTemp' = {}
    BY <1>16 DEF Restart
  <2> QED
    BY <2>1, Singles
<1>17. CASE UNCHANGED liftvars
  BY <1>17 DEF liftvars
<1>18. CASE HardFault
  BY <1>18 DEF HardFault
<1> QED
  BY <1>1, <1>2, <1>3, <1>4, <1>5, <1>6, <1>7, <1>8, <1>9, <1>10, <1>11, <1>12,
     <1>13, <1>14, <1>15, <1>16, <1>17, <1>18 DEF LiftNext, vTaskLIFT

\* A preset is only recorded from a lift that stands (taskLIFT.c:124-130), for
\* every host, every timing of its commands and every restart.
THEOREM PresetsStand == LiftSpec => SetStanding
<1>1. LiftInit => StopIsLast
  BY Singles DEF LiftInit, StopIsLast
<1>2. StopIsLast /\ [LiftNext]_liftvars
      => [ PreSet_Position' # PreSet_Position => moving = "stop" \/ Restart ]_liftvars
  <2> SUFFICES ASSUME StopIsLast, LiftNext, PreSet_Position' # PreSet_Position, ~Restart
               PROVE  moving = "stop"
    OBVIOUS
  <2>1. CASE Set
    BY <2>1 DEF Set, StopIsLast
  <2>2. CASE ~Set
    BY <2>2 DEF LiftNext, vTaskLIFT, store, Tick, OSFlagPend, Travel, Reverse, Start,
                BeginStop, Stop, BeginInvoke, Depart, EndDelay, EndInvoke, ToStore,
                OtherCase, HardFault, PostFlags
  <2> QED
    BY <2>1, <2>2
<1> QED
  BY <1>1, <1>2, LiftTypeCorrect, StopIsLastInductive, PTL DEF LiftSpec, SetStanding

-----------------------------------------------------------------------------
(* The position.                                                           *)

\* The clock between two steps: while nothing is measured anew, a tick adds one.
LEMMA ElapsedTick ==
    ASSUME LiftTypeOK, Tick, Elapsed < TimeMod - 1
    PROVE  Elapsed' = Elapsed + 1
  BY LiftAssumption DEF LiftAssumption, LiftTypeOK, Tick, Elapsed, Wrapped

LEMMA ElapsedStays ==
    ASSUME UNCHANGED << OSTime, Time_LiftTable_buf1 >>
    PROVE  Elapsed' = Elapsed /\ MeasureDrift' = MeasureDrift
  BY DEF Elapsed, Wrapped, MeasureDrift

\* A tick moves the lift by one, whichever way it goes, and stops at the top.
LEMMA TickMoves ==
    ASSUME LiftTypeOK, Tick
    PROVE  /\ moving = "stop" => real' = real
           /\ moving = "down" => real' = real + 1
           /\ moving = "up" => real' = NonNegative(real - 1)
  BY DEF LiftTypeOK, Tick, NonNegative

LEMMA MovedTick ==
    ASSUME LiftTypeOK, Tick, Elapsed < TimeMod - 1, NEW d \in {"Up", "Down"}, Moved(d)
    PROVE  Moved(d)'
<1>1. Elapsed' = Elapsed + 1 /\ Elapsed \in Nat
  BY ElapsedTick, Measured
<1>2. UNCHANGED << Time_LiftTable, LiftValuesTemp, moving, drift >>
  BY DEF Tick, history
<1>3. /\ moving = "down" => real' = real + 1
      /\ moving = "up" => real' = NonNegative(real - 1)
  BY TickMoves
<1>4. Time_LiftTable \in Int /\ real \in Nat /\ drift \in Nat
  BY DEF LiftTypeOK
<1>5. CASE d = "Up"
  BY <1>1, <1>2, <1>3, <1>4, <1>5 DEF Moved, Near, NonNegative
<1>6. CASE d = "Down"
  BY <1>1, <1>2, <1>3, <1>4, <1>6 DEF Moved, Near, NonNegative
<1> QED
  BY <1>5, <1>6

\* What the lift moved is kept by a step that moves neither it nor the clock.
LEMMA MovedStays ==
    ASSUME UNCHANGED << OSTime, Time_LiftTable_buf1, Time_LiftTable, moving, real,
                        drift >>
    PROVE  /\ Still' = Still
           /\ LiftValuesTemp' = LiftValuesTemp =>
                 \A d : Moved(d)' = Moved(d)
  BY ElapsedStays DEF Still, Moved, Near, NonNegative

\* The clock passes: every statement at which it may.
LEMMA TickOnTrack ==
    ASSUME LiftTypeOK, OnTrack, ~misled, Tick, MaxTicks + SendTicks < TimeMod
    PROVE  OnTrack'
<1> USE DEF OnTrack
<1>1. /\ UNCHANGED << LiftStatus, PreSet_Position_No, PreSet_Position,
                      Time_LiftTable, LiftValues, LiftValuesTemp, PreSetbuf, pc,
                      moving, misled, drift >>
      /\ left > 0 => left' = left - 1
      /\ left = 0 => left' = 0 /\ pc = "pend" /\ LiftStatus = {}
                     /\ ticks' = ticks + 1 /\ ticks < MaxTicks
      /\ pc # "switch" /\ pc # "fault"
  BY DEF Tick, store, history, LiftTypeOK
<1>2. /\ left \in Nat /\ ticks \in Nat /\ Elapsed \in Nat /\ real \in Nat
      /\ drift \in Nat /\ PreSetbuf \in Int /\ Time_LiftTable \in Int
      /\ SendTicks \in Nat /\ MaxTicks \in Nat /\ TimeMod \in Nat
      /\ pc = "pend" => left = 0
  BY Measured, LiftAssumption DEF LiftTypeOK, LiftAssumption
<1>3. Still => Still'
  BY <1>1, TickMoves DEF Still, Near, NonNegative
<1>4. CASE pc = "pend"
  <2>2. CASE Still /\ LiftValuesTemp \notin {{"Up"}, {"Down"}}
    BY <1>1, <1>3, <1>4, <2>2 DEF Ready
  <2>3. CASE ~(Still /\ LiftValuesTemp \notin {{"Up"}, {"Down"}})
    <3>1. Elapsed <= ticks /\ Elapsed < TimeMod - 1 /\ (Moved("Up") \/ Moved("Down"))
      BY <1>1, <1>2, <1>4, <2>3 DEF Ready
    <3>2. Elapsed' <= ticks' /\ (Moved("Up")' \/ Moved("Down")')
      BY <1>1, <1>2, <1>4, <3>1, ElapsedTick, MovedTick
    <3>3. LiftStatus' = {}
      BY <1>1, <1>2, <1>4
    <3>4. Ready'
      BY <3>2, <3>3 DEF Ready
    <3> QED
      BY <1>1, <1>4, <3>4
  <2> QED
    BY <2>2, <2>3
<1>5. CASE pc \in {"reverse", "stop"}
  <2>1. left' = left - 1 /\ left > 0
    BY <1>1, <1>2, <1>5
  <2>2. CASE Sending
    <3>1. Elapsed < TimeMod - 1
      BY <1>2, <2>1, <2>2 DEF Sending
    <3>2. Sending' /\ (Moved("Up") => Moved("Up")') /\ (Moved("Down") => Moved("Down")')
      BY <1>2, <2>1, <2>2, <3>1, ElapsedTick, MovedTick DEF Sending
    <3> QED
      BY <1>1, <1>3, <1>5, <3>2 DEF Reversing, Stopping
  <2>3. CASE ~Sending
    BY <1>1, <1>3, <1>5, <2>3 DEF Reversing, Stopping
  <2> QED
    BY <2>2, <2>3
<1>6. CASE pc \in {"start", "depart"}
  BY <1>1, <1>3, <1>6 DEF Invoked, InTable
<1>7. CASE pc = "dly"
  <2>1. Travelling'
    <3>1. Time_LiftTable + PreSetbuf \in Nat
      BY <1>7 DEF Invoked, InTable, LiftTypeOK
    <3>2. left \in Nat \ {0} /\ left' = left - 1
      BY <1>1, <1>2, <1>7
    <3>3. /\ moving = "down" => real' = real + 1
          /\ moving = "up" => real' = IF real > 0 THEN real - 1 ELSE 0
      BY <1>2, TickMoves DEF NonNegative
    <3> QED
      BY <1>1, <1>2, <1>7, <3>1, <3>2, <3>3 DEF Travelling, Near
  <2> QED
    BY <1>1, <1>7, <2>1 DEF Invoked, InTable
<1>8. CASE pc = "arrive"
  <2>1. Arriving'
    BY <1>1, <1>2, <1>3, <1>8, TickMoves DEF Arriving, NonNegative, LiftTypeOK, Invoked
  <2> QED
    BY <1>1, <1>8, <2>1 DEF Invoked, InTable
<1> QED
  BY <1>1, <1>4, <1>5, <1>6, <1>7, <1>8 DEF LiftTypeOK

\* A command posted while the task waits changes nothing it knows; during an
\* invocation it must leave the preset number alone.
LEMMA PostOnTrack ==
    ASSUME LiftTypeOK, OnTrack, ~misled', NEW S \in SUBSET Flags, NEW no \in Numbers,
           PostFlags(S, no)
    PROVE  OnTrack'
<1>1. /\ ~misled /\ pc \in {"pend", "dly"}
      /\ pc = "dly" => PreSet_Position_No' = PreSet_Position_No
      /\ UNCHANGED << PreSet_Position, LiftValues, LiftValuesTemp, PreSetbuf, ticks,
                      pc, left >>
      /\ UNCHANGED << OSTime, Time_LiftTable_buf1, Time_LiftTable, moving, real,
                      drift >>
  BY DEF PostFlags, MayPost, clock, lift, store
<1>2. /\ Still' = Still /\ Elapsed' = Elapsed
      /\ \A d : Moved(d)' = Moved(d)
  BY <1>1, MovedStays, ElapsedStays
<1>3. CASE pc = "pend"
  BY <1>1, <1>2, <1>3 DEF OnTrack, Ready
<1>4. CASE pc = "dly"
  BY <1>1, <1>4 DEF OnTrack, Invoked, InTable, Travelling, Near
<1> QED
  BY <1>1, <1>3, <1>4

\* The commands that move the lift, or end without moving it.
LEMMA SwitchOnTrack ==
    ASSUME LiftTypeOK, OnTrack, ~misled, ~misled', pc = "switch",
           \/ \E d \in {"Up", "Down"} : Travel(d)
           \/ BeginStop \/ BeginInvoke \/ Set \/ ToStore \/ OtherCase
    PROVE  OnTrack'
<1>1. Ready /\ (moving # "stop" => LiftValues \in Motions)
  BY DEF OnTrack
<1>2. /\ Time_LiftTable \in Nat /\ ticks \in 0 .. MaxTicks /\ MaxTicks \in Nat
      /\ SendTicks \in Nat /\ Elapsed \in Nat
      /\ NonNegative(Time_LiftTable) = Time_LiftTable
  BY LiftAssumption, Measured DEF LiftTypeOK, LiftAssumption, NonNegative
<1>3. UNCHANGED << LiftStatus, OSTime, Time_LiftTable_buf1, moving, real, drift, ticks >>
  BY DEF Travel, BeginStop, BeginInvoke, Set, ToStore, OtherCase, history, clock, lift
<1>4. ASSUME Time_LiftTable' = Time_LiftTable
      PROVE  /\ Still' = Still /\ Elapsed' = Elapsed
             /\ LiftValuesTemp' = LiftValuesTemp => \A d : Moved(d)' = Moved(d)
  BY <1>3, <1>4, MovedStays, ElapsedStays
<1>5. ASSUME EndCase(Time_LiftTable), Still, LiftValues \notin {{"Up"}, {"Down"}}
      PROVE  OnTrack'
  BY <1>1, <1>2, <1>3, <1>4, <1>5 DEF EndCase, OnTrack, Ready
<1>6. ASSUME NEW d \in {"Up", "Down"}, Travel(d) PROVE OnTrack'
  <2>1. LiftValues = {d} /\ LiftValues \in {{"Up"}, {"Down"}}
    BY <1>6 DEF Travel
  <2>2. CASE LiftValuesTemp = {Opposite(d)} /\ Enter("reverse")
    <3>1. Moved(Opposite(d)) /\ Elapsed <= ticks
      BY <1>1, <2>1, <2>2, Singles DEF Ready, Moved, Opposite
    <3>2. Moved(Opposite(d))' /\ Elapsed' <= ticks' /\ left' = SendTicks
      BY <1>3, <1>4, <2>2, <3>1 DEF Enter, Send
    <3>3. Sending'
      BY <1>2, <1>3, <1>4, <2>2, <3>1, <3>2 DEF Sending, Enter
    <3>4. Reversing'
      BY <2>1, <2>2, <3>2, <3>3 DEF Reversing, Opposite, Enter
    <3> QED
      BY <1>1, <1>3, <2>2, <3>4 DEF OnTrack, Enter, Send
  <2>3. CASE LiftValuesTemp = {d} /\ EndCase(Time_LiftTable)
    <3>1. Moved(d) /\ Elapsed <= ticks
      BY <1>1, <2>1, <2>3, Singles DEF Ready, Moved
    <3>2. Moved(d)' /\ Elapsed' <= ticks'
      BY <1>1, <1>2, <1>3, <1>4, <2>1, <2>3, <3>1 DEF EndCase
    <3>3. Ready'
      BY <3>2 DEF Ready
    <3> QED
      BY <1>1, <1>3, <2>3, <3>3 DEF OnTrack, EndCase
  <2>4. CASE LiftValuesTemp \notin {{"Up"}, {"Down"}} /\ Enter("start")
    <3>1. Still
      BY <1>1, <2>4 DEF Ready, Moved
    <3>2. Still'
      BY <1>4, <2>4, <3>1 DEF Enter
    <3> QED
      BY <1>1, <1>3, <2>1, <2>4, <3>2 DEF OnTrack, Enter, Send
  <2> QED
    BY <1>6, <2>2, <2>3, <2>4 DEF Travel
<1>7. CASE BeginStop
  <2>1. LiftValues = {"Stop"} /\ Enter("stop")
    BY <1>7 DEF BeginStop
  <2>2. left' = SendTicks /\ pc' = "stop" /\ LiftValues' = {"Stop"}
        /\ Time_LiftTable' = Time_LiftTable /\ LiftValuesTemp' = LiftValuesTemp
    BY <2>1 DEF Enter, Send
  <2>3. Stopping'
    BY <1>1, <1>2, <1>3, <1>4, <2>2 DEF Ready, Stopping, Sending
  <2> QED
    BY <1>1, <1>3, <2>2, <2>3 DEF OnTrack, Flags
<1>8. ASSUME LiftValues \notin Motions PROVE Still
  BY <1>1, <1>8 DEF Ready, Moved, Motions
<1>9. CASE BeginInvoke
  <2>0. InTable
    BY <1>9 DEF BeginInvoke
  <2>1. /\ LiftValues = {"Invoke"} /\ LiftValues' = LiftValues /\ Still
        /\ Time_LiftTable' = Time_LiftTable
        /\ UNCHANGED << PreSet_Position, PreSet_Position_No >>
        /\ PreSetbuf' = PreSet_Position[PreSet_Position_No] - Time_LiftTable
        /\ pc' = IF PreSetbuf' = 0 THEN "arrive" ELSE "depart"
    BY <1>8, <1>9, <2>0, Singles DEF BeginInvoke, PresetRead, Send, store, Motions
  <2>2. Still' /\ Invoked' /\ PreSetbuf' \in Int
    BY <1>2, <1>4, <2>0, <2>1 DEF Invoked, InTable, LiftTypeOK
  <2> QED
    BY <1>1, <1>3, <2>1, <2>2 DEF OnTrack, Arriving
<1>10. CASE Set \/ ToStore
  <2>1. LiftValues \in {{"Set"}, {"ToStore"}} /\ EndCase(Time_LiftTable)
    BY <1>10 DEF Set, ToStore
  <2>2. LiftValues \notin Motions
    BY <2>1, Singles DEF Motions
  <2>3. Still
    BY <1>8, <2>2
  <2>4. LiftValues \notin {{"Up"}, {"Down"}}
    BY <2>2 DEF Motions
  <2> QED
    BY <1>5, <2>1, <2>3, <2>4
<1>11. CASE OtherCase
  <2>1. ASSUME LiftValues \in Motions PROVE FALSE
    <3>1. PICK f \in {"Up", "Down", "Stop"} : LiftValues = {f}
      BY <2>1 DEF Motions
    <3>2. LiftValues # {"Get"}
      BY <3>1, Singles
    <3>3. Cardinality(LiftValues) = 1
      BY <3>1, Singles
    <3> QED
      BY <1>11, <3>2, <3>3 DEF OtherCase
  <2>2. Still
    BY <1>8, <2>1
  <2>3. LiftValues \notin {{"Up"}, {"Down"}}
    BY <2>1 DEF Motions
  <2>4. EndCase(Time_LiftTable)
    BY <1>11 DEF OtherCase
  <2> QED
    BY <1>5, <2>2, <2>3, <2>4
<1> QED
  BY <1>6, <1>7, <1>9, <1>10, <1>11

\* A message is out, or the delay of an invocation is over.
LEMMA SendOnTrack ==
    ASSUME LiftTypeOK, OnTrack, ~misled,
           Reverse \/ Start \/ Stop \/ Depart \/ EndDelay \/ EndInvoke
    PROVE  OnTrack'
<1>1. /\ Time_LiftTable \in Int /\ real \in Nat /\ drift \in Nat
      /\ ticks \in Nat /\ SendTicks \in Nat /\ PreSetbuf \in Int
      /\ pc # "start" => Time_LiftTable \in Nat
      /\ Elapsed \in Nat /\ MeasureDrift \in 0 .. 1
      /\ Time_LiftTable_buf = Elapsed - MeasureDrift /\ Time_LiftTable_buf \in Nat
  BY LiftAssumption, Measured DEF LiftTypeOK, LiftAssumption
<1>2. /\ UNCHANGED << LiftStatus, misled, real, ticks, OSTime >>
  BY DEF OnTrack, Reverse, Start, Stop, Depart, EndDelay, EndInvoke, history, clock,
         lift, Drifts
<1>3. CASE Reverse
  <2>1. /\ drift' = drift + MeasureDrift /\ moving' = "stop" /\ pc' = "start"
        /\ LiftValues' = LiftValues
    BY <1>3 DEF Reverse, Drifts, Send
  <2>2. CASE LiftValues = {"Up"} /\ Moved("Down")
    <3>1. Time_LiftTable' = Time_LiftTable + Time_LiftTable_buf
      BY <1>3, <2>2 DEF Reverse
    <3>2. Still'
      BY <1>1, <1>2, <2>1, <2>2, <3>1 DEF Moved, Still, Near, NonNegative
    <3> QED
      BY <1>2, <2>1, <2>2, <3>2 DEF OnTrack
  <2>3. CASE LiftValues = {"Down"} /\ Moved("Up")
    <3>1. Time_LiftTable' = Time_LiftTable - Time_LiftTable_buf
      BY <1>3, <2>3, Singles DEF Reverse
    <3>2. Still'
      BY <1>1, <1>2, <2>1, <2>3, <3>1 DEF Moved, Still, Near, NonNegative
    <3> QED
      BY <1>2, <2>1, <2>3, <3>2 DEF OnTrack
  <2> QED
    BY <1>3, <2>2, <2>3 DEF OnTrack, Reverse, Reversing
<1>4. CASE Start
  <2>1. /\ Still /\ LiftValues \in {{"Up"}, {"Down"}}
        /\ drift' = drift /\ Time_LiftTable' = NonNegative(Time_LiftTable)
        /\ Time_LiftTable_buf1' = OSTime /\ LiftValuesTemp' = LiftValues
        /\ LiftValues' = {} /\ pc' = "pend"
        /\ moving' = IF LiftValues = {"Up"} THEN "up" ELSE "down"
    BY <1>4 DEF Start, EndCase, OnTrack, history
  <2>2. Elapsed' = 0
    BY <1>2, <2>1 DEF Elapsed, Wrapped, LiftTypeOK
  <2>3. \A d \in {"Up", "Down"} : LiftValues = {d} => Moved(d)'
    BY <1>1, <1>2, <2>1, <2>2, Singles DEF Moved, Still, Near, NonNegative
  <2>4. Ready'
    BY <1>1, <1>2, <2>1, <2>2, <2>3 DEF Ready
  <2> QED
    BY <1>2, <2>1, <2>4 DEF OnTrack
<1>5. CASE Stop
  <2>1. /\ LiftValues = {"Stop"} /\ drift' = drift + MeasureDrift
        /\ moving' = "stop" /\ pc' = "pend" /\ LiftValues' = {}
        /\ LiftValuesTemp' = {"Stop"} /\ Time_LiftTable \in Nat
    BY <1>1, <1>5 DEF Stop, EndCase, Drifts, OnTrack, Stopping
  <2>2. Still'
    <3>1. CASE Moved("Up")
      <4>1. Time_LiftTable' = NonNegative(Time_LiftTable - Time_LiftTable_buf)
        BY <1>1, <1>5, <2>1, <3>1, Singles DEF Stop, EndCase, Moved, NonNegative
      <4> QED
        BY <1>1, <1>2, <2>1, <3>1, <4>1 DEF Moved, Still, Near, NonNegative
    <3>2. CASE Moved("Down")
      <4>1. Time_LiftTable' = Time_LiftTable + Time_LiftTable_buf
        BY <1>1, <1>5, <2>1, <3>2, Singles DEF Stop, EndCase, Moved, NonNegative
      <4> QED
        BY <1>1, <1>2, <2>1, <3>2, <4>1 DEF Moved, Still, Near, NonNegative
    <3>3. CASE Still /\ LiftValuesTemp \notin {{"Up"}, {"Down"}}
      <4>1. Time_LiftTable' = Time_LiftTable
        BY <1>1, <1>5, <2>1, <3>3 DEF Stop, EndCase, NonNegative
      <4> QED
        BY <1>1, <1>2, <2>1, <3>3, <4>1 DEF Still, Near, NonNegative
    <3> QED
      BY <1>5, <3>1, <3>2, <3>3 DEF OnTrack, Stop, Stopping
  <2>3. Ready'
    BY <1>2, <2>1, <2>2, Singles DEF Ready
  <2> QED
    BY <1>2, <2>1, <2>3 DEF OnTrack
<1>6. CASE Depart
  <2>1. /\ Invoked /\ Still /\ PreSetbuf # 0 /\ Time_LiftTable \in Nat
        /\ UNCHANGED << PreSet_Position, PreSet_Position_No, Time_LiftTable,
                        LiftValues, PreSetbuf, drift >>
        /\ pc' = "dly" /\ moving' = IF PreSetbuf > 0 THEN "down" ELSE "up"
        /\ left' = IF PreSetbuf > 0 THEN PreSetbuf ELSE -PreSetbuf
    BY <1>1, <1>6, LiftAssumption DEF Depart, OnTrack, LiftAssumption, store, history
  <2>2. Invoked' /\ Travelling'
    BY <1>1, <1>2, <2>1 DEF Invoked, InTable, Travelling, Still, Near, NonNegative
  <2> QED
    BY <1>2, <2>1, <2>2 DEF OnTrack
<1>7. CASE EndDelay
  <2>1. /\ Invoked /\ Travelling /\ left = 0
        /\ UNCHANGED << PreSet_Position, PreSet_Position_No, Time_LiftTable,
                        LiftValues, PreSetbuf, drift >>
        /\ pc' = "arrive" /\ left' = SendTicks
    BY <1>7 DEF EndDelay, Enter, Send, OnTrack, store, history
  <2>2. Invoked' /\ Arriving'
    BY <1>1, <1>2, <2>1 DEF Invoked, InTable, Travelling, Arriving, Near
  <2> QED
    BY <1>2, <2>1, <2>2 DEF OnTrack
<1>8. CASE EndInvoke
  <2>0. Invoked /\ PresetRead = {Time_LiftTable + PreSetbuf}
    BY <1>8 DEF EndInvoke, OnTrack, Invoked, PresetRead
  <2>1. /\ Invoked /\ Arriving /\ left = 0 /\ Time_LiftTable \in Nat
        /\ moving' = "stop" /\ pc' = "pend" /\ LiftValues' = {}
        /\ LiftValuesTemp' = {"Invoke"}
        /\ Time_LiftTable' = NonNegative(Time_LiftTable + PreSetbuf)
        /\ drift' = drift + (IF PreSetbuf = 0 THEN 0 ELSE SendTicks)
    BY <1>1, <1>8, <2>0 DEF EndInvoke, EndCase, OnTrack, Invoked, Drifts, InvokeDrift
  <2>2. Still'
    BY <1>1, <1>2, <2>1 DEF Arriving, Still, Near, NonNegative
  <2>3. Ready'
    BY <1>2, <2>1, <2>2, Singles DEF Ready
  <2> QED
    BY <1>2, <2>1, <2>3 DEF OnTrack
<1> QED
  BY <1>3, <1>4, <1>5, <1>6, <1>7, <1>8

\* The flags taken are a motion, or the lift stands.
LEMMA FlagPendOnTrack ==
    ASSUME LiftTypeOK, OnTrack, ~misled', OSFlagPend
    PROVE  OnTrack'
<1>1. /\ ~misled /\ pc = "pend" /\ pc' = "switch" /\ LiftValues' = LiftStatus
      /\ moving # "stop" => LiftStatus \in Motions
      /\ UNCHANGED << LiftValuesTemp, ticks >>
      /\ UNCHANGED << OSTime, Time_LiftTable_buf1, Time_LiftTable, moving, real,
                      drift >>
  BY DEF OSFlagPend, clock, lift
<1>2. Ready
  BY <1>1 DEF OnTrack
<1>3. /\ Still' = Still /\ Elapsed' = Elapsed
      /\ \A d : Moved(d)' = Moved(d)
  BY <1>1, MovedStays, ElapsedStays
<1>4. Ready'
  BY <1>1, <1>2, <1>3 DEF Ready
<1> QED
  BY <1>1, <1>4 DEF OnTrack

LEMMA RestartOnTrack == ASSUME LiftTypeOK, Restart PROVE OnTrack'
<1>1. CASE misled'
  BY <1>1 DEF OnTrack
<1>2. CASE ~misled'
  <2>1. Still' /\ LiftValuesTemp' = {} /\ pc' = "pend"
    <3>1. /\ moving' = "stop" /\ real' = 0 /\ drift' = drift /\ drift \in Nat
          /\ Time_LiftTable' = 0
      BY <1>2 DEF Restart, lift, LiftTypeOK
    <3> QED
      BY <3>1 DEF Restart, Still, Near, NonNegative
  <2> QED
    BY <2>1, Singles DEF OnTrack, Ready
<1> QED
  BY <1>1, <1>2 DEF Restart

LEMMA OnTrackInductive ==
    ASSUME MaxTicks + SendTicks < TimeMod
    PROVE  LiftTypeOK /\ OnTrack /\ [LiftNext]_liftvars => OnTrack'
<1> SUFFICES ASSUME LiftTypeOK, OnTrack, [LiftNext]_liftvars PROVE OnTrack'
  OBVIOUS
<1>1. CASE misled'
  BY <1>1 DEF OnTrack
<1>2. ASSUME ~misled' PROVE ~misled \/ Restart
  BY <1>2 DEF LiftNext, vTaskLIFT, liftvars, history, Drifts, Tick, OSFlagPend, Travel,
         Reverse, Start, BeginStop, Stop, BeginInvoke, Depart, EndDelay, EndInvoke, Set,
         ToStore, OtherCase, HardFault, PostFlags
<1>3. CASE ~misled /\ UNCHANGED liftvars
  <2>1. UNCHANGED << OSTime, Time_LiftTable_buf1, Time_LiftTable, moving, real, drift,
                     LiftValuesTemp >>
    BY <1>3 DEF liftvars, clock, lift, history
  <2>2. /\ Still' = Still /\ Elapsed' = Elapsed
        /\ \A d : Moved(d)' = Moved(d)
    BY <2>1, MovedStays, ElapsedStays
  <2> QED
    BY <1>3, <2>1, <2>2
       DEF liftvars, store, clock, lift, history, OnTrack, Ready, Reversing,
           Stopping, Sending, Invoked, InTable, Travelling, Arriving, Near
<1>4. CASE ~misled /\ ~misled' /\ LiftNext
  <2>1. CASE Tick
    BY <1>4, <2>1, TickOnTrack
  <2>2. CASE OSFlagPend
    BY <1>4, <2>2, FlagPendOnTrack
  <2>3. CASE \/ Travel("Up") \/ Travel("Down") \/ BeginStop \/ BeginInvoke
             \/ Set \/ ToStore \/ OtherCase
    <3>1. pc = "switch"
      BY <2>3 DEF Travel, BeginStop, BeginInvoke, Set, ToStore, OtherCase
    <3> QED
      BY <1>4, <2>3, <3>1, SwitchOnTrack
  <2>4. CASE Reverse \/ Start \/ Stop \/ Depart \/ EndDelay \/ EndInvoke
    BY <1>4, <2>4, SendOnTrack
  <2>5. CASE \E S \in SUBSET Flags, no \in Numbers : PostFlags(S, no)
    BY <1>4, <2>5, PostOnTrack
  <2>6. CASE Restart
    BY <2>6, RestartOnTrack
  <2>7. ~HardFault
    BY <1>4 DEF HardFault
  <2> QED
    BY <1>4, <2>1, <2>2, <2>3, <2>4, <2>5, <2>6, <2>7 DEF LiftNext, vTaskLIFT
<1> QED
  BY <1>1, <1>2, <1>3, <1>4, RestartOnTrack DEF LiftTypeOK

\* The strengthening of PositionKept, for the same behaviours.
THEOREM OnTrackKept == MaxTicks + SendTicks < TimeMod => (LiftSpec => []OnTrack)
<1> SUFFICES ASSUME MaxTicks + SendTicks < TimeMod PROVE LiftSpec => []OnTrack
  OBVIOUS
<1>1. LiftInit => OnTrack
  <2> SUFFICES ASSUME LiftInit PROVE OnTrack
    OBVIOUS
  <2>1. Ready
    BY Singles DEF LiftInit, Ready, Still, Near, NonNegative
  <2> QED
    BY <2>1 DEF LiftInit, OnTrack
<1>2. LiftTypeOK /\ OnTrack /\ [LiftNext]_liftvars => OnTrack'
  BY OnTrackInductive
<1> QED
  BY <1>1, <1>2, LiftTypeCorrect, PTL DEF LiftSpec

\* When no move lasts as long as the system time takes to wrap around (49 days),
\* the position the task keeps is that of the lift whenever it stands, but for the
\* drift of invocations and of the wrap: for every clock, message length, host and
\* number of commands, as long as nothing misled the task (vTaskLIFT as a whole).
THEOREM PositionKept == MaxTicks + SendTicks < TimeMod => (LiftSpec => []TableIsPosition)
<1> SUFFICES ASSUME MaxTicks + SendTicks < TimeMod PROVE LiftSpec => []TableIsPosition
  OBVIOUS
<1>1. LiftTypeOK /\ OnTrack => TableIsPosition
  <2> SUFFICES ASSUME LiftTypeOK, OnTrack, ~misled, Standing
               PROVE  Time_LiftTable - real \in -drift .. drift
    BY DEF TableIsPosition
  <2>1. Still
    BY DEF Standing, OnTrack, Ready, Moved
  <2> QED
    BY <2>1 DEF Standing, Still, Near, NonNegative, LiftTypeOK
<1>2. LiftSpec => []OnTrack
  BY OnTrackKept
<1> QED
  BY <1>1, <1>2, LiftTypeCorrect, PTL

-----------------------------------------------------------------------------
(* The host that never misleads the task.                                  *)

LEMMA FlagsFinite == IsFiniteSet(Flags)
<1> DEFINE A == {"Up"} \cup {"Down"} \cup {"Stop"} \cup {"Set"}
<1>1. IsFiniteSet({"Up"})
  BY FS_Singleton
<1>2. IsFiniteSet({"Up"} \cup {"Down"})
  BY <1>1, FS_AddElement
<1>3. IsFiniteSet({"Up"} \cup {"Down"} \cup {"Stop"})
  BY <1>2, FS_AddElement
<1>4. IsFiniteSet(A)
  BY <1>3, FS_AddElement
<1> HIDE DEF A
<1>5. IsFiniteSet(A \cup {"Invoke"})
  BY <1>4, FS_AddElement
<1>6. IsFiniteSet(A \cup {"Invoke"} \cup {"Get"})
  BY <1>5, FS_AddElement
<1>7. IsFiniteSet(A \cup {"Invoke"} \cup {"Get"} \cup {"ToStore"})
  BY <1>6, FS_AddElement
<1>8. Flags = A \cup {"Invoke"} \cup {"Get"} \cup {"ToStore"}
  BY DEF Flags, A
<1> QED
  BY <1>7, <1>8

\* An orderly host posts one flag at a time, only a motion to a moving lift, and
\* numbers of the table.
Orderly ==
    host = "orderly" =>
        /\ ~misled /\ InTable
        /\ pc # "pend" => LiftStatus = {}
        /\ LiftStatus = {} \/ moving = "stop" \/ LiftStatus \in Motions

LEMMA OrderlyInductive == LiftTypeOK /\ Orderly /\ [LiftNext]_liftvars => Orderly'
<1> SUFFICES ASSUME LiftTypeOK, Orderly, [LiftNext]_liftvars PROVE Orderly'
  OBVIOUS
<1>0. CASE host # "orderly"
  BY <1>0 DEF Orderly, LiftNext, vTaskLIFT, liftvars, history, Drifts, Tick, OSFlagPend, Travel,
         Reverse, Start, BeginStop, Stop, BeginInvoke, Depart, EndDelay, EndInvoke, Set,
         ToStore, OtherCase, HardFault, PostFlags, Restart
<1> SUFFICES ASSUME host = "orderly" PROVE Orderly'
  BY <1>0
<1> USE DEF Orderly, InTable, history
<1>1. CASE Tick
  BY <1>1 DEF Tick
<1>2. CASE OSFlagPend
  BY <1>2 DEF OSFlagPend, lift
<1>3. CASE Travel("Up") \/ Travel("Down") \/ BeginStop \/ BeginInvoke \/ Set \/ ToStore
           \/ OtherCase \/ EndDelay
  <2>0. InTable /\ ~misled
    OBVIOUS
  <2>1. LiftStatus = {} /\ UNCHANGED << LiftStatus, host, PreSet_Position_No >>
    BY <1>3 DEF Travel, BeginStop, BeginInvoke, Set, ToStore, OtherCase, EndDelay, lift
  <2>2. ~misled'
    <3>1. CASE BeginInvoke
      BY <2>0, <3>1 DEF BeginInvoke
    <3>2. CASE Set
      BY <2>0, <3>2 DEF Set
    <3>3. CASE Travel("Up") \/ Travel("Down") \/ BeginStop \/ ToStore \/ OtherCase \/ EndDelay
      BY <2>0, <3>3 DEF Travel, BeginStop, ToStore, OtherCase, EndDelay
    <3> QED
      BY <1>3, <3>1, <3>2, <3>3
  <2> QED
    BY <2>0, <2>1, <2>2
<1>4. CASE Reverse \/ Start \/ Stop \/ Depart \/ EndInvoke
  <2>1. LiftStatus = {} /\ UNCHANGED << LiftStatus, host, misled, PreSet_Position_No >>
    BY <1>4 DEF Reverse, Start, Stop, Depart, EndInvoke, Drifts
  <2> QED
    BY <2>1
<1>5. ASSUME NEW S \in SUBSET Flags, NEW no \in Numbers, PostFlags(S, no)
      PROVE  Orderly'
  <2>1. PICK f : S = {f} /\ f \in Flags
    BY <1>5, FlagsFinite, FS_Subset, FS_Singleton DEF PostFlags, MayPost
  <2>2. pc = "pend" /\ LiftStatus' = {f} /\ (moving # "stop" => {f} \in Motions)
    BY <1>5, <2>1 DEF PostFlags, MayPost, Motions
  <2>3. PreSet_Position_No' \in Presets /\ moving' = moving /\ pc' = pc
    BY <1>5 DEF PostFlags, MayPost, lift
  <2>4. ~misled'
    BY <1>5, <2>2 DEF PostFlags
  <2> QED
    BY <2>2, <2>3, <2>4
<1>6. CASE Restart
  BY <1>6 DEF Restart
<1>7. CASE UNCHANGED liftvars
  BY <1>7 DEF liftvars, lift
<1>8. ~HardFault
  BY DEF HardFault
<1> QED
  BY <1>1, <1>2, <1>3, <1>4, <1>5, <1>6, <1>7, <1>8 DEF LiftNext, vTaskLIFT

\* A host that stops the lift before anything but a reversal, and waits for the
\* end of an invocation, and whose preset numbers are in the table, never misleads
\* the task (OSFlagPend, prvLift).
THEOREM OrderlyNeverMisleads == LiftSpec => [](host = "orderly" => ~misled)
<1>1. LiftInit => Orderly
  BY LiftAssumption DEF LiftInit, Orderly, InTable, Presets, LiftAssumption
<1>2. Orderly => (host = "orderly" => ~misled)
  BY DEF Orderly
<1> QED
  BY <1>1, <1>2, OrderlyInductive, LiftTypeCorrect, PTL DEF LiftSpec
================================================================================
