------------------------------ MODULE OSCore_proofs ------------------------------
(* What the operators of OSCore make of a kernel state, field by field, for   *)
(* every set of tasks, events and messages: the lemmas that a proof about a   *)
(* program over the kernel cites instead of the definitions.                  *)
EXTENDS OSCore, WellFoundedInduction, TLAPS

\* A non-empty set of priorities has a most urgent one.
LEMMA HighestIs ==
    ASSUME NEW P \in SUBSET Nat, P # {}
    PROVE  Highest(P) \in P /\ \A q \in P : Highest(P) <= q
<1>1. \E p \in P : \A q \in P : ~ (<<q, p>> \in OpToRel(<, Nat))
  BY NatLessThanWellFounded, WFMin
<1>2. \E p \in P : \A q \in P : p <= q
  <2>1. PICK p \in P : \A q \in P : ~ (<<q, p>> \in OpToRel(<, Nat))
    BY <1>1
  <2>2. ASSUME NEW q \in P PROVE p <= q
    <3>1. <<q, p>> \in Nat \X Nat
      OBVIOUS
    <3>2. ~(q < p)
      BY <2>1, <3>1 DEF OpToRel
    <3> QED
      BY <3>2
  <2> QED
    BY <2>2
<1> QED
  BY <1>2 DEF Highest

-----------------------------------------------------------------------------
(* The fields an operator leaves alone.                                       *)

SameNesting(r, k) == r.IntNesting = k.IntNesting /\ r.LockNesting = k.LockNesting
SameRunning(r, k) == r.Cur = k.Cur /\ r.PrioCur = k.PrioCur /\ SameNesting(r, k)
SameTables(r, k) == r.tcb = k.tcb /\ r.PrioTbl = k.PrioTbl /\ r.Rdy = k.Rdy /\ r.ev = k.ev

\* A task control block is replaced.
WithTcb(k, t, b) == [k EXCEPT !.tcb[t] = b]
\* The others stay, and the kernel keeps its type.
LEMMA SetTcb ==
    ASSUME NEW V, NEW k \in KernelState(V), NEW t \in Task, NEW b \in TCB(V)
    PROVE  LET r == WithTcb(k, t, b)
           IN  /\ r \in KernelState(V)
               /\ r.tcb = [k.tcb EXCEPT ![t] = b]
               /\ r.PrioTbl = k.PrioTbl /\ r.Rdy = k.Rdy /\ r.ev = k.ev /\ SameRunning(r, k)
<1> DEFINE r == WithTcb(k, t, b)
<1>1. r.tcb = [k.tcb EXCEPT ![t] = b]
  BY DEF KernelState, WithTcb
<1>2. r.tcb \in [Task -> TCB(V)]
  BY <1>1 DEF KernelState
<1> QED
  BY <1>1, <1>2 DEF KernelState, SameRunning, SameNesting, WithTcb

\* An event control block is replaced.
WithEvent(k, e, b) == [k EXCEPT !.ev[e] = b]
\* The same of an event.
LEMMA SetEvent ==
    ASSUME NEW V, NEW k \in KernelState(V), NEW e \in Event, NEW b \in ECB(V)
    PROVE  LET r == WithEvent(k, e, b)
           IN  /\ r \in KernelState(V)
               /\ r.ev = [k.ev EXCEPT ![e] = b]
               /\ r.tcb = k.tcb /\ r.PrioTbl = k.PrioTbl /\ r.Rdy = k.Rdy /\ SameRunning(r, k)
<1> DEFINE r == WithEvent(k, e, b)
<1>1. r.ev = [k.ev EXCEPT ![e] = b]
  BY DEF KernelState, WithEvent
<1>2. r.ev \in [Event -> ECB(V)]
  BY <1>1 DEF KernelState
<1> QED
  BY <1>1, <1>2 DEF KernelState, SameRunning, SameNesting, WithEvent

\* The ready list is replaced.
WithRdy(k, R) == [k EXCEPT !.Rdy = R]
\* The same of the ready list.
LEMMA SetRdy ==
    ASSUME NEW V, NEW k \in KernelState(V), NEW R \in SUBSET Prios
    PROVE  LET r == WithRdy(k, R)
           IN  /\ r \in KernelState(V)
               /\ r.Rdy = R
               /\ r.tcb = k.tcb /\ r.PrioTbl = k.PrioTbl /\ r.ev = k.ev /\ SameRunning(r, k)
  BY DEF KernelState, SameRunning, SameNesting, WithRdy

\* An entry of the priority table is replaced.
WithPrio(k, p, x) == [k EXCEPT !.PrioTbl[p] = x]
\* The same of the priority table.
LEMMA SetPrio ==
    ASSUME NEW V, NEW k \in KernelState(V), NEW p \in Prios, NEW x \in Task \cup {None, Reserved}
    PROVE  LET r == WithPrio(k, p, x)
           IN  /\ r \in KernelState(V)
               /\ r.PrioTbl = [k.PrioTbl EXCEPT ![p] = x]
               /\ r.tcb = k.tcb /\ r.Rdy = k.Rdy /\ r.ev = k.ev /\ SameRunning(r, k)
<1> DEFINE r == WithPrio(k, p, x)
<1>1. r.PrioTbl = [k.PrioTbl EXCEPT ![p] = x]
  BY DEF KernelState, WithPrio
<1>2. r.PrioTbl \in [Prios -> Task \cup {None, Reserved}]
  BY <1>1 DEF KernelState
<1> QED
  BY <1>1, <1>2 DEF KernelState, SameRunning, SameNesting, WithPrio

\* A task is put into the ready list.
LEMMA ReadyFields ==
    ASSUME NEW V, NEW k \in KernelState(V), NEW t \in Task
    PROVE  LET r == Ready(k, t)
           IN  /\ r \in KernelState(V)
               /\ r.Rdy = k.Rdy \cup {k.tcb[t].Prio}
               /\ r.tcb = k.tcb /\ r.PrioTbl = k.PrioTbl /\ r.ev = k.ev /\ SameRunning(r, k)
<1> DEFINE r == Ready(k, t)
<1>1. k.tcb[t].Prio \in Prios /\ k.Rdy \in SUBSET Prios
  BY DEF KernelState, TCB
<1>2. r = WithRdy(k, k.Rdy \cup {k.tcb[t].Prio})
  BY DEF Ready, KernelState, WithRdy
<1> QED
  BY <1>1, <1>2, SetRdy

\* A task is taken out of it.
LEMMA NotReadyFields ==
    ASSUME NEW V, NEW k \in KernelState(V), NEW t \in Task
    PROVE  LET r == NotReady(k, t)
           IN  /\ r \in KernelState(V)
               /\ r.Rdy = k.Rdy \ {k.tcb[t].Prio}
               /\ r.tcb = k.tcb /\ r.PrioTbl = k.PrioTbl /\ r.ev = k.ev /\ SameRunning(r, k)
<1> DEFINE r == NotReady(k, t)
<1>1. k.Rdy \in SUBSET Prios
  BY DEF KernelState
<1>2. r = WithRdy(k, k.Rdy \ {k.tcb[t].Prio})
  BY DEF NotReady, KernelState, WithRdy
<1> QED
  BY <1>1, <1>2, SetRdy

\* The bit of a task whose wait is over, suspended or not.
LEMMA ReadyUnlessSuspendedFields ==
    ASSUME NEW V, NEW k \in KernelState(V), NEW t \in Task
    PROVE  LET r == ReadyUnlessSuspended(k, t)
           IN  /\ r \in KernelState(V)
               /\ "SUSPEND" \in k.tcb[t].Stat => r.Rdy = k.Rdy
               /\ "SUSPEND" \notin k.tcb[t].Stat => r.Rdy = k.Rdy \cup {k.tcb[t].Prio}
               /\ r.tcb = k.tcb /\ r.PrioTbl = k.PrioTbl /\ r.ev = k.ev /\ SameRunning(r, k)
<1> DEFINE r == ReadyUnlessSuspended(k, t)
<1>1. CASE "SUSPEND" \in k.tcb[t].Stat
  BY <1>1 DEF ReadyUnlessSuspended, SameRunning, SameNesting
<1>2. CASE "SUSPEND" \notin k.tcb[t].Stat
  BY <1>2, ReadyFields DEF ReadyUnlessSuspended
<1> QED
  BY <1>1, <1>2

\* A task's control block is replaced and its bit cleared, or set.
LEMMA HoldFields ==
    ASSUME NEW V, NEW k \in KernelState(V), NEW t \in Task, NEW b \in TCB(V),
           b.Prio = k.tcb[t].Prio
    PROVE  LET r == NotReady(WithTcb(k, t, b), t)
           IN  /\ r \in KernelState(V)
               /\ r.tcb = [k.tcb EXCEPT ![t] = b] /\ r.Rdy = k.Rdy \ {k.tcb[t].Prio}
               /\ r.PrioTbl = k.PrioTbl /\ r.ev = k.ev /\ SameRunning(r, k)
<1> DEFINE k1 == WithTcb(k, t, b)
           r == NotReady(k1, t)
<1>1. /\ k1 \in KernelState(V) /\ k1.tcb = [k.tcb EXCEPT ![t] = b]
      /\ k1.PrioTbl = k.PrioTbl /\ k1.Rdy = k.Rdy /\ k1.ev = k.ev /\ SameRunning(k1, k)
  BY SetTcb
<1> HIDE DEF k1
<1>2. k1.tcb[t].Prio = k.tcb[t].Prio
  BY <1>1 DEF KernelState
<1>3. /\ r \in KernelState(V) /\ r.Rdy = k1.Rdy \ {k1.tcb[t].Prio}
      /\ r.tcb = k1.tcb /\ r.PrioTbl = k1.PrioTbl /\ r.ev = k1.ev /\ SameRunning(r, k1)
  <2>1. k1 \in KernelState(V)
    BY <1>1
  <2> QED
    BY <2>1, NotReadyFields
<1>4. SameRunning(r, k)
  BY <1>1, <1>3 DEF SameRunning, SameNesting
<1> QED
  BY <1>1, <1>2, <1>3, <1>4 DEF k1

\* A task changes and is put into the ready list, if it is not suspended.
LEMMA FreeFields ==
    ASSUME NEW V, NEW k \in KernelState(V), NEW t \in Task, NEW b \in TCB(V),
           b.Prio = k.tcb[t].Prio
    PROVE  LET r == Ready(WithTcb(k, t, b), t)
           IN  /\ r \in KernelState(V)
               /\ r.tcb = [k.tcb EXCEPT ![t] = b] /\ r.Rdy = k.Rdy \cup {k.tcb[t].Prio}
               /\ r.PrioTbl = k.PrioTbl /\ r.ev = k.ev /\ SameRunning(r, k)
<1> DEFINE k1 == WithTcb(k, t, b)
           r == Ready(k1, t)
<1>1. /\ k1 \in KernelState(V) /\ k1.tcb = [k.tcb EXCEPT ![t] = b]
      /\ k1.PrioTbl = k.PrioTbl /\ k1.Rdy = k.Rdy /\ k1.ev = k.ev /\ SameRunning(k1, k)
  BY SetTcb
<1> HIDE DEF k1
<1>2. k1.tcb[t].Prio = k.tcb[t].Prio
  BY <1>1 DEF KernelState
<1>3. /\ r \in KernelState(V) /\ r.Rdy = k1.Rdy \cup {k1.tcb[t].Prio}
      /\ r.tcb = k1.tcb /\ r.PrioTbl = k1.PrioTbl /\ r.ev = k1.ev /\ SameRunning(r, k1)
  <2>1. k1 \in KernelState(V)
    BY <1>1
  <2> QED
    BY <2>1, ReadyFields
<1>4. SameRunning(r, k)
  BY <1>1, <1>3 DEF SameRunning, SameNesting
<1> QED
  BY <1>1, <1>2, <1>3, <1>4 DEF k1

-----------------------------------------------------------------------------
(* The scheduler and the interrupt bracket.                                   *)

\* The scheduler changes which task runs, and nothing else; unless it is locked
\* or in an interrupt the most urgent ready task runs.
LEMMA SchedFields ==
    ASSUME NEW V, NEW k \in KernelState(V),
           k.PrioTbl[Highest(k.Rdy)] \in Task, Highest(k.Rdy) \in Prios
    PROVE  LET r == OS_Sched(k)
           IN  /\ r \in KernelState(V)
               /\ SameTables(r, k) /\ SameNesting(r, k)
               /\ ~MayPend(k) => r.Cur = k.Cur /\ r.PrioCur = k.PrioCur
               /\ MayPend(k) => /\ r.PrioCur = Highest(k.Rdy)
                                /\ r.Cur = IF r.PrioCur = k.PrioCur THEN k.Cur ELSE k.PrioTbl[r.PrioCur]
<1> DEFINE r == OS_Sched(k)
<1>1. CASE MayPend(k) /\ Highest(k.Rdy) # k.PrioCur
  <2>1. r = [k EXCEPT !.Cur = k.PrioTbl[Highest(k.Rdy)], !.PrioCur = Highest(k.Rdy)]
    BY <1>1 DEF OS_Sched, Switch, MayPend
  <2> QED
    BY <1>1, <2>1 DEF KernelState, SameTables, SameNesting
<1>2. CASE ~(MayPend(k) /\ Highest(k.Rdy) # k.PrioCur)
  <2>1. r = k
    BY <1>2 DEF OS_Sched, Switch, MayPend
  <2> QED
    BY <1>2, <2>1 DEF SameTables, SameNesting
<1> QED
  BY <1>1, <1>2

\* An interrupt begins.
LEMMA IntEnterFields ==
    ASSUME NEW V, NEW k \in KernelState(V)
    PROVE  LET r == OSIntEnter(k)
           IN  /\ r \in KernelState(V) /\ SameTables(r, k) /\ r.IntNesting = k.IntNesting + 1
               /\ r.LockNesting = k.LockNesting /\ r.Cur = k.Cur /\ r.PrioCur = k.PrioCur
  BY DEF KernelState, OSIntEnter, SameTables

-----------------------------------------------------------------------------
(* Wait lists.                                                                *)

\* A task leaves a wait list.
LEMMA TaskRemoveFields ==
    ASSUME NEW V, NEW k \in KernelState(V), NEW t \in Task, NEW e \in Event
    PROVE  LET r == OS_EventTaskRemove(k, t, e)
           IN  /\ r \in KernelState(V)
               /\ r.ev = [k.ev EXCEPT ![e] = [k.ev[e] EXCEPT !.Tbl = k.ev[e].Tbl \ {k.tcb[t].Prio}]]
               /\ r.tcb = k.tcb /\ r.PrioTbl = k.PrioTbl /\ r.Rdy = k.Rdy /\ SameRunning(r, k)
<1> DEFINE r == OS_EventTaskRemove(k, t, e)
           b == [k.ev[e] EXCEPT !.Tbl = k.ev[e].Tbl \ {k.tcb[t].Prio}]
<1>1. k.ev[e] \in ECB(V)
  BY DEF KernelState
<1>2. b \in ECB(V)
  BY <1>1 DEF ECB
<1>3. r = WithEvent(k, e, b)
  BY <1>1 DEF OS_EventTaskRemove, KernelState, ECB, WithEvent
<1> HIDE DEF b
<1>4. /\ r \in KernelState(V) /\ r.ev = [k.ev EXCEPT ![e] = b]
      /\ r.tcb = k.tcb /\ r.PrioTbl = k.PrioTbl /\ r.Rdy = k.Rdy /\ SameRunning(r, k)
  BY <1>2, <1>3, SetEvent
<1> QED
  BY <1>4 DEF b

\* What a post or an abort makes of the first waiter t.
Answered(b, msg, msk, pend_stat) ==
    [b EXCEPT !.Dly = 0, !.Msg = msg, !.Stat = @ \ {msk}, !.StatPend = pend_stat]

\* A control block that is answered is one.
LEMMA AnsweredType ==
    ASSUME NEW V, NEW b \in TCB(V), NEW msg \in V, NEW msk, NEW ps \in {"OK", "TO", "ABORT"}
    PROVE  LET r == Answered(b, msg, msk, ps)
           IN  /\ r \in TCB(V)
               /\ r.Prio = b.Prio /\ r.EventPtr = b.EventPtr
               /\ r.Stat = b.Stat \ {msk} /\ r.StatPend = ps /\ r.Dly = 0 /\ r.Msg = msg
  BY DEF TCB, Answered

\* The first waiter t is answered: its control block, the ready list, the wait list.
Answers(r, k, t, e, msg, msk, ps) ==
    /\ r.tcb = [k.tcb EXCEPT ![t] = Answered(k.tcb[t], msg, msk, ps)]
    /\ "SUSPEND" \in k.tcb[t].Stat \ {msk} => r.Rdy = k.Rdy
    /\ "SUSPEND" \notin k.tcb[t].Stat \ {msk} => r.Rdy = k.Rdy \cup {k.tcb[t].Prio}
    /\ r.ev = [k.ev EXCEPT ![e] = [k.ev[e] EXCEPT !.Tbl = k.ev[e].Tbl \ {k.tcb[t].Prio}]]
    /\ r.PrioTbl = k.PrioTbl /\ SameRunning(r, k)
\* OS_EventTaskRdy does that.
LEMMA TaskRdyAnswers ==
    ASSUME NEW V, NEW k \in KernelState(V), NEW e \in Event, NEW msg \in V,
           NEW msk, NEW ps \in {"OK", "TO", "ABORT"},
           NEW t \in Task, t = HighestWaiter(k, e)
    PROVE  /\ OS_EventTaskRdy(k, e, msg, msk, ps) \in KernelState(V)
           /\ Answers(OS_EventTaskRdy(k, e, msg, msk, ps), k, t, e, msg, msk, ps)
<1> DEFINE r == OS_EventTaskRdy(k, e, msg, msk, ps)
           b == Answered(k.tcb[t], msg, msk, ps)
           k1 == WithTcb(k, t, b)
           k2 == ReadyUnlessSuspended(k1, t)
<1>1. k.tcb[t] \in TCB(V)
  BY DEF KernelState
<1>2. b \in TCB(V) /\ b.Prio = k.tcb[t].Prio /\ b.Stat = k.tcb[t].Stat \ {msk}
  BY <1>1, AnsweredType
<1>3. r = OS_EventTaskRemove(k2, t, e)
  BY DEF OS_EventTaskRdy, Answered, WithTcb
<1> HIDE DEF b, k1, k2
<1>4. /\ k1 \in KernelState(V) /\ k1.tcb = [k.tcb EXCEPT ![t] = b]
      /\ k1.PrioTbl = k.PrioTbl /\ k1.Rdy = k.Rdy /\ k1.ev = k.ev /\ SameRunning(k1, k)
  BY <1>2, SetTcb DEF k1
<1>5. k1.tcb[t] = b
  BY <1>4 DEF KernelState
<1>6. /\ k2 \in KernelState(V)
      /\ "SUSPEND" \in b.Stat => k2.Rdy = k.Rdy
      /\ "SUSPEND" \notin b.Stat => k2.Rdy = k.Rdy \cup {b.Prio}
      /\ k2.tcb = k1.tcb /\ k2.PrioTbl = k.PrioTbl /\ k2.ev = k.ev /\ SameRunning(k2, k1)
  <2>0. k1 \in KernelState(V)
    BY <1>4
  <2>1. k2 = ReadyUnlessSuspended(k1, t)
    BY DEF k2
  <2>2. /\ k2 \in KernelState(V)
        /\ "SUSPEND" \in k1.tcb[t].Stat => k2.Rdy = k1.Rdy
        /\ "SUSPEND" \notin k1.tcb[t].Stat => k2.Rdy = k1.Rdy \cup {k1.tcb[t].Prio}
        /\ k2.tcb = k1.tcb /\ k2.PrioTbl = k1.PrioTbl /\ k2.ev = k1.ev /\ SameRunning(k2, k1)
    BY <2>0, <2>1, ReadyUnlessSuspendedFields
  <2> QED
    BY <1>4, <1>5, <2>2
<1>7. /\ r \in KernelState(V)
      /\ r.ev = [k2.ev EXCEPT ![e] = [k2.ev[e] EXCEPT !.Tbl = k2.ev[e].Tbl \ {k2.tcb[t].Prio}]]
      /\ r.tcb = k2.tcb /\ r.PrioTbl = k2.PrioTbl /\ r.Rdy = k2.Rdy /\ SameRunning(r, k2)
  BY <1>3, <1>6, TaskRemoveFields
<1>8. k2.tcb[t].Prio = k.tcb[t].Prio
  BY <1>2, <1>5, <1>6
<1>9. SameRunning(r, k)
  BY <1>4, <1>6, <1>7 DEF SameRunning, SameNesting
<1>10. r.tcb = [k.tcb EXCEPT ![t] = b] /\ r.PrioTbl = k.PrioTbl
  BY <1>4, <1>6, <1>7
<1>11. /\ "SUSPEND" \in k.tcb[t].Stat \ {msk} => r.Rdy = k.Rdy
       /\ "SUSPEND" \notin k.tcb[t].Stat \ {msk} => r.Rdy = k.Rdy \cup {k.tcb[t].Prio}
  BY <1>2, <1>6, <1>7
<1>12. r.ev = [k.ev EXCEPT ![e] = [k.ev[e] EXCEPT !.Tbl = k.ev[e].Tbl \ {k.tcb[t].Prio}]]
  BY <1>6, <1>7, <1>8
<1> HIDE DEF r
<1>13. Answers(r, k, t, e, msg, msk, ps)
  BY <1>9, <1>10, <1>11, <1>12 DEF b, Answers
<1> QED
  BY <1>7, <1>13 DEF r

\* The same, field by field.
LEMMA TaskRdyFields ==
    ASSUME NEW V, NEW k \in KernelState(V), NEW e \in Event, NEW msg \in V,
           NEW msk, NEW ps \in {"OK", "TO", "ABORT"},
           NEW t \in Task, t = HighestWaiter(k, e)
    PROVE  LET r == OS_EventTaskRdy(k, e, msg, msk, ps)
           IN  /\ r \in KernelState(V)
               /\ r.tcb = [k.tcb EXCEPT ![t] = Answered(k.tcb[t], msg, msk, ps)]
               /\ "SUSPEND" \in k.tcb[t].Stat \ {msk} => r.Rdy = k.Rdy
               /\ "SUSPEND" \notin k.tcb[t].Stat \ {msk} => r.Rdy = k.Rdy \cup {k.tcb[t].Prio}
               /\ r.ev = [k.ev EXCEPT ![e] = [k.ev[e] EXCEPT !.Tbl = k.ev[e].Tbl \ {k.tcb[t].Prio}]]
               /\ r.PrioTbl = k.PrioTbl /\ SameRunning(r, k)
<1> DEFINE r == OS_EventTaskRdy(k, e, msg, msk, ps)
<1>1. r \in KernelState(V) /\ Answers(r, k, t, e, msg, msk, ps)
  BY TaskRdyAnswers
<1> HIDE DEF r
<1>2. /\ r.tcb = [k.tcb EXCEPT ![t] = Answered(k.tcb[t], msg, msk, ps)]
      /\ "SUSPEND" \in k.tcb[t].Stat \ {msk} => r.Rdy = k.Rdy
      /\ "SUSPEND" \notin k.tcb[t].Stat \ {msk} => r.Rdy = k.Rdy \cup {k.tcb[t].Prio}
      /\ r.ev = [k.ev EXCEPT ![e] = [k.ev[e] EXCEPT !.Tbl = k.ev[e].Tbl \ {k.tcb[t].Prio}]]
      /\ r.PrioTbl = k.PrioTbl /\ SameRunning(r, k)
  BY <1>1 DEF Answers
<1> QED
  BY <1>1, <1>2 DEF r

\* A pend that finds nothing, up to OS_Sched().
Asleep(k, e, msk, n) ==
    OS_EventTaskWait([k EXCEPT !.tcb[k.Cur] = [k.tcb[k.Cur] EXCEPT !.Stat = @ \cup {msk},
                                                   !.StatPend = "OK", !.Dly = n]], e)

\* What it makes of the running task's control block.
Waiter(b, e, msk, n) ==
    [b EXCEPT !.Stat = @ \cup {msk}, !.StatPend = "OK", !.Dly = n, !.EventPtr = e]

\* A control block put to sleep is one.
LEMMA WaiterType ==
    ASSUME NEW V, NEW b \in TCB(V), NEW e \in Event, NEW msk \in Stats, NEW n \in Nat
    PROVE  LET r == Waiter(b, e, msk, n)
           IN  /\ r \in TCB(V)
               /\ r.Prio = b.Prio /\ r.EventPtr = e /\ r.Stat = b.Stat \cup {msk}
               /\ r.StatPend = "OK" /\ r.Dly = n /\ r.Msg = b.Msg
  BY DEF TCB, Waiter

\* The running task sleeps: its control block, the ready list, the wait list.
LEMMA AsleepFields ==
    ASSUME NEW V, NEW k \in KernelState(V), NEW e \in Event, NEW msk \in Stats, NEW n \in Nat
    PROVE  LET r == Asleep(k, e, msk, n)
               t == k.Cur
           IN  /\ r \in KernelState(V)
               /\ r.tcb = [k.tcb EXCEPT ![t] = Waiter(k.tcb[t], e, msk, n)]
               /\ r.Rdy = k.Rdy \ {k.tcb[t].Prio}
               /\ r.ev = [k.ev EXCEPT ![e] = [k.ev[e] EXCEPT !.Tbl = k.ev[e].Tbl \cup {k.tcb[t].Prio}]]
               /\ r.PrioTbl = k.PrioTbl /\ SameRunning(r, k)
<1> DEFINE r == Asleep(k, e, msk, n)
           t == k.Cur
           b0 == [k.tcb[t] EXCEPT !.Stat = @ \cup {msk}, !.StatPend = "OK", !.Dly = n]
           b == [b0 EXCEPT !.EventPtr = e]
           c == [k.ev[e] EXCEPT !.Tbl = k.ev[e].Tbl \cup {b.Prio}]
           k0 == WithTcb(k, t, b0)
           k1 == WithTcb(k0, t, b)
           k2 == WithEvent(k1, e, c)
<1>1. k.tcb[t] \in TCB(V) /\ k.ev[e] \in ECB(V) /\ t \in Task
  BY DEF KernelState
<1>2. b0 \in TCB(V) /\ b \in TCB(V) /\ b0.Prio = k.tcb[t].Prio /\ b.Prio = b0.Prio
  BY <1>1 DEF TCB
<1>3. c \in ECB(V) /\ b.Prio = k.tcb[t].Prio
  BY <1>1, <1>2 DEF ECB, TCB
<1>4. b = Waiter(k.tcb[t], e, msk, n)
  BY DEF Waiter
<1>5. Asleep(k, e, msk, n) = OS_EventTaskWait(k0, e)
  BY DEF Asleep, WithTcb
<1> HIDE DEF b0
<1>6. /\ k0 \in KernelState(V) /\ k0.tcb = [k.tcb EXCEPT ![t] = b0]
      /\ k0.PrioTbl = k.PrioTbl /\ k0.Rdy = k.Rdy /\ k0.ev = k.ev /\ SameRunning(k0, k)
  BY <1>1, <1>2, SetTcb
<1>7. k0.tcb[t] = b0 /\ k0.Cur = t
  BY <1>1, <1>6 DEF KernelState, SameRunning
<1> HIDE DEF k0
<1>8. [k0 EXCEPT !.tcb[t].EventPtr = e] = k1
  BY <1>1, <1>6, <1>7 DEF WithTcb, KernelState
<1> HIDE DEF k1
<1>9. /\ k1 \in KernelState(V) /\ k1.tcb = [k0.tcb EXCEPT ![t] = b]
      /\ k1.PrioTbl = k0.PrioTbl /\ k1.Rdy = k0.Rdy /\ k1.ev = k0.ev /\ SameRunning(k1, k0)
  <2> HIDE DEF b
  <2>1. k0 \in KernelState(V)
    BY <1>6
  <2> QED
    BY <1>1, <1>2, <2>1, SetTcb DEF k1
<1>10. r = NotReady([[k0 EXCEPT !.tcb[t].EventPtr = e] EXCEPT !.ev[e].Tbl = @ \cup {k0.tcb[t].Prio}], t)
  <2>1. [k0 EXCEPT !.tcb[t].EventPtr = e, !.ev[e].Tbl = @ \cup {k0.tcb[t].Prio}]
          = [[k0 EXCEPT !.tcb[t].EventPtr = e] EXCEPT !.ev[e].Tbl = @ \cup {k0.tcb[t].Prio}]
    OBVIOUS
  <2> QED
    BY <1>5, <1>7, <2>1 DEF OS_EventTaskWait
<1>11. [k1 EXCEPT !.ev[e].Tbl = @ \cup {k0.tcb[t].Prio}] = k2
  BY <1>1, <1>2, <1>6, <1>7, <1>9 DEF WithEvent, KernelState, ECB
<1>12. r = NotReady(k2, t)
  BY <1>8, <1>10, <1>11
<1> HIDE DEF b, c, k2, r
<1>13. /\ k2 \in KernelState(V) /\ k2.ev = [k1.ev EXCEPT ![e] = c]
      /\ k2.tcb = k1.tcb /\ k2.PrioTbl = k1.PrioTbl /\ k2.Rdy = k1.Rdy /\ SameRunning(k2, k1)
  <2>1. k1 \in KernelState(V)
    BY <1>9
  <2> QED
    BY <1>3, <2>1, SetEvent DEF k2
<1>14. /\ r \in KernelState(V) /\ r.Rdy = k2.Rdy \ {k2.tcb[t].Prio}
      /\ r.tcb = k2.tcb /\ r.PrioTbl = k2.PrioTbl /\ r.ev = k2.ev /\ SameRunning(r, k2)
  <2>1. k2 \in KernelState(V)
    BY <1>13
  <2> QED
    BY <1>1, <1>12, <2>1, NotReadyFields
<1>15. SameRunning(r, k)
  BY <1>6, <1>9, <1>13, <1>14 DEF SameRunning, SameNesting
<1>16. r.tcb = [k.tcb EXCEPT ![t] = b] /\ r.PrioTbl = k.PrioTbl
  BY <1>1, <1>6, <1>9, <1>13, <1>14 DEF KernelState
<1>17. r.Rdy = k.Rdy \ {k.tcb[t].Prio}
  <2>1. k2.tcb[t] = b
    BY <1>1, <1>6, <1>9, <1>13 DEF KernelState
  <2> QED
    BY <1>3, <1>6, <1>9, <1>13, <1>14, <2>1
<1>18. r.ev = [k.ev EXCEPT ![e] = c]
  BY <1>6, <1>9, <1>13, <1>14
<1>19. c = [k.ev[e] EXCEPT !.Tbl = k.ev[e].Tbl \cup {k.tcb[t].Prio}]
  BY <1>3 DEF c
<1> QED
  BY <1>4, <1>14, <1>15, <1>16, <1>17, <1>18, <1>19 DEF r

\* The end of a pend.
Returned(b) == [b EXCEPT !.Stat = {}, !.StatPend = "OK", !.EventPtr = None, !.Msg = None]

\* The end of a pend: the control block, and the wait list after a time-out.
LEMMA PendTailFields ==
    ASSUME NEW V, None \in V, NEW k \in KernelState(V), InPend(k, k.Cur)
    PROVE  LET r == PendTail(k)
               t == k.Cur
               e == k.tcb[t].EventPtr
           IN  /\ r \in KernelState(V)
               /\ r.tcb = [k.tcb EXCEPT ![t] = Returned(k.tcb[t])]
               /\ k.tcb[t].StatPend = "TO" =>
                    r.ev = [k.ev EXCEPT ![e] = [k.ev[e] EXCEPT !.Tbl = k.ev[e].Tbl \ {k.tcb[t].Prio}]]
               /\ k.tcb[t].StatPend # "TO" => r.ev = k.ev
               /\ r.Rdy = k.Rdy /\ r.PrioTbl = k.PrioTbl /\ SameRunning(r, k)
<1> DEFINE r == PendTail(k)
           t == k.Cur
           e == k.tcb[t].EventPtr
           b == Returned(k.tcb[t])
           k1 == IF k.tcb[t].StatPend = "TO" THEN OS_EventTaskRemove(k, t, e) ELSE k
<1>1. k.tcb[t] \in TCB(V) /\ t \in Task
  BY DEF KernelState
<1>2. e \in Event /\ b \in TCB(V)
  BY <1>1 DEF TCB, InPend, Returned
<1>3. r = WithTcb(k1, t, b)
  BY DEF PendTail, WithTcb, Returned
<1>4. /\ k1 \in KernelState(V) /\ k1.tcb = k.tcb
      /\ k.tcb[t].StatPend = "TO" =>
            k1.ev = [k.ev EXCEPT ![e] = [k.ev[e] EXCEPT !.Tbl = k.ev[e].Tbl \ {k.tcb[t].Prio}]]
      /\ k.tcb[t].StatPend # "TO" => k1.ev = k.ev
      /\ k1.Rdy = k.Rdy /\ k1.PrioTbl = k.PrioTbl /\ SameRunning(k1, k)
  <2>1. CASE k.tcb[t].StatPend = "TO"
    <3>1. k1 = OS_EventTaskRemove(k, t, e)
      BY <2>1
    <3>0. e \in Event /\ t \in Task
      BY <1>1, <1>2
    <3> HIDE DEF k1, e, t
    <3>2. /\ k1 \in KernelState(V)
          /\ k1.ev = [k.ev EXCEPT ![e] = [k.ev[e] EXCEPT !.Tbl = k.ev[e].Tbl \ {k.tcb[t].Prio}]]
          /\ k1.tcb = k.tcb /\ k1.PrioTbl = k.PrioTbl /\ k1.Rdy = k.Rdy /\ SameRunning(k1, k)
      BY <3>0, <3>1, TaskRemoveFields
    <3> QED
      BY <2>1, <3>2 DEF e, t
  <2>2. CASE k.tcb[t].StatPend # "TO"
    BY <2>2 DEF SameRunning, SameNesting
  <2> QED
    BY <2>1, <2>2
<1> HIDE DEF b, k1, r
<1>5. /\ r \in KernelState(V) /\ r.tcb = [k1.tcb EXCEPT ![t] = b]
      /\ r.PrioTbl = k1.PrioTbl /\ r.Rdy = k1.Rdy /\ r.ev = k1.ev /\ SameRunning(r, k1)
  <2>1. k1 \in KernelState(V)
    BY <1>4
  <2> QED
    BY <1>1, <1>2, <1>3, <2>1, SetTcb
<1>6. SameRunning(r, k)
  BY <1>4, <1>5 DEF SameRunning, SameNesting
<1> QED
  BY <1>4, <1>5, <1>6 DEF b, r

-----------------------------------------------------------------------------
(* Time.                                                                      *)

\* A delay that has run out.
Expired(b) == [b EXCEPT !.Dly = 0, !.Stat = @ \ PendAny,
                        !.StatPend = IF b.Stat \cap PendAny # {} THEN "TO" ELSE "OK"]

\* A control block whose delay ran out is one.
LEMMA ExpiredType ==
    ASSUME NEW V, NEW b \in TCB(V)
    PROVE  LET r == Expired(b)
           IN  /\ r \in TCB(V)
               /\ r.Prio = b.Prio /\ r.EventPtr = b.EventPtr /\ r.Stat = b.Stat \ PendAny
               /\ b.Stat \cap PendAny # {} => r.StatPend = "TO"
               /\ b.Stat \cap PendAny = {} => r.StatPend = "OK"
               /\ r.Dly = 0 /\ r.Msg = b.Msg
<1>1. CASE b.Stat \cap PendAny # {}
  BY <1>1 DEF TCB, Expired
<1>2. CASE b.Stat \cap PendAny = {}
  BY <1>2 DEF TCB, Expired
<1> QED
  BY <1>1, <1>2

\* A delay runs out: the control block and the ready list.
LEMMA DelayOverFields ==
    ASSUME NEW V, NEW k \in KernelState(V), NEW t \in Task
    PROVE  LET r == DelayOver(k, t)
           IN  /\ r \in KernelState(V)
               /\ r.tcb = [k.tcb EXCEPT ![t] = Expired(k.tcb[t])]
               /\ "SUSPEND" \in k.tcb[t].Stat => r.Rdy = k.Rdy
               /\ "SUSPEND" \notin k.tcb[t].Stat => r.Rdy = k.Rdy \cup {k.tcb[t].Prio}
               /\ r.PrioTbl = k.PrioTbl /\ r.ev = k.ev /\ SameRunning(r, k)
<1> DEFINE r == DelayOver(k, t)
           b == Expired(k.tcb[t])
           k1 == WithTcb(k, t, b)
<1>1. k.tcb[t] \in TCB(V)
  BY DEF KernelState
<1>2. b \in TCB(V) /\ b.Prio = k.tcb[t].Prio /\ b.Stat = k.tcb[t].Stat \ PendAny
  BY <1>1, ExpiredType
<1>3. r = ReadyUnlessSuspended(k1, t)
  BY DEF DelayOver, WithTcb, Expired
<1> HIDE DEF b, k1, r
<1>4. /\ k1 \in KernelState(V) /\ k1.tcb = [k.tcb EXCEPT ![t] = b]
      /\ k1.PrioTbl = k.PrioTbl /\ k1.Rdy = k.Rdy /\ k1.ev = k.ev /\ SameRunning(k1, k)
  BY <1>2, SetTcb DEF k1
<1>5. k1.tcb[t] = b
  BY <1>4 DEF KernelState
<1>6. k1 \in KernelState(V)
  BY <1>4
<1>7. /\ r \in KernelState(V)
      /\ "SUSPEND" \in k1.tcb[t].Stat => r.Rdy = k1.Rdy
      /\ "SUSPEND" \notin k1.tcb[t].Stat => r.Rdy = k1.Rdy \cup {k1.tcb[t].Prio}
      /\ r.tcb = k1.tcb /\ r.PrioTbl = k1.PrioTbl /\ r.ev = k1.ev /\ SameRunning(r, k1)
  BY <1>3, <1>6, ReadyUnlessSuspendedFields
<1>8. SameRunning(r, k)
  BY <1>4, <1>7 DEF SameRunning, SameNesting
<1>9. "SUSPEND" \in b.Stat <=> "SUSPEND" \in k.tcb[t].Stat
  BY <1>2 DEF PendAny
<1> QED
  BY <1>2, <1>4, <1>5, <1>7, <1>8, <1>9 DEF b, r

\* What a tick makes of a task's control block.
Ticked(b) == IF b.Dly = 1 THEN Expired(b) ELSE IF b.Dly > 1 THEN [b EXCEPT !.Dly = @ - 1] ELSE b

\* What a tick makes of a control block.
LEMMA TickedType ==
    ASSUME NEW V, NEW b \in TCB(V)
    PROVE  LET r == Ticked(b)
           IN  /\ r \in TCB(V)
               /\ r.Prio = b.Prio /\ r.EventPtr = b.EventPtr /\ r.Msg = b.Msg
               /\ b.Dly # 1 => r.Stat = b.Stat /\ r.StatPend = b.StatPend
               /\ b.Dly = 1 => r.Stat = b.Stat \ PendAny
               /\ b.Dly = 1 /\ b.Stat \cap PendAny # {} => r.StatPend = "TO"
               /\ b.Dly = 1 /\ b.Stat \cap PendAny = {} => r.StatPend = "OK"
               /\ r.Dly = 0 <=> b.Dly \in {0, 1}
<1>0. b.Dly \in Nat
  BY DEF TCB
<1>1. CASE b.Dly = 1
  BY <1>1, ExpiredType DEF Ticked
<1>2. CASE b.Dly > 1
  <2>1. Ticked(b) = [b EXCEPT !.Dly = @ - 1] /\ b.Dly - 1 \in Nat \ {0}
    BY <1>0, <1>2 DEF Ticked
  <2> QED
    BY <1>2, <2>1 DEF TCB
<1>3. CASE b.Dly = 0
  BY <1>3 DEF TCB, Ticked
<1> QED
  BY <1>0, <1>1, <1>2, <1>3

\* What a tick makes of the kernel.
LEMMA TickFields ==
    ASSUME NEW V, NEW k \in KernelState(V)
    PROVE  LET r == OSTimeTick(k)
           IN  /\ r \in KernelState(V)
               /\ r.tcb = [t \in Task |-> Ticked(k.tcb[t])]
               /\ r.Rdy = k.Rdy \cup {k.tcb[t].Prio : t \in
                     {u \in Task : k.tcb[u].Dly = 1 /\ "SUSPEND" \notin k.tcb[u].Stat}}
               /\ r.PrioTbl = k.PrioTbl /\ r.ev = k.ev /\ SameRunning(r, k)
<1> DEFINE r == OSTimeTick(k)
           over == {t \in Task : k.tcb[t].Dly = 1}
           Tick(t) == IF t \in over THEN DelayOver(k, t).tcb[t]
                      ELSE IF k.tcb[t].Dly > 1 THEN [k.tcb[t] EXCEPT !.Dly = @ - 1]
                      ELSE k.tcb[t]
           f == [t \in Task |-> Tick(t)]
           R == k.Rdy \cup {k.tcb[t].Prio : t \in {u \in over : "SUSPEND" \notin k.tcb[u].Stat}}
<1>1. r = [k EXCEPT !.tcb = f, !.Rdy = R]
  BY DEF OSTimeTick, KernelState
<1>2. ASSUME NEW t \in Task PROVE Tick(t) = Ticked(k.tcb[t]) /\ Ticked(k.tcb[t]) \in TCB(V)
  <2>1. k.tcb[t] \in TCB(V) /\ k.tcb \in [Task -> TCB(V)]
    BY DEF KernelState
  <2>2. Ticked(k.tcb[t]) \in TCB(V)
    BY <2>1, TickedType
  <2>3. CASE t \in over
    <3>1. DelayOver(k, t).tcb = [k.tcb EXCEPT ![t] = Expired(k.tcb[t])]
      BY DelayOverFields
    <3>2. DelayOver(k, t).tcb[t] = Expired(k.tcb[t])
      BY <2>1, <3>1
    <3> QED
      BY <2>2, <2>3, <3>2 DEF Ticked
  <2>4. CASE t \notin over
    BY <2>2, <2>4 DEF Ticked
  <2> QED
    BY <2>3, <2>4
<1> HIDE DEF Tick
<1>3. f = [t \in Task |-> Ticked(k.tcb[t])] /\ f \in [Task -> TCB(V)]
  BY <1>2
<1>4. R \in SUBSET Prios
  <2>1. \A t \in Task : k.tcb[t].Prio \in Prios
    BY DEF KernelState, TCB
  <2> QED
    BY <2>1 DEF KernelState
<1>5. R = k.Rdy \cup {k.tcb[t].Prio : t \in
                     {u \in Task : k.tcb[u].Dly = 1 /\ "SUSPEND" \notin k.tcb[u].Stat}}
  OBVIOUS
<1> HIDE DEF f, R, r
<1>6. r.tcb = f /\ r.Rdy = R /\ r.PrioTbl = k.PrioTbl /\ r.ev = k.ev /\ SameRunning(r, k)
      /\ r \in KernelState(V)
  BY <1>1, <1>3, <1>4 DEF KernelState, SameRunning, SameNesting
<1> QED
  BY <1>3, <1>5, <1>6 DEF r
================================================================================
