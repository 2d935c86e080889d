--------------------------------- MODULE Net_proofs ---------------------------------
(* The network side: that a call of the client is made once and answered once, *)
(* that what it reads is a stream, and how it may come to a stop; for every     *)
(* number of segments, packets and blocks, sizes of the mailboxes from 2 up,    *)
(* intervals of the timers and time-outs.                                       *)
EXTENDS Net, OSCore_proofs, SequenceTheorems, FiniteSetTheorems


-----------------------------------------------------------------------------
(* The kernel, as far as two tasks that may sleep can change it.              *)

SegOrEOF == 1 .. Segments \cup {EOF}
Queues == [q : Seq(Msgs \cup SegOrEOF), size : Nat]
Ptrs == Msgs \cup SegOrEOF \cup {None} \cup Queues

PrioOf(t) == IF t = Tcpip THEN 1 ELSE IF t = Client THEN 2 ELSE 3
Kind(e) == IF e = "op_completed" THEN "SEM" ELSE "Q"

\* A control block whose task runs, sleeps, or was woken, and its bit in a wait list:
\* it stays there when the wait has timed out.
BlockOk(b) ==
    /\ b.Stat = {} => b.Dly = 0
    /\ b.Stat # {} => b.Stat = {Kind(b.EventPtr)} /\ b.StatPend = "OK"
    /\ b.StatPend \in {"OK", "TO"}
    /\ b.EventPtr = None => b.Stat = {} /\ b.StatPend = "OK" /\ b.Msg = None
Listed(b) == b.Stat # {} \/ b.StatPend = "TO"
Unanswered(b) == Listed(b) => b.Msg = None

\* The tables agree.
Blocks3(k) ==
    /\ \A t \in Task : k.tcb[t].Prio = PrioOf(t) /\ k.PrioTbl[PrioOf(t)] = t
    /\ \A t \in Task : BlockOk(k.tcb[t]) /\ Unanswered(k.tcb[t])
    /\ k.tcb[Rest].EventPtr = None
ReadyOnes(k) == /\ 0 \notin k.Rdy
                /\ \A t \in Task : PrioOf(t) \in k.Rdy <=> k.tcb[t].Stat = {}
ListedOnes(k) ==
    \A e \in Event : /\ 0 \notin k.ev[e].Tbl
                     /\ \A t \in Task : PrioOf(t) \in k.ev[e].Tbl <=>
                                            k.tcb[t].EventPtr = e /\ Listed(k.tcb[t])
Tables(k) ==
    /\ k \in KernelState(Ptrs) /\ MayPend(k)
    /\ Blocks3(k) /\ ReadyOnes(k) /\ ListedOnes(k)
    /\ k.PrioCur = PrioOf(k.Cur)

\* The most urgent task that is ready runs.
Urgent(k) == IF k.tcb[Tcpip].Stat = {} THEN Tcpip
             ELSE IF k.tcb[Client].Stat = {} THEN Client ELSE Rest
Steady(k) == Tables(k) /\ k.Cur = Urgent(k)

-----------------------------------------------------------------------------
(* The invariant.                                                             *)

TB == os.tcb[Tcpip]
CB == os.tcb[Client]
MailBox == os.ev["mbox"].Ptr
Mail == MailBox.q
Box == os.ev["recvmbox"].Ptr
Received == Box.q
Tokens == os.ev["op_completed"].Cnt
InCall == cli \in {"call", "await", "asleep", "answered"}
Sent == cli = "call" \/ TB.Msg = "API" \/ msg = "API"

\* The type of what is not the kernel's, nor the timers'.
ConnType == [last_err : Fatal \cup {"OK", "RTE", "VAL", "TIMEOUT"},
             state : {"NONE", "CONNECT", "WRITE", "CLOSE"},
             recvmbox : BOOLEAN, current_msg : BOOLEAN,
             pcb : {"NULL", "CLOSED", "SYN_SENT", "ESTABLISHED"}, fin : BOOLEAN,
             snd : Snd, rcvd : 0 .. Segments, read : 0 .. Segments]
ApiType == [fn : Calls, err : Fatal \cup {"OK", "RTE", "VAL"}]
Typed ==
    /\ thr \in {"fetch", "wait", "handle", "timer", "drain"}
    /\ inpkts \in 0 .. MEMP_NUM_TCPIP_MSG_INPKT
    /\ conn \in ConnType /\ api \in ApiType
    /\ blocks \in 0 .. Blocks /\ lost \in BOOLEAN
    /\ cli \in {"alloc", "call", "await", "asleep", "answered", "loop", "recv", "fetch", "fetching"}
    /\ buf \in 0 .. Segments \cup {EOF}

\* Where the two tasks sleep, and what they are woken with.
Where ==
    /\ TB.EventPtr = (IF thr = "wait" THEN "mbox" ELSE IF thr = "drain" THEN "recvmbox" ELSE None)
    /\ CB.EventPtr = (IF cli = "asleep" THEN "op_completed"
                      ELSE IF cli = "fetching" THEN "recvmbox" ELSE None)
    /\ thr = "drain" => Listed(TB)
    /\ thr = "wait" /\ ~Listed(TB) => TB.Msg \in Msgs
    /\ cli = "asleep" => CB.Dly = 0 /\ CB.StatPend = "OK" /\ CB.Msg = None
    /\ cli = "fetching" /\ ~Listed(CB) => CB.Msg \in SegOrEOF
    /\ msg \in (IF thr = "timer" THEN Handlers ELSE IF thr = "handle" THEN Msgs ELSE {None})

\* Packets, each with its block, and no call among them.
Packed ==
    /\ MailBox = [q |-> Mail, size |-> TCPIP_MBOX_SIZE] /\ Mail \in Seq(Packets)
    /\ thr = "wait" => Mail = <<>>
    /\ inpkts = Len(Mail) + Count(TB.Msg \in Packets) + Count(msg \in Packets)
    /\ CB.EventPtr = None => inpkts = 0

\* The message of a call is in one place.
Once ==
    /\ Tokens \in Nat
    /\ Count(TB.Msg = "API") + Count(msg = "API") + Count(thr = "drain")
        + Count(conn.current_msg) + Tokens + Count(cli = "asleep" /\ ~Listed(CB))
            = Count(cli \in {"await", "asleep"})

\* The netconn, its pcb, and the call they are about.
Fresh == /\ conn.rcvd = 0 /\ conn.read = 0 /\ ~conn.fin /\ ~lost /\ buf = NoBuf /\ conn.recvmbox
         /\ conn.pcb # "ESTABLISHED" /\ Len(Received) <= Count(conn.pcb = "NULL")
Connected ==
    /\ conn.current_msg <=> conn.state # "NONE"
    /\ conn.state = "CONNECT" <=> conn.pcb = "SYN_SENT"
    /\ conn.state \in {"WRITE", "CLOSE"} => conn.pcb = "ESTABLISHED"
    /\ conn.pcb = "ESTABLISHED" /\ ~conn.recvmbox => conn.state = "CLOSE"
    /\ conn.pcb = "SYN_SENT" => api.fn = "connect" /\ api.err # "OK"
    /\ conn.pcb = "CLOSED" =>
            InCall /\ api.fn \in {"newconn", "connect", "delconn"} /\ (api.fn = "connect" => api.err # "OK")
    /\ conn.state = "WRITE" => api.fn = "write"
    /\ conn.state = "CLOSE" => api.fn \in {"close", "delconn"}
    /\ thr = "drain" => api.fn \in {"close", "delconn"}
    /\ cli = "alloc" => conn = NoConn /\ buf = NoBuf
    /\ InCall /\ api.fn = "newconn" =>
            Fresh /\ Received = <<>> /\ conn.pcb = (IF Sent THEN "NULL" ELSE "CLOSED")
    /\ InCall /\ api.fn = "connect" /\ api.err # "OK" => Fresh /\ (Sent => conn.pcb = "CLOSED")
    /\ InCall /\ api.fn = "connect" /\ Sent => api.err # "OK"
    /\ ~conn.recvmbox => cli = "alloc" \/ (InCall /\ api.fn \in {"close", "delconn"})

\* Once the end was read, or the connection failed, nothing is read any more.
Ending == buf = EOF \/ (InCall /\ api.fn \in {"close", "delconn"})
Ended ==
    Ending => /\ ~lost /\ conn.rcvd = conn.read
              /\ conn.pcb = "ESTABLISHED" => conn.fin
              /\ conn.recvmbox => Len(Received) <= Count(conn.pcb = "NULL")

\* What the client has in its hands: a segment counts as read only with the call for it.
Held ==
    /\ buf \in Nat \ {0} => /\ InCall /\ api.fn \in {"recv", "write"}
                            /\ buf = IF api.fn = "recv" /\ Sent THEN conn.read + 1 ELSE conn.read
    /\ buf = EOF => InCall /\ api.fn \in {"recv", "close"}
    /\ InCall /\ api.fn = "recv" => buf # NoBuf

\* What is still to be read, the message the client is woken with first, is the rest of
\* the stream: segments in order, and if none was lost the end of the data.
Base == IF buf \in Nat \ {0} THEN buf ELSE conn.read
Handed == cli = "fetching" /\ ~Listed(CB)
Unread == IF Handed THEN <<CB.Msg>> \o Received ELSE Received
Stream(base, s, rcvd, gone, ends) ==
    /\ base <= rcvd
    /\ \A i \in 1 .. Len(s) : IF base + i <= rcvd THEN s[i] = base + i ELSE s[i] = EOF /\ ~gone
    /\ ~gone => rcvd <= base + Len(s) /\ base + Len(s) <= rcvd + ends
Ends == Count(conn.fin) + Count(conn.pcb = "NULL") - Count(buf = EOF)
Boxed ==
    /\ Box # None \/ conn.recvmbox =>
            Box = [q |-> Received, size |-> RECVMBOX_SIZE] /\ Received \in Seq(SegOrEOF)
    /\ cli = "fetching" /\ Listed(CB) => Received = <<>>
    /\ thr = "drain" => conn.recvmbox /\ Received = <<>>
    /\ lost => conn.recvmbox /\ Len(Received) >= RECVMBOX_SIZE /\ cli # "fetch"
Streamed == /\ Base <= conn.rcvd
            /\ conn.recvmbox => Stream(Base, Unread, conn.rcvd, lost, Ends)

\* The timers.
Timed ==
    /\ next_timeout \in Seq([h : Handlers, time : Nat]) /\ order \in Seq(Handlers)
    /\ owed \in Nat /\ waited \in Nat
    /\ \A i, j \in DOMAIN next_timeout : next_timeout[i].h = next_timeout[j].h => i = j
    /\ \A i, j \in DOMAIN order : order[i] = order[j] => i = j
    /\ \A h \in Handlers : (\E i \in DOMAIN order : order[i] = h) <=> h \in Armed(next_timeout)
    /\ thr = "timer" => msg \notin Armed(next_timeout)
    /\ thr = "wait" /\ next_timeout = <<>> => TB.Dly = 0 /\ TB.StatPend = "OK"

\* The wait for the first timer, the clocks it is measured by, and the order in which
\* timers that are due together were armed.
Elapsed == IF thr = "wait" THEN waited ELSE 0
Clocked ==
    /\ thr = "wait" => /\ waited <= HeadTime
                       /\ next_timeout # <<>> => HeadTime > 0
                       /\ TB.Stat # {} => TB.Dly = HeadTime - waited /\ (HeadTime > 0 => TB.Dly > 0)
                       /\ TB.StatPend = "TO" => waited = HeadTime
    /\ \A i \in DOMAIN next_timeout :
            /\ Due(next_timeout, i) <= Interval[next_timeout[i].h]
            /\ next_timeout[i].h = "tcpip_tcp_timer" => owed + Elapsed <= Due(next_timeout, i) \/ owed = 0
    /\ \A i, j \in DOMAIN next_timeout : \A a, b \in DOMAIN order :
            (/\ i < j /\ Due(next_timeout, i) = Due(next_timeout, j)
             /\ order[a] = next_timeout[i].h /\ order[b] = next_timeout[j].h) => a < b

CallInv == /\ Typed /\ Steady(os) /\ Where /\ Packed /\ Once
           /\ Connected /\ Ended /\ Held /\ Boxed /\ Streamed
IInv == CallInv /\ Timed /\ Clocked

-----------------------------------------------------------------------------
(* The kernel between two steps.                                              *)

\* The three tasks, their priorities, and the three objects they wait for.
LEMMA Three ==
    /\ Task = {Tcpip, Client, Rest} /\ Tcpip # Client /\ Tcpip # Rest /\ Client # Rest
    /\ PrioOf(Tcpip) = 1 /\ PrioOf(Client) = 2 /\ PrioOf(Rest) = 3
    /\ Prios = 0 .. 3 /\ Event = {"mbox", "recvmbox", "op_completed"}
    /\ \A t \in Task : PrioOf(t) \in Prios
    /\ None \notin Task /\ None \notin Event
  BY NetAssumption, CoreAssumption DEF PrioOf, Prios

\* No message is a pointer too.
LEMMA NoneIsPtr == None \in Ptrs
  BY DEF Ptrs

\* The most urgent ready task is the one at the highest priority in the ready list.
LEMMA ReadyHighest ==
    ASSUME NEW k \in KernelState(Ptrs), Blocks3(k), ReadyOnes(k)
    PROVE  /\ Highest(k.Rdy) = PrioOf(Urgent(k)) /\ Highest(k.Rdy) \in Prios
           /\ k.PrioTbl[Highest(k.Rdy)] = Urgent(k) /\ Urgent(k) \in Task
<1>1. k.Rdy \in SUBSET Nat /\ k.Rdy \subseteq {0, 1, 2, 3}
  BY Three DEF KernelState
<1>2. 3 \in k.Rdy /\ 0 \notin k.Rdy
  BY Three DEF Blocks3, ReadyOnes, BlockOk
<1>3. Highest(k.Rdy) \in k.Rdy /\ \A q \in k.Rdy : Highest(k.Rdy) <= q
  BY <1>1, <1>2, HighestIs
<1>4. (1 \in k.Rdy <=> k.tcb[Tcpip].Stat = {}) /\ (2 \in k.Rdy <=> k.tcb[Client].Stat = {})
  BY Three DEF ReadyOnes
<1>5. Highest(k.Rdy) = PrioOf(Urgent(k)) /\ Urgent(k) \in Task
  <2>1. CASE k.tcb[Tcpip].Stat = {}
    <3>1. Urgent(k) = Tcpip
      BY <2>1 DEF Urgent
    <3> QED
      BY <1>1, <1>2, <1>3, <1>4, <2>1, <3>1, Three
  <2>2. CASE k.tcb[Tcpip].Stat # {} /\ k.tcb[Client].Stat = {}
    <3>1. Urgent(k) = Client
      BY <2>2 DEF Urgent
    <3> QED
      BY <1>1, <1>2, <1>3, <1>4, <2>2, <3>1, Three
  <2>3. CASE k.tcb[Tcpip].Stat # {} /\ k.tcb[Client].Stat # {}
    <3>1. Urgent(k) = Rest
      BY <2>3 DEF Urgent
    <3> QED
      BY <1>1, <1>2, <1>3, <1>4, <2>3, <3>1, Three
  <2> QED
    BY <2>1, <2>2, <2>3
<1> QED
  BY <1>5, Three DEF Blocks3

\* The scheduler makes it run.
LEMMA Scheduled ==
    ASSUME NEW k, Tables(k)
    PROVE  Steady(OS_Sched(k)) /\ SameTables(OS_Sched(k), k)
<1> DEFINE r == OS_Sched(k)
<1>1. k \in KernelState(Ptrs) /\ MayPend(k) /\ Blocks3(k) /\ ReadyOnes(k) /\ k.PrioCur = PrioOf(k.Cur)
  BY DEF Tables
<1>2. /\ Highest(k.Rdy) = PrioOf(Urgent(k)) /\ Highest(k.Rdy) \in Prios
      /\ k.PrioTbl[Highest(k.Rdy)] = Urgent(k) /\ Urgent(k) \in Task
  BY <1>1, ReadyHighest
<1>3. /\ r \in KernelState(Ptrs) /\ SameTables(r, k) /\ SameNesting(r, k)
      /\ r.PrioCur = Highest(k.Rdy)
      /\ r.Cur = IF r.PrioCur = k.PrioCur THEN k.Cur ELSE k.PrioTbl[r.PrioCur]
  BY <1>1, <1>2, SchedFields
<1> HIDE DEF r
<1>4. k.Cur \in Task
  BY <1>1 DEF KernelState
<1>5. \A t, u \in Task : PrioOf(t) = PrioOf(u) => t = u
  BY Three
<1>6. r.Cur = Urgent(k)
  BY <1>1, <1>2, <1>3, <1>4, <1>5
<1>7. r.tcb = k.tcb /\ r.Rdy = k.Rdy /\ r.ev = k.ev /\ r.PrioTbl = k.PrioTbl
  BY <1>3 DEF SameTables
<1>8. Urgent(r) = Urgent(k)
  BY <1>7 DEF Urgent
<1>9. MayPend(r) /\ r.PrioCur = PrioOf(r.Cur)
  BY <1>1, <1>2, <1>3, <1>6 DEF MayPend, SameNesting
<1>10. Blocks3(r) /\ ReadyOnes(r) /\ ListedOnes(r)
  BY <1>7 DEF Tables, Blocks3, ReadyOnes, ListedOnes
<1> QED
  BY <1>3, <1>6, <1>8, <1>9, <1>10 DEF Steady, Tables, r

\* What a call changes: one task's control block, and what wait lists hold.
SameObjects(r, k) == \A e \in Event : r.ev[e].Cnt = k.ev[e].Cnt /\ r.ev[e].Ptr = k.ev[e].Ptr
Turned(r, k, t, b) == Steady(r) /\ r.tcb = [k.tcb EXCEPT ![t] = b] /\ SameObjects(r, k)

\* One block changes, the ready list and one wait list with it.
LEMMA BlockTables ==
    ASSUME NEW k, Tables(k), NEW r \in KernelState(Ptrs), SameRunning(r, k), r.PrioTbl = k.PrioTbl,
           NEW t \in {Tcpip, Client}, NEW b \in TCB(Ptrs), b.Prio = PrioOf(t),
           r.tcb = [k.tcb EXCEPT ![t] = b], BlockOk(b), Unanswered(b),
           r.Rdy \ {PrioOf(t)} = k.Rdy \ {PrioOf(t)}, PrioOf(t) \in r.Rdy <=> b.Stat = {},
           \A e \in Event : /\ r.ev[e].Tbl \ {PrioOf(t)} = k.ev[e].Tbl \ {PrioOf(t)}
                            /\ PrioOf(t) \in r.ev[e].Tbl <=> b.EventPtr = e /\ Listed(b)
    PROVE  Tables(r)
<1>1. k \in KernelState(Ptrs) /\ MayPend(k) /\ Blocks3(k) /\ ReadyOnes(k) /\ ListedOnes(k)
      /\ k.PrioCur = PrioOf(k.Cur)
  BY DEF Tables
<1>2. t \in Task /\ t # Rest /\ k.tcb \in [Task -> TCB(Ptrs)]
  BY <1>1, Three DEF KernelState
<1>3. r.tcb[t] = b /\ \A u \in Task \ {t} : r.tcb[u] = k.tcb[u] /\ PrioOf(u) # PrioOf(t)
  BY <1>2, Three
<1>4. Blocks3(r)
  BY <1>1, <1>2, <1>3, Three DEF Blocks3
<1>5. ReadyOnes(r)
  <2>1. \A u \in Task \ {t} : PrioOf(u) \in r.Rdy <=> r.tcb[u].Stat = {}
    BY <1>1, <1>3 DEF ReadyOnes
  <2>2. 0 \notin r.Rdy
    BY <1>1, Three DEF ReadyOnes
  <2> QED
    BY <1>3, <2>1, <2>2 DEF ReadyOnes
<1>6. ListedOnes(r)
  <2>1. SUFFICES ASSUME NEW e \in Event
                 PROVE  /\ 0 \notin r.ev[e].Tbl
                        /\ \A u \in Task : PrioOf(u) \in r.ev[e].Tbl <=>
                                                r.tcb[u].EventPtr = e /\ Listed(r.tcb[u])
    BY DEF ListedOnes
  <2>2. \A u \in Task \ {t} : PrioOf(u) \in r.ev[e].Tbl <=> r.tcb[u].EventPtr = e /\ Listed(r.tcb[u])
    BY <1>1, <1>3 DEF ListedOnes
  <2>3. 0 \notin r.ev[e].Tbl
    BY <1>1, Three DEF ListedOnes
  <2> QED
    BY <1>3, <2>2, <2>3
<1>7. MayPend(r) /\ r.PrioCur = PrioOf(r.Cur)
  BY <1>1 DEF MayPend, SameRunning, SameNesting
<1> QED
  BY <1>4, <1>5, <1>6, <1>7 DEF Tables

\* A pend that finds nothing.
LEMMA SleepTurns ==
    ASSUME NEW k, Steady(k), NEW t \in {Tcpip, Client}, t = k.Cur, k.tcb[t].EventPtr = None,
           NEW e \in Event, NEW n \in Nat
    PROVE  Turned(Sleep(k, e, Kind(e), n), k, t, Waiter(k.tcb[t], e, Kind(e), n))
<1> DEFINE b == Waiter(k.tcb[t], e, Kind(e), n)
           r == Asleep(k, e, Kind(e), n)
<1>1. Tables(k) /\ k \in KernelState(Ptrs) /\ Blocks3(k)
  BY DEF Steady, Tables
<1>2. t \in Task /\ k.tcb[t] \in TCB(Ptrs) /\ Kind(e) \in Stats
  BY <1>1, Three DEF KernelState, Kind, Stats, PendAny
<1>3. /\ b \in TCB(Ptrs) /\ b.Prio = k.tcb[t].Prio /\ b.EventPtr = e /\ b.Stat = k.tcb[t].Stat \cup {Kind(e)}
      /\ b.StatPend = "OK" /\ b.Dly = n /\ b.Msg = k.tcb[t].Msg
  BY <1>2, WaiterType
<1>4. /\ k.tcb[t].Prio = PrioOf(t) /\ k.tcb[t].Stat = {} /\ k.tcb[t].Msg = None
      /\ BlockOk(k.tcb[t])
  BY <1>1, <1>2 DEF Blocks3, BlockOk
<1>5. /\ r \in KernelState(Ptrs) /\ r.tcb = [k.tcb EXCEPT ![t] = b]
      /\ r.Rdy = k.Rdy \ {k.tcb[t].Prio}
      /\ r.ev = [k.ev EXCEPT ![e] = [k.ev[e] EXCEPT !.Tbl = k.ev[e].Tbl \cup {k.tcb[t].Prio}]]
      /\ r.PrioTbl = k.PrioTbl /\ SameRunning(r, k)
  <2>1. k \in KernelState(Ptrs)
    BY <1>1
  <2>2. Kind(e) \in Stats
    BY <1>2
  <2> QED
    BY <2>1, <2>2, AsleepFields
<1>6. Sleep(k, e, Kind(e), n) = OS_Sched(r)
  BY DEF Sleep, Asleep
<1> HIDE DEF b, r
<1>7. BlockOk(b) /\ Unanswered(b) /\ Listed(b) /\ b.Stat # {} /\ b.Prio = PrioOf(t)
  BY <1>3, <1>4, Three DEF BlockOk, Unanswered, Listed
<1>8. k.ev \in [Event -> ECB(Ptrs)]
  BY <1>1 DEF KernelState
<1>9. \A f \in Event : /\ r.ev[f].Tbl \ {PrioOf(t)} = k.ev[f].Tbl \ {PrioOf(t)}
                       /\ PrioOf(t) \in r.ev[f].Tbl <=> b.EventPtr = f /\ Listed(b)
                       /\ r.ev[f].Cnt = k.ev[f].Cnt /\ r.ev[f].Ptr = k.ev[f].Ptr
  <2>1. \A f \in Event : PrioOf(t) \notin k.ev[f].Tbl
    BY <1>1, <1>2, Three DEF Tables, ListedOnes
  <2>2. SUFFICES ASSUME NEW f \in Event
                 PROVE  /\ r.ev[f].Tbl \ {PrioOf(t)} = k.ev[f].Tbl \ {PrioOf(t)}
                        /\ PrioOf(t) \in r.ev[f].Tbl <=> b.EventPtr = f /\ Listed(b)
                        /\ r.ev[f].Cnt = k.ev[f].Cnt /\ r.ev[f].Ptr = k.ev[f].Ptr
    OBVIOUS
  <2>3. k.ev[e] \in ECB(Ptrs)
    BY <1>8
  <2>4. CASE f = e
    BY <1>3, <1>4, <1>5, <1>7, <1>8, <2>3, <2>4 DEF ECB
  <2>5. CASE f # e
    BY <1>3, <1>5, <1>7, <1>8, <2>1, <2>5
  <2> QED
    BY <2>4, <2>5
<1>10. r.Rdy \ {PrioOf(t)} = k.Rdy \ {PrioOf(t)} /\ (PrioOf(t) \in r.Rdy <=> b.Stat = {})
  BY <1>4, <1>5, <1>7
<1>11. Tables(r)
  <2>1. \A f \in Event : /\ r.ev[f].Tbl \ {PrioOf(t)} = k.ev[f].Tbl \ {PrioOf(t)}
                         /\ PrioOf(t) \in r.ev[f].Tbl <=> b.EventPtr = f /\ Listed(b)
    BY <1>9
  <2>2. BlockOk(b) /\ Unanswered(b) /\ b.Prio = PrioOf(t) /\ b \in TCB(Ptrs)
    BY <1>3, <1>7
  <2>3. r \in KernelState(Ptrs) /\ SameRunning(r, k) /\ r.PrioTbl = k.PrioTbl /\ r.tcb = [k.tcb EXCEPT ![t] = b]
    BY <1>5
  <2> QED
    BY <1>1, <1>10, <2>1, <2>2, <2>3, BlockTables
<1>12. Steady(OS_Sched(r)) /\ SameTables(OS_Sched(r), r)
  BY <1>11, Scheduled
<1> QED
  BY <1>5, <1>6, <1>9, <1>12 DEF Turned, SameObjects, SameTables, b

\* The first in a wait list, if only one task waits there.
LEMMA OnlyWaiter ==
    ASSUME NEW k, Tables(k), NEW t \in {Tcpip, Client}, NEW e \in Event,
           k.tcb[t].EventPtr = e, Listed(k.tcb[t]),
           \A u \in {Tcpip, Client} \ {t} : ~(k.tcb[u].EventPtr = e /\ Listed(k.tcb[u]))
    PROVE  HighestWaiter(k, e) = t
<1>1. k \in KernelState(Ptrs) /\ Blocks3(k) /\ ListedOnes(k)
  BY DEF Tables
<1>2. k.ev[e].Tbl \in SUBSET Prios
  BY <1>1 DEF KernelState, ECB
<1>3. k.tcb[Rest].EventPtr # e
  BY <1>1, Three DEF Blocks3
<1>4. k.ev[e].Tbl = {PrioOf(t)}
  <2>1. t \in Task /\ PrioOf(t) \in k.ev[e].Tbl /\ 0 \notin k.ev[e].Tbl
    BY <1>1, Three DEF ListedOnes
  <2>2. \A u \in Task \ {t} : PrioOf(u) \notin k.ev[e].Tbl
    BY <1>1, <1>3, Three DEF ListedOnes
  <2> QED
    BY <1>2, <2>1, <2>2, Three
<1>5. Highest({PrioOf(t)}) \in {PrioOf(t)}
  BY Three, HighestIs
<1> QED
  BY <1>1, <1>4, <1>5, Three DEF HighestWaiter, Blocks3

\* A message or a count goes to the task that waits.
LEMMA WakeTurns ==
    ASSUME NEW k, Steady(k), NEW t \in {Tcpip, Client}, NEW e \in Event,
           k.tcb[t].EventPtr = e, Listed(k.tcb[t]), NEW m \in Ptrs,
           \A u \in {Tcpip, Client} \ {t} : ~(k.tcb[u].EventPtr = e /\ Listed(k.tcb[u]))
    PROVE  /\ k.ev[e].Tbl # {}
           /\ Turned(OS_Sched(OS_EventTaskRdy(k, e, m, Kind(e), "OK")), k, t,
                     Answered(k.tcb[t], m, Kind(e), "OK"))
<1> DEFINE b == Answered(k.tcb[t], m, Kind(e), "OK")
           r == OS_EventTaskRdy(k, e, m, Kind(e), "OK")
<1>1. Tables(k) /\ k \in KernelState(Ptrs) /\ Blocks3(k) /\ k.ev \in [Event -> ECB(Ptrs)]
  BY DEF Steady, Tables, KernelState
<1>2. t \in Task /\ k.tcb[t] \in TCB(Ptrs)
  BY <1>1, Three DEF KernelState
<1>3. /\ b \in TCB(Ptrs) /\ b.Prio = k.tcb[t].Prio /\ b.EventPtr = k.tcb[t].EventPtr
      /\ b.Stat = k.tcb[t].Stat \ {Kind(e)} /\ b.StatPend = "OK" /\ b.Dly = 0 /\ b.Msg = m
  BY <1>2, AnsweredType
<1>4. k.tcb[t].Prio = PrioOf(t) /\ BlockOk(k.tcb[t])
  BY <1>1, <1>2 DEF Blocks3
<1>5. k.tcb[t].Stat \ {Kind(e)} = {} /\ b.Stat = {}
  BY <1>3, <1>4 DEF BlockOk
<1>6. HighestWaiter(k, e) = t
  BY <1>1, OnlyWaiter
<1>7. /\ r \in KernelState(Ptrs) /\ r.tcb = [k.tcb EXCEPT ![t] = b]
      /\ "SUSPEND" \notin k.tcb[t].Stat \ {Kind(e)} => r.Rdy = k.Rdy \cup {k.tcb[t].Prio}
      /\ r.ev = [k.ev EXCEPT ![e] = [k.ev[e] EXCEPT !.Tbl = k.ev[e].Tbl \ {k.tcb[t].Prio}]]
      /\ r.PrioTbl = k.PrioTbl /\ SameRunning(r, k)
  <2>1. k \in KernelState(Ptrs) /\ t = HighestWaiter(k, e) /\ t \in Task
    BY <1>1, <1>2, <1>6
  <2>2. "OK" \in {"OK", "TO", "ABORT"}
    OBVIOUS
  <2>3. r \in KernelState(Ptrs) /\ Answers(r, k, t, e, m, Kind(e), "OK")
    BY <2>1, <2>2, TaskRdyAnswers
  <2> QED
    BY <2>3 DEF Answers
<1> HIDE DEF b, r
<1>8. BlockOk(b) /\ Unanswered(b) /\ ~Listed(b) /\ b.Prio = PrioOf(t)
  BY <1>3, <1>4, <1>5, Three DEF BlockOk, Unanswered, Listed
<1>9. \A f \in Event : /\ r.ev[f].Tbl \ {PrioOf(t)} = k.ev[f].Tbl \ {PrioOf(t)}
                       /\ PrioOf(t) \in r.ev[f].Tbl <=> b.EventPtr = f /\ Listed(b)
                       /\ r.ev[f].Cnt = k.ev[f].Cnt /\ r.ev[f].Ptr = k.ev[f].Ptr
  <2>1. \A f \in Event \ {e} : PrioOf(t) \notin k.ev[f].Tbl
    BY <1>1, <1>2, Three DEF Tables, ListedOnes
  <2>2. SUFFICES ASSUME NEW f \in Event
                 PROVE  /\ r.ev[f].Tbl \ {PrioOf(t)} = k.ev[f].Tbl \ {PrioOf(t)}
                        /\ PrioOf(t) \in r.ev[f].Tbl <=> b.EventPtr = f /\ Listed(b)
                        /\ r.ev[f].Cnt = k.ev[f].Cnt /\ r.ev[f].Ptr = k.ev[f].Ptr
    OBVIOUS
  <2>3. k.ev[e] \in ECB(Ptrs)
    BY <1>1
  <2>4. CASE f = e
    BY <1>1, <1>3, <1>4, <1>7, <1>8, <2>3, <2>4 DEF ECB
  <2>5. CASE f # e
    BY <1>1, <1>3, <1>7, <1>8, <2>1, <2>5
  <2> QED
    BY <2>4, <2>5
<1>10. r.Rdy \ {PrioOf(t)} = k.Rdy \ {PrioOf(t)} /\ (PrioOf(t) \in r.Rdy <=> b.Stat = {})
  BY <1>4, <1>5, <1>7
<1>11. Tables(r)
  <2>1. \A f \in Event : /\ r.ev[f].Tbl \ {PrioOf(t)} = k.ev[f].Tbl \ {PrioOf(t)}
                         /\ PrioOf(t) \in r.ev[f].Tbl <=> b.EventPtr = f /\ Listed(b)
    BY <1>9
  <2>2. BlockOk(b) /\ Unanswered(b) /\ b.Prio = PrioOf(t) /\ b \in TCB(Ptrs)
    BY <1>3, <1>8
  <2>3. r \in KernelState(Ptrs) /\ SameRunning(r, k) /\ r.PrioTbl = k.PrioTbl /\ r.tcb = [k.tcb EXCEPT ![t] = b]
    BY <1>7
  <2> QED
    BY <1>1, <1>10, <2>1, <2>2, <2>3, BlockTables
<1>12. Steady(OS_Sched(r)) /\ SameTables(OS_Sched(r), r)
  BY <1>11, Scheduled
<1>13. k.ev[e].Tbl # {}
  BY <1>1, <1>2 DEF Tables, ListedOnes
<1> QED
  BY <1>7, <1>9, <1>12, <1>13 DEF Turned, SameObjects, SameTables, b, r

\* The end of a pend.
LEMMA TailTurns ==
    ASSUME NEW k, Steady(k), NEW t \in {Tcpip, Client}, t = k.Cur, k.tcb[t].EventPtr # None
    PROVE  Turned(PendTail(k), k, t, Returned(k.tcb[t]))
<1> DEFINE b == Returned(k.tcb[t])
           r == PendTail(k)
           e == k.tcb[t].EventPtr
<1>1. Tables(k) /\ k \in KernelState(Ptrs) /\ Blocks3(k) /\ k.ev \in [Event -> ECB(Ptrs)]
  BY DEF Steady, Tables, KernelState
<1>2. t \in Task /\ k.tcb[t] \in TCB(Ptrs) /\ e \in Event /\ k.ev[e] \in ECB(Ptrs)
  BY <1>1, Three DEF KernelState, TCB
<1>3. k.tcb[t].Stat = {} /\ k.tcb[t].Prio = PrioOf(t) /\ BlockOk(k.tcb[t])
  BY <1>1, <1>2, Three DEF Steady, Urgent, Blocks3
<1>4. /\ r \in KernelState(Ptrs) /\ r.tcb = [k.tcb EXCEPT ![t] = b]
      /\ k.tcb[t].StatPend = "TO" =>
            r.ev = [k.ev EXCEPT ![e] = [k.ev[e] EXCEPT !.Tbl = k.ev[e].Tbl \ {k.tcb[t].Prio}]]
      /\ k.tcb[t].StatPend # "TO" => r.ev = k.ev
      /\ r.Rdy = k.Rdy /\ r.PrioTbl = k.PrioTbl /\ SameRunning(r, k)
  <2>1. k \in KernelState(Ptrs) /\ InPend(k, k.Cur)
    BY <1>1 DEF InPend
  <2> QED
    BY <2>1, NoneIsPtr, PendTailFields
<1>5. /\ b \in TCB(Ptrs) /\ b.Prio = PrioOf(t) /\ b.Stat = {} /\ b.StatPend = "OK" /\ b.EventPtr = None
      /\ b.Msg = None /\ b.Dly = k.tcb[t].Dly
  BY <1>2, <1>3, NoneIsPtr, Three DEF Returned, TCB
<1> HIDE DEF b, r, e
<1>6. BlockOk(b) /\ Unanswered(b) /\ ~Listed(b)
  BY <1>3, <1>5, Three DEF BlockOk, Unanswered, Listed
<1>7. \A f \in Event : PrioOf(t) \in k.ev[f].Tbl <=> f = e /\ k.tcb[t].StatPend = "TO"
  BY <1>1, <1>2, <1>3 DEF Tables, ListedOnes, Listed, e
<1>8. \A f \in Event : /\ r.ev[f].Tbl \ {PrioOf(t)} = k.ev[f].Tbl \ {PrioOf(t)}
                       /\ PrioOf(t) \notin r.ev[f].Tbl
                       /\ r.ev[f].Cnt = k.ev[f].Cnt /\ r.ev[f].Ptr = k.ev[f].Ptr
  <2>1. CASE k.tcb[t].StatPend = "TO"
    <3>1. SUFFICES ASSUME NEW f \in Event
                   PROVE  /\ r.ev[f].Tbl \ {PrioOf(t)} = k.ev[f].Tbl \ {PrioOf(t)}
                          /\ PrioOf(t) \notin r.ev[f].Tbl
                          /\ r.ev[f].Cnt = k.ev[f].Cnt /\ r.ev[f].Ptr = k.ev[f].Ptr
      OBVIOUS
    <3>2. CASE f = e
      BY <1>1, <1>2, <1>3, <1>4, <2>1, <3>2 DEF ECB
    <3>3. CASE f # e
      BY <1>1, <1>2, <1>3, <1>4, <1>7, <2>1, <3>3
    <3> QED
      BY <3>2, <3>3
  <2>2. CASE k.tcb[t].StatPend # "TO"
    BY <1>4, <1>7, <2>2
  <2> QED
    BY <2>1, <2>2
<1>9. r.Rdy \ {PrioOf(t)} = k.Rdy \ {PrioOf(t)} /\ (PrioOf(t) \in r.Rdy <=> b.Stat = {})
  BY <1>1, <1>2, <1>3, <1>4, <1>5 DEF Tables, ReadyOnes
<1>10. Tables(r)
  <2>1. \A f \in Event : /\ r.ev[f].Tbl \ {PrioOf(t)} = k.ev[f].Tbl \ {PrioOf(t)}
                         /\ PrioOf(t) \in r.ev[f].Tbl <=> b.EventPtr = f /\ Listed(b)
    BY <1>6, <1>8
  <2>2. BlockOk(b) /\ Unanswered(b) /\ b.Prio = PrioOf(t) /\ b \in TCB(Ptrs)
    BY <1>5, <1>6
  <2> QED
    BY <1>1, <1>4, <1>9, <2>1, <2>2, BlockTables
<1>11. r.Cur = k.Cur /\ Urgent(r) = Urgent(k)
  <2>1. k.tcb \in [Task -> TCB(Ptrs)]
    BY <1>1 DEF KernelState
  <2>2. \A u \in Task : r.tcb[u].Stat = k.tcb[u].Stat
    BY <1>2, <1>3, <1>4, <1>5, <2>1
  <2> QED
    BY <1>4, <2>2, Three DEF Urgent, SameRunning
<1>12. k.Cur = Urgent(k)
  BY DEF Steady
<1> QED
  BY <1>4, <1>8, <1>10, <1>11, <1>12 DEF Turned, SameObjects, Steady, b, r

-----------------------------------------------------------------------------
(* The calls, as far as the invariant can tell.                               *)

\* A kernel between two steps, with its two blocks, its queues and its count.
Shows(k, tb, cb, mb, bx, n) ==
    /\ Steady(k) /\ k.tcb[Tcpip] = tb /\ k.tcb[Client] = cb
    /\ k.ev["mbox"].Ptr = mb /\ k.ev["recvmbox"].Ptr = bx /\ k.ev["op_completed"].Cnt = n

\* What holds of them.
LEMMA ShownFacts ==
    ASSUME NEW k, NEW tb, NEW cb, NEW mb, NEW bx, NEW n, Shows(k, tb, cb, mb, bx, n)
    PROVE  /\ tb \in TCB(Ptrs) /\ BlockOk(tb) /\ Unanswered(tb)
           /\ cb \in TCB(Ptrs) /\ BlockOk(cb) /\ Unanswered(cb)
           /\ mb \in Ptrs /\ bx \in Ptrs /\ n \in Nat
           /\ k.Cur = Tcpip <=> tb.Stat = {}
           /\ k.Cur = Client <=> tb.Stat # {} /\ cb.Stat = {}
           /\ k.Cur \in {Tcpip, Client, Rest}
<1>1. Steady(k) /\ k.tcb[Tcpip] = tb /\ k.tcb[Client] = cb
      /\ k.ev["mbox"].Ptr = mb /\ k.ev["recvmbox"].Ptr = bx /\ k.ev["op_completed"].Cnt = n
  BY DEF Shows
<1>2. k \in KernelState(Ptrs) /\ Blocks3(k) /\ k.Cur = Urgent(k)
  BY <1>1 DEF Steady, Tables
<1>3. k.tcb \in [Task -> TCB(Ptrs)] /\ k.ev \in [Event -> ECB(Ptrs)]
  BY <1>2 DEF KernelState
<1>4. \A e \in Event : k.ev[e].Ptr \in Ptrs /\ k.ev[e].Cnt \in Nat
  BY <1>3 DEF ECB
<1> QED
  BY <1>1, <1>2, <1>3, <1>4, Three DEF Blocks3, Urgent

\* One of the two blocks changes.
LEMMA TcpTurned ==
    ASSUME NEW k, NEW r, NEW tb, NEW cb, NEW mb, NEW bx, NEW n, Shows(k, tb, cb, mb, bx, n),
           NEW b, Turned(r, k, Tcpip, b)
    PROVE  Shows(r, b, cb, mb, bx, n)
<1>1. k.tcb \in [Task -> TCB(Ptrs)]
  BY DEF Shows, Steady, Tables, KernelState
<1> QED
  BY <1>1, Three DEF Shows, Turned, SameObjects

\* The client's block changes and the tables follow: the rest is shown as before.
LEMMA CliTurned ==
    ASSUME NEW k, NEW r, NEW tb, NEW cb, NEW mb, NEW bx, NEW n, Shows(k, tb, cb, mb, bx, n),
           NEW b, Turned(r, k, Client, b)
    PROVE  Shows(r, tb, b, mb, bx, n)
<1>1. k.tcb \in [Task -> TCB(Ptrs)]
  BY DEF Shows, Steady, Tables, KernelState
<1> QED
  BY <1>1, Three DEF Shows, Turned, SameObjects

\* No task waits for an event.
NoWaiter(k, e) == \A t \in {Tcpip, Client} : ~(k.tcb[t].EventPtr = e /\ Listed(k.tcb[t]))

\* Its wait list is empty then.
LEMMA NobodyListed ==
    ASSUME NEW k, Steady(k), NEW e \in Event, NoWaiter(k, e)
    PROVE  k.ev[e].Tbl = {}
<1>1. k \in KernelState(Ptrs) /\ Blocks3(k) /\ ListedOnes(k)
  BY DEF Steady, Tables
<1>2. k.ev[e].Tbl \in SUBSET Prios /\ k.tcb[Rest].EventPtr # e
  BY <1>1, Three DEF KernelState, ECB, Blocks3
<1>3. \A t \in Task : PrioOf(t) \notin k.ev[e].Tbl
  BY <1>1, <1>2, Three DEF ListedOnes, NoWaiter
<1>4. 0 \notin k.ev[e].Tbl
  BY <1>1 DEF ListedOnes
<1> QED
  BY <1>2, <1>3, <1>4, Three

\* An object changes, and not who waits for it.
LEMMA ObjectSteady ==
    ASSUME NEW k, Steady(k), NEW e \in Event, NEW b \in ECB(Ptrs), b.Tbl = k.ev[e].Tbl
    PROVE  /\ Steady(WithEvent(k, e, b)) /\ WithEvent(k, e, b).tcb = k.tcb
           /\ WithEvent(k, e, b).ev = [k.ev EXCEPT ![e] = b]
<1> DEFINE r == WithEvent(k, e, b)
<1>1. k \in KernelState(Ptrs) /\ Tables(k)
  BY DEF Steady, Tables
<1>2. /\ r \in KernelState(Ptrs) /\ r.ev = [k.ev EXCEPT ![e] = b]
      /\ r.tcb = k.tcb /\ r.PrioTbl = k.PrioTbl /\ r.Rdy = k.Rdy /\ SameRunning(r, k)
  BY <1>1, SetEvent
<1> HIDE DEF r
<1>3. k.ev \in [Event -> ECB(Ptrs)]
  BY <1>1 DEF KernelState
<1>4. \A f \in Event : r.ev[f].Tbl = k.ev[f].Tbl
  BY <1>2, <1>3
<1>5. Blocks3(r) /\ ReadyOnes(r) /\ ListedOnes(r) /\ MayPend(r) /\ r.PrioCur = PrioOf(r.Cur)
  BY <1>1, <1>2, <1>4 DEF Tables, Blocks3, ReadyOnes, ListedOnes, MayPend, SameRunning, SameNesting
<1>6. r.Cur = k.Cur /\ Urgent(r) = Urgent(k)
  BY <1>2 DEF Urgent, SameRunning
<1> QED
  BY <1>2, <1>5, <1>6 DEF Steady, Tables, r

\* The three objects.
LEMMA MailSet ==
    ASSUME NEW k, NEW tb, NEW cb, NEW mb, NEW bx, NEW n, Shows(k, tb, cb, mb, bx, n),
           NEW b \in ECB(Ptrs), b.Tbl = k.ev["mbox"].Tbl
    PROVE  Shows(WithEvent(k, "mbox", b), tb, cb, b.Ptr, bx, n)
<1>1. k.ev \in [Event -> ECB(Ptrs)] /\ Steady(k) /\ "mbox" \in Event
  BY Three DEF Shows, Steady, Tables, KernelState
<1>2. /\ Steady(WithEvent(k, "mbox", b)) /\ WithEvent(k, "mbox", b).tcb = k.tcb
      /\ WithEvent(k, "mbox", b).ev = [k.ev EXCEPT !["mbox"] = b]
  BY <1>1, ObjectSteady
<1> QED
  BY <1>1, <1>2, Three DEF Shows

\* The same of the client's mailbox.
LEMMA BoxSet ==
    ASSUME NEW k, NEW tb, NEW cb, NEW mb, NEW bx, NEW n, Shows(k, tb, cb, mb, bx, n),
           NEW b \in ECB(Ptrs), b.Tbl = k.ev["recvmbox"].Tbl
    PROVE  Shows(WithEvent(k, "recvmbox", b), tb, cb, mb, b.Ptr, n)
<1>1. k.ev \in [Event -> ECB(Ptrs)] /\ Steady(k) /\ "recvmbox" \in Event
  BY Three DEF Shows, Steady, Tables, KernelState
<1>2. /\ Steady(WithEvent(k, "recvmbox", b)) /\ WithEvent(k, "recvmbox", b).tcb = k.tcb
      /\ WithEvent(k, "recvmbox", b).ev = [k.ev EXCEPT !["recvmbox"] = b]
  BY <1>1, ObjectSteady
<1> QED
  BY <1>1, <1>2, Three DEF Shows

\* The same of the semaphore, whose count is shown.
LEMMA TokensSet ==
    ASSUME NEW k, NEW tb, NEW cb, NEW mb, NEW bx, NEW n, Shows(k, tb, cb, mb, bx, n),
           NEW b \in ECB(Ptrs), b.Tbl = k.ev["op_completed"].Tbl
    PROVE  Shows(WithEvent(k, "op_completed", b), tb, cb, mb, bx, b.Cnt)
<1>1. k.ev \in [Event -> ECB(Ptrs)] /\ Steady(k) /\ "op_completed" \in Event
  BY Three DEF Shows, Steady, Tables, KernelState
<1>2. /\ Steady(WithEvent(k, "op_completed", b)) /\ WithEvent(k, "op_completed", b).tcb = k.tcb
      /\ WithEvent(k, "op_completed", b).ev = [k.ev EXCEPT !["op_completed"] = b]
  BY <1>1, ObjectSteady
<1> QED
  BY <1>1, <1>2, Three DEF Shows

\* What a queue may hold.
Letters == Msgs \cup SegOrEOF

\* The messages in a queue change.
WithQueue(k, e, s) == [k EXCEPT !.ev[e].Ptr.q = s]

\* A queue given other letters is its control block with another queue in it.
LEMMA QueueSet ==
    ASSUME NEW k, Steady(k), NEW e \in Event, NEW s, NEW z \in Nat,
           k.ev[e].Ptr = [q |-> s, size |-> z], NEW s2 \in Seq(Letters)
    PROVE  \E b \in ECB(Ptrs) : /\ WithQueue(k, e, s2) = WithEvent(k, e, b)
                                /\ b.Tbl = k.ev[e].Tbl /\ b.Ptr = [q |-> s2, size |-> z]
<1> DEFINE b == [k.ev[e] EXCEPT !.Ptr = [q |-> s2, size |-> z]]
<1>1. k.ev \in [Event -> ECB(Ptrs)] /\ k.ev[e] \in ECB(Ptrs) /\ k \in KernelState(Ptrs)
  BY DEF Steady, Tables, KernelState
<1>2. [q |-> s2, size |-> z] \in Queues
  BY DEF Queues, Letters
<1>3. b \in ECB(Ptrs)
  BY <1>1, <1>2 DEF ECB, Ptrs
<1>4. [k.ev[e].Ptr EXCEPT !.q = s2] = [q |-> s2, size |-> z]
  OBVIOUS
<1>5. WithQueue(k, e, s2) = WithEvent(k, e, b)
  BY <1>1, <1>4 DEF WithQueue, WithEvent, KernelState, ECB
<1>6. b.Tbl = k.ev[e].Tbl /\ b.Ptr = [q |-> s2, size |-> z]
  BY <1>1 DEF ECB
<1> QED
  BY <1>3, <1>5, <1>6

\* tcpip_thread's mailbox is given other letters.
LEMMA MailQueue ==
    ASSUME NEW k, NEW tb, NEW cb, NEW s, NEW z \in Nat, NEW bx, NEW n,
           Shows(k, tb, cb, [q |-> s, size |-> z], bx, n), NEW s2 \in Seq(Letters)
    PROVE  Shows(WithQueue(k, "mbox", s2), tb, cb, [q |-> s2, size |-> z], bx, n)
<1>1. Steady(k) /\ k.ev["mbox"].Ptr = [q |-> s, size |-> z] /\ "mbox" \in Event
  BY Three DEF Shows
<1>2. PICK b \in ECB(Ptrs) : /\ WithQueue(k, "mbox", s2) = WithEvent(k, "mbox", b)
                             /\ b.Tbl = k.ev["mbox"].Tbl /\ b.Ptr = [q |-> s2, size |-> z]
  BY <1>1, QueueSet
<1>3. Shows(WithEvent(k, "mbox", b), tb, cb, b.Ptr, bx, n)
  BY <1>2, MailSet
<1> QED
  BY <1>2, <1>3

\* The client's mailbox is given other letters.
LEMMA BoxQueue ==
    ASSUME NEW k, NEW tb, NEW cb, NEW s, NEW z \in Nat, NEW mb, NEW n,
           Shows(k, tb, cb, mb, [q |-> s, size |-> z], n), NEW s2 \in Seq(Letters)
    PROVE  Shows(WithQueue(k, "recvmbox", s2), tb, cb, mb, [q |-> s2, size |-> z], n)
<1>1. Steady(k) /\ k.ev["recvmbox"].Ptr = [q |-> s, size |-> z] /\ "recvmbox" \in Event
  BY Three DEF Shows
<1>2. PICK b \in ECB(Ptrs) : /\ WithQueue(k, "recvmbox", s2) = WithEvent(k, "recvmbox", b)
                             /\ b.Tbl = k.ev["recvmbox"].Tbl /\ b.Ptr = [q |-> s2, size |-> z]
  BY <1>1, QueueSet
<1>3. Shows(WithEvent(k, "recvmbox", b), tb, cb, mb, b.Ptr, n)
  BY <1>2, BoxSet
<1> QED
  BY <1>2, <1>3

\* A post to a queue that nobody waits for, with room.
LEMMA PostAppends ==
    ASSUME NEW k, Steady(k), NEW e \in Event, NoWaiter(k, e), NEW s \in Seq(Letters), NEW z \in Nat,
           k.ev[e].Ptr = [q |-> s, size |-> z], Len(s) < z, NEW m
    PROVE  OSQPost(k, e, m) = WithQueue(k, e, Append(s, m))
<1>1. k.ev[e].Tbl = {}
  BY NobodyListed
<1>2. ~OSQFull(k, e)
  BY DEF OSQFull, OSQEntries
<1> QED
  BY <1>1, <1>2 DEF OSQPost, WithQueue

\* A packet or a call goes to tcpip_thread: it wakes up, or finds it later.
LEMMA MailWakes ==
    ASSUME NEW k, NEW tb, NEW cb, NEW mb, NEW bx, NEW n, Shows(k, tb, cb, mb, bx, n),
           NEW m \in Msgs, tb.EventPtr = "mbox", Listed(tb), cb.EventPtr # "mbox"
    PROVE  Shows(OSQPost(k, "mbox", m), Answered(tb, m, "Q", "OK"), cb, mb, bx, n)
<1>1. Steady(k) /\ k.tcb[Tcpip] = tb /\ k.tcb[Client] = cb /\ "mbox" \in Event /\ Kind("mbox") = "Q"
      /\ m \in Ptrs
  BY Three DEF Shows, Kind, Ptrs
<1>2. k.tcb[Tcpip].EventPtr = "mbox" /\ Listed(k.tcb[Tcpip])
      /\ \A u \in {Tcpip, Client} \ {Tcpip} : ~(k.tcb[u].EventPtr = "mbox" /\ Listed(k.tcb[u]))
  BY <1>1
<1>3. /\ k.ev["mbox"].Tbl # {}
      /\ Turned(OS_Sched(OS_EventTaskRdy(k, "mbox", m, Kind("mbox"), "OK")), k, Tcpip,
                Answered(k.tcb[Tcpip], m, Kind("mbox"), "OK"))
  BY <1>1, <1>2, WakeTurns
<1>4. OSQPost(k, "mbox", m) = OS_Sched(OS_EventTaskRdy(k, "mbox", m, Kind("mbox"), "OK"))
  BY <1>1, <1>3 DEF OSQPost
<1> QED
  BY <1>1, <1>3, <1>4, TcpTurned

\* A post on tcpip_thread's mailbox that nobody waits for adds the message at the end.
LEMMA MailAppends ==
    ASSUME NEW k, NEW tb, NEW cb, NEW s \in Seq(Letters), NEW z \in Nat, NEW bx, NEW n,
           Shows(k, tb, cb, [q |-> s, size |-> z], bx, n), Len(s) < z,
           NEW m \in Msgs, tb.EventPtr # "mbox", cb.EventPtr # "mbox"
    PROVE  Shows(OSQPost(k, "mbox", m), tb, cb, [q |-> Append(s, m), size |-> z], bx, n)
<1>1. Steady(k) /\ k.ev["mbox"].Ptr = [q |-> s, size |-> z] /\ "mbox" \in Event /\ NoWaiter(k, "mbox")
  BY Three DEF Shows, NoWaiter
<1>2. OSQPost(k, "mbox", m) = WithQueue(k, "mbox", Append(s, m))
  BY <1>1, PostAppends
<1>3. Append(s, m) \in Seq(Letters)
  BY DEF Letters
<1> QED
  BY <1>2, <1>3, MailQueue

\* A segment or the end of the data goes to the client.
LEMMA BoxWakes ==
    ASSUME NEW k, NEW tb, NEW cb, NEW mb, NEW bx, NEW n, Shows(k, tb, cb, mb, bx, n),
           NEW m \in SegOrEOF, cb.EventPtr = "recvmbox", Listed(cb), tb.EventPtr # "recvmbox"
    PROVE  Shows(OSQPost(k, "recvmbox", m), tb, Answered(cb, m, "Q", "OK"), mb, bx, n)
<1>1. Steady(k) /\ k.tcb[Tcpip] = tb /\ k.tcb[Client] = cb /\ "recvmbox" \in Event
      /\ Kind("recvmbox") = "Q" /\ m \in Ptrs
  BY Three DEF Shows, Kind, Ptrs
<1>2. k.tcb[Client].EventPtr = "recvmbox" /\ Listed(k.tcb[Client])
      /\ \A u \in {Tcpip, Client} \ {Client} : ~(k.tcb[u].EventPtr = "recvmbox" /\ Listed(k.tcb[u]))
  BY <1>1
<1>3. /\ k.ev["recvmbox"].Tbl # {}
      /\ Turned(OS_Sched(OS_EventTaskRdy(k, "recvmbox", m, Kind("recvmbox"), "OK")), k, Client,
                Answered(k.tcb[Client], m, Kind("recvmbox"), "OK"))
  BY <1>1, <1>2, WakeTurns
<1>4. OSQPost(k, "recvmbox", m) = OS_Sched(OS_EventTaskRdy(k, "recvmbox", m, Kind("recvmbox"), "OK"))
  BY <1>1, <1>3 DEF OSQPost
<1> QED
  BY <1>1, <1>3, <1>4, CliTurned

\* A post on the client's mailbox that nobody waits for adds the block at the end.
LEMMA BoxAppends ==
    ASSUME NEW k, NEW tb, NEW cb, NEW s \in Seq(Letters), NEW z \in Nat, NEW mb, NEW n,
           Shows(k, tb, cb, mb, [q |-> s, size |-> z], n), Len(s) < z, NEW m \in SegOrEOF,
           tb.EventPtr # "recvmbox", ~(cb.EventPtr = "recvmbox" /\ Listed(cb))
    PROVE  Shows(OSQPost(k, "recvmbox", m), tb, cb, mb, [q |-> Append(s, m), size |-> z], n)
<1>1. Steady(k) /\ k.ev["recvmbox"].Ptr = [q |-> s, size |-> z] /\ "recvmbox" \in Event
      /\ NoWaiter(k, "recvmbox")
  BY Three DEF Shows, NoWaiter
<1>2. OSQPost(k, "recvmbox", m) = WithQueue(k, "recvmbox", Append(s, m))
  BY <1>1, PostAppends
<1>3. Append(s, m) \in Seq(Letters)
  BY DEF Letters
<1> QED
  BY <1>2, <1>3, BoxQueue

\* The client's call is answered: it wakes up, or finds the count later.
LEMMA SignalWakes ==
    ASSUME NEW k, NEW tb, NEW cb, NEW mb, NEW bx, NEW n, Shows(k, tb, cb, mb, bx, n),
           cb.EventPtr = "op_completed", Listed(cb), tb.EventPtr # "op_completed"
    PROVE  Shows(Signal(k), tb, Answered(cb, None, "SEM", "OK"), mb, bx, n)
<1>1. Steady(k) /\ k.tcb[Tcpip] = tb /\ k.tcb[Client] = cb /\ "op_completed" \in Event
      /\ Kind("op_completed") = "SEM" /\ None \in Ptrs
  BY Three, NoneIsPtr DEF Shows, Kind
<1>2. k.tcb[Client].EventPtr = "op_completed" /\ Listed(k.tcb[Client])
      /\ \A u \in {Tcpip, Client} \ {Client} : ~(k.tcb[u].EventPtr = "op_completed" /\ Listed(k.tcb[u]))
  BY <1>1
<1>3. /\ k.ev["op_completed"].Tbl # {}
      /\ Turned(OS_Sched(OS_EventTaskRdy(k, "op_completed", None, Kind("op_completed"), "OK")), k, Client,
                Answered(k.tcb[Client], None, Kind("op_completed"), "OK"))
  BY <1>1, <1>2, WakeTurns
<1>4. Signal(k) = OS_Sched(OS_EventTaskRdy(k, "op_completed", None, Kind("op_completed"), "OK"))
  BY <1>1, <1>3 DEF Signal, OSSemPost
<1> QED
  BY <1>1, <1>3, <1>4, CliTurned

\* A signal that nobody waits for is counted.
LEMMA SignalCounts ==
    ASSUME NEW k, NEW tb, NEW cb, NEW mb, NEW bx, Shows(k, tb, cb, mb, bx, 0),
           cb.EventPtr # "op_completed", tb.EventPtr # "op_completed"
    PROVE  Shows(Signal(k), tb, cb, mb, bx, 1)
<1> DEFINE b == [k.ev["op_completed"] EXCEPT !.Cnt = 1]
<1>1. Steady(k) /\ k.ev["op_completed"].Cnt = 0 /\ "op_completed" \in Event
      /\ NoWaiter(k, "op_completed")
  BY Three DEF Shows, NoWaiter
<1>2. k.ev["op_completed"].Tbl = {}
  BY <1>1, NobodyListed
<1>3. k.ev \in [Event -> ECB(Ptrs)] /\ k.ev["op_completed"] \in ECB(Ptrs) /\ k \in KernelState(Ptrs)
  BY <1>1 DEF Steady, Tables, KernelState
<1>4. ~SemFull(k, "op_completed")
  BY <1>1, NetAssumption, SemAssumption DEF SemFull
<1>5. Signal(k) = [k EXCEPT !.ev["op_completed"].Cnt = @ + 1]
  BY <1>2, <1>4 DEF Signal, OSSemPost
<1>6. Signal(k) = WithEvent(k, "op_completed", b)
  BY <1>1, <1>3, <1>5 DEF WithEvent, KernelState, ECB
<1>7. b \in ECB(Ptrs) /\ b.Tbl = k.ev["op_completed"].Tbl /\ b.Cnt = 1
  BY <1>3 DEF ECB
<1> HIDE DEF b
<1>8. Shows(WithEvent(k, "op_completed", b), tb, cb, mb, bx, b.Cnt)
  BY <1>7, TokensSet
<1> QED
  BY <1>6, <1>7, <1>8

\* A task takes the oldest message, or sleeps.
LEMMA MailTaken ==
    ASSUME NEW k, NEW tb, NEW cb, NEW s \in Seq(Letters), NEW z \in Nat, NEW bx, NEW n,
           Shows(k, tb, cb, [q |-> s, size |-> z], bx, n), s # <<>>, NEW ticks
    PROVE  Shows(OSQPend(k, "mbox", ticks), tb, cb, [q |-> Tail(s), size |-> z], bx, n)
<1>1. k.ev["mbox"].Ptr = [q |-> s, size |-> z]
  BY DEF Shows
<1>2. OSQEntries(k, "mbox") > 0
  BY <1>1 DEF OSQEntries
<1>3. OSQPend(k, "mbox", ticks) = WithQueue(k, "mbox", Tail(s))
  BY <1>1, <1>2 DEF OSQPend, TakeQ, WithQueue
<1>4. Tail(s) \in Seq(Letters)
  OBVIOUS
<1> QED
  BY <1>3, <1>4, MailQueue

\* A pend on the client's mailbox that is not empty takes its head.
LEMMA BoxTaken ==
    ASSUME NEW k, NEW tb, NEW cb, NEW s \in Seq(Letters), NEW z \in Nat, NEW mb, NEW n,
           Shows(k, tb, cb, mb, [q |-> s, size |-> z], n), s # <<>>, NEW ticks
    PROVE  Shows(OSQPend(k, "recvmbox", ticks), tb, cb, mb, [q |-> Tail(s), size |-> z], n)
<1>1. k.ev["recvmbox"].Ptr = [q |-> s, size |-> z]
  BY DEF Shows
<1>2. OSQEntries(k, "recvmbox") > 0
  BY <1>1 DEF OSQEntries
<1>3. OSQPend(k, "recvmbox", ticks) = WithQueue(k, "recvmbox", Tail(s))
  BY <1>1, <1>2 DEF OSQPend, TakeQ, WithQueue
<1>4. Tail(s) \in Seq(Letters)
  OBVIOUS
<1> QED
  BY <1>3, <1>4, BoxQueue

\* A pend of tcpip_thread on an empty mailbox puts it to sleep.
LEMMA TcpSleeps ==
    ASSUME NEW k, NEW tb, NEW cb, NEW mb, NEW bx, NEW n, Shows(k, tb, cb, mb, bx, n),
           k.Cur = Tcpip, tb.EventPtr = None, NEW e \in {"mbox", "recvmbox"},
           k.ev[e].Ptr.q = <<>>, NEW ticks \in Nat
    PROVE  Shows(OSQPend(k, e, ticks), Waiter(tb, e, "Q", ticks), cb, mb, bx, n)
<1>1. Steady(k) /\ k.tcb[Tcpip] = tb /\ k.tcb[Tcpip].EventPtr = None /\ e \in Event /\ Kind(e) = "Q"
  BY Three DEF Shows, Kind
<1>2. OSQPend(k, e, ticks) = Sleep(k, e, Kind(e), ticks)
  BY <1>1 DEF OSQPend, OSQEntries
<1>3. Turned(Sleep(k, e, Kind(e), ticks), k, Tcpip, Waiter(k.tcb[Tcpip], e, Kind(e), ticks))
  BY <1>1, SleepTurns
<1> QED
  BY <1>1, <1>2, <1>3, TcpTurned

\* A pend of the client on its empty mailbox puts it to sleep.
LEMMA CliSleepsBox ==
    ASSUME NEW k, NEW tb, NEW cb, NEW mb, NEW bx, NEW n, Shows(k, tb, cb, mb, bx, n),
           k.Cur = Client, cb.EventPtr = None, bx.q = <<>>, NEW ticks \in Nat
    PROVE  Shows(OSQPend(k, "recvmbox", ticks), tb, Waiter(cb, "recvmbox", "Q", ticks), mb, bx, n)
<1>1. Steady(k) /\ k.tcb[Client] = cb /\ k.tcb[Client].EventPtr = None /\ "recvmbox" \in Event
      /\ Kind("recvmbox") = "Q" /\ k.ev["recvmbox"].Ptr.q = <<>>
  BY Three DEF Shows, Kind
<1>2. OSQPend(k, "recvmbox", ticks) = Sleep(k, "recvmbox", Kind("recvmbox"), ticks)
  BY <1>1 DEF OSQPend, OSQEntries
<1>3. Turned(Sleep(k, "recvmbox", Kind("recvmbox"), ticks), k, Client,
             Waiter(k.tcb[Client], "recvmbox", Kind("recvmbox"), ticks))
  BY <1>1, SleepTurns
<1> QED
  BY <1>1, <1>2, <1>3, CliTurned

\* A pend of the client on the semaphore at zero puts it to sleep.
LEMMA CliSleeps ==
    ASSUME NEW k, NEW tb, NEW cb, NEW mb, NEW bx, Shows(k, tb, cb, mb, bx, 0),
           k.Cur = Client, cb.EventPtr = None
    PROVE  Shows(OSSemPend(k, "op_completed", 0), tb, Waiter(cb, "op_completed", "SEM", 0), mb, bx, 0)
<1>1. Steady(k) /\ k.tcb[Client] = cb /\ k.tcb[Client].EventPtr = None /\ "op_completed" \in Event
      /\ Kind("op_completed") = "SEM" /\ k.ev["op_completed"].Cnt = 0
  BY Three DEF Shows, Kind
<1>2. OSSemPend(k, "op_completed", 0) = Sleep(k, "op_completed", Kind("op_completed"), 0)
  BY <1>1 DEF OSSemPend
<1>3. Turned(Sleep(k, "op_completed", Kind("op_completed"), 0), k, Client,
             Waiter(k.tcb[Client], "op_completed", Kind("op_completed"), 0))
  BY <1>1, SleepTurns
<1> QED
  BY <1>1, <1>2, <1>3, CliTurned

\* A pend on the signalled semaphore takes the signal.
LEMMA TokenTaken ==
    ASSUME NEW k, NEW tb, NEW cb, NEW mb, NEW bx, Shows(k, tb, cb, mb, bx, 1)
    PROVE  Shows(OSSemPend(k, "op_completed", 0), tb, cb, mb, bx, 0)
<1> DEFINE b == [k.ev["op_completed"] EXCEPT !.Cnt = 0]
<1>1. k.ev["op_completed"].Cnt = 1 /\ "op_completed" \in Event /\ Steady(k)
  BY Three DEF Shows
<1>2. k.ev \in [Event -> ECB(Ptrs)] /\ k.ev["op_completed"] \in ECB(Ptrs) /\ k \in KernelState(Ptrs)
  BY <1>1 DEF Steady, Tables, KernelState
<1>3. OSSemPend(k, "op_completed", 0) = [k EXCEPT !.ev["op_completed"].Cnt = @ - 1]
  BY <1>1 DEF OSSemPend
<1>4. OSSemPend(k, "op_completed", 0) = WithEvent(k, "op_completed", b)
  BY <1>1, <1>2, <1>3 DEF WithEvent, KernelState, ECB
<1>5. b \in ECB(Ptrs) /\ b.Tbl = k.ev["op_completed"].Tbl /\ b.Cnt = 0
  BY <1>2 DEF ECB
<1> HIDE DEF b
<1>6. Shows(WithEvent(k, "op_completed", b), tb, cb, mb, bx, b.Cnt)
  BY <1>5, TokensSet
<1> QED
  BY <1>4, <1>5, <1>6

\* The end of a pend.
LEMMA TcpReturns ==
    ASSUME NEW k, NEW tb, NEW cb, NEW mb, NEW bx, NEW n, Shows(k, tb, cb, mb, bx, n),
           k.Cur = Tcpip, tb.EventPtr # None
    PROVE  Shows(PendTail(k), Returned(tb), cb, mb, bx, n)
<1>1. Steady(k) /\ k.tcb[Tcpip] = tb /\ k.tcb[Tcpip].EventPtr # None
  BY DEF Shows
<1>2. Turned(PendTail(k), k, Tcpip, Returned(k.tcb[Tcpip]))
  BY <1>1, TailTurns
<1> QED
  BY <1>1, <1>2, TcpTurned

\* The client comes out of its pend.
LEMMA CliReturns ==
    ASSUME NEW k, NEW tb, NEW cb, NEW mb, NEW bx, NEW n, Shows(k, tb, cb, mb, bx, n),
           k.Cur = Client, cb.EventPtr # None
    PROVE  Shows(PendTail(k), tb, Returned(cb), mb, bx, n)
<1>1. Steady(k) /\ k.tcb[Client] = cb /\ k.tcb[Client].EventPtr # None
  BY DEF Shows
<1>2. Turned(PendTail(k), k, Client, Returned(k.tcb[Client]))
  BY <1>1, TailTurns
<1> QED
  BY <1>1, <1>2, CliTurned

\* The mailbox and the semaphore of a netconn come and go.
LEMMA BoxReplaced ==
    ASSUME NEW k, NEW tb, NEW cb, NEW mb, NEW bx, NEW n, Shows(k, tb, cb, mb, bx, n),
           tb.EventPtr # "recvmbox", cb.EventPtr # "recvmbox",
           NEW b \in ECB(Ptrs), b.Tbl = {}
    PROVE  Shows(WithEvent(k, "recvmbox", b), tb, cb, mb, b.Ptr, n)
<1>1. Steady(k) /\ NoWaiter(k, "recvmbox") /\ "recvmbox" \in Event
  BY Three DEF Shows, NoWaiter
<1>2. b.Tbl = k.ev["recvmbox"].Tbl
  BY <1>1, NobodyListed
<1> QED
  BY <1>2, BoxSet

\* The semaphore's control block is replaced while nobody waits for it.
LEMMA TokensReplaced ==
    ASSUME NEW k, NEW tb, NEW cb, NEW mb, NEW bx, NEW n, Shows(k, tb, cb, mb, bx, n),
           tb.EventPtr # "op_completed", cb.EventPtr # "op_completed",
           NEW b \in ECB(Ptrs), b.Tbl = {}
    PROVE  Shows(WithEvent(k, "op_completed", b), tb, cb, mb, bx, b.Cnt)
<1>1. Steady(k) /\ NoWaiter(k, "op_completed") /\ "op_completed" \in Event
  BY Three DEF Shows, NoWaiter
<1>2. b.Tbl = k.ev["op_completed"].Tbl
  BY <1>1, NobodyListed
<1> QED
  BY <1>2, TokensSet

\* A control block that is free: no queue, no count, nobody listed.
LEMMA UnusedType == Unused \in ECB(Ptrs) /\ Unused.Tbl = {} /\ Unused.Ptr = None /\ Unused.Cnt = 0
  BY NoneIsPtr DEF Unused, ECB

\* The client's mailbox is deleted while nobody waits for it.
LEMMA BoxDeleted ==
    ASSUME NEW k, NEW tb, NEW cb, NEW mb, NEW bx, NEW n, Shows(k, tb, cb, mb, bx, n),
           tb.EventPtr # "recvmbox", cb.EventPtr # "recvmbox"
    PROVE  Shows(OSDel(k, "recvmbox"), tb, cb, mb, None, n)
<1>1. Shows(WithEvent(k, "recvmbox", Unused), tb, cb, mb, Unused.Ptr, n)
  BY UnusedType, BoxReplaced
<1> QED
  BY <1>1, UnusedType DEF OSDel, WithEvent

\* The semaphore is deleted while nobody waits for it.
LEMMA TokensDeleted ==
    ASSUME NEW k, NEW tb, NEW cb, NEW mb, NEW bx, NEW n, Shows(k, tb, cb, mb, bx, n),
           tb.EventPtr # "op_completed", cb.EventPtr # "op_completed"
    PROVE  Shows(OSDel(k, "op_completed"), tb, cb, mb, bx, 0)
<1>1. Shows(WithEvent(k, "op_completed", Unused), tb, cb, mb, bx, Unused.Cnt)
  BY UnusedType, TokensReplaced
<1> QED
  BY <1>1, UnusedType DEF OSDel, WithEvent

Created(k) == [k EXCEPT !.ev["recvmbox"] = OSQCreate(RECVMBOX_SIZE),
                        !.ev["op_completed"] = OSSemCreate(0)]

EmptyBox == [q |-> <<>>, size |-> RECVMBOX_SIZE]

\* netconn_alloc creates the semaphore at zero and the mailbox empty.
LEMMA BothCreated ==
    ASSUME NEW k, NEW tb, NEW cb, NEW mb, NEW bx, NEW n, Shows(k, tb, cb, mb, bx, n),
           tb.EventPtr = "mbox", cb.EventPtr = None
    PROVE  Shows(Created(k), tb, cb, mb, EmptyBox, 0)
<1> DEFINE k1 == WithEvent(k, "recvmbox", OSQCreate(RECVMBOX_SIZE))
<1>1. EmptyBox \in Queues /\ "mbox" # None
  BY NetAssumption, Three DEF EmptyBox, Queues
<1>2. OSQCreate(RECVMBOX_SIZE) \in ECB(Ptrs) /\ OSQCreate(RECVMBOX_SIZE).Tbl = {}
      /\ OSQCreate(RECVMBOX_SIZE).Ptr = EmptyBox
  BY <1>1 DEF OSQCreate, ECB, Ptrs, EmptyBox
<1>3. OSSemCreate(0) \in ECB(Ptrs) /\ OSSemCreate(0).Tbl = {} /\ OSSemCreate(0).Cnt = 0
  BY NoneIsPtr DEF OSSemCreate, ECB
<1>4. Shows(k1, tb, cb, mb, OSQCreate(RECVMBOX_SIZE).Ptr, n)
  BY <1>2, Three, BoxReplaced
<1>5. Shows(k1, tb, cb, mb, EmptyBox, n)
  BY <1>2, <1>4
<1> HIDE DEF k1
<1>6. Shows(WithEvent(k1, "op_completed", OSSemCreate(0)), tb, cb, mb, EmptyBox, OSSemCreate(0).Cnt)
  BY <1>3, <1>5, Three, TokensReplaced
<1>7. Created(k) = WithEvent(k1, "op_completed", OSSemCreate(0))
  BY DEF WithEvent, Created, k1
<1> QED
  BY <1>3, <1>6, <1>7

-----------------------------------------------------------------------------
(* A tick.                                                                    *)

\* A wait that times out stays in its list.
LEMMA TickedBlock ==
    ASSUME NEW b \in TCB(Ptrs), BlockOk(b), Unanswered(b)
    PROVE  /\ Ticked(b) \in TCB(Ptrs) /\ Ticked(b).Prio = b.Prio /\ Ticked(b).EventPtr = b.EventPtr
           /\ BlockOk(Ticked(b)) /\ Unanswered(Ticked(b)) /\ (Listed(Ticked(b)) <=> Listed(b))
           /\ Ticked(b).Stat = {} <=> b.Stat = {} \/ b.Dly = 1
           /\ "SUSPEND" \notin b.Stat /\ Ticked(b).Msg = b.Msg
           /\ b.Dly = 0 => Ticked(b).Dly = 0 /\ Ticked(b).StatPend = b.StatPend
           /\ Ticked(b).StatPend = "TO" \/ Ticked(b).StatPend = b.StatPend
<1> DEFINE r == Ticked(b)
<1>1. /\ r \in TCB(Ptrs) /\ r.Prio = b.Prio /\ r.EventPtr = b.EventPtr /\ r.Msg = b.Msg
      /\ b.Dly # 1 => r.Stat = b.Stat /\ r.StatPend = b.StatPend
      /\ b.Dly = 1 => r.Stat = b.Stat \ PendAny
      /\ b.Dly = 1 /\ b.Stat \cap PendAny # {} => r.StatPend = "TO"
      /\ b.Dly = 1 /\ b.Stat \cap PendAny = {} => r.StatPend = "OK"
      /\ r.Dly = 0 <=> b.Dly \in {0, 1}
  BY TickedType
<1> HIDE DEF r
<1>2. b.Stat # {} => b.Stat \cap PendAny = b.Stat /\ b.Stat \ PendAny = {} /\ "SUSPEND" \notin b.Stat
  BY DEF BlockOk, Kind, PendAny
<1>3. CASE b.Dly = 1
  <2>1. b.Stat # {}
    BY <1>3 DEF BlockOk
  <2>2. r.Stat = {} /\ r.StatPend = "TO" /\ r.Dly = 0
    BY <1>1, <1>2, <1>3, <2>1
  <2>3. b.EventPtr # None /\ b.Msg = None
    BY <2>1 DEF BlockOk, Unanswered, Listed
  <2>4. BlockOk(r) /\ Unanswered(r) /\ Listed(r) /\ Listed(b)
    BY <1>1, <2>1, <2>2, <2>3 DEF BlockOk, Unanswered, Listed
  <2> QED
    BY <1>1, <1>2, <1>3, <2>1, <2>2, <2>4 DEF r
<1>4. CASE b.Dly # 1
  <2>1. r.Stat = b.Stat /\ r.StatPend = b.StatPend
    BY <1>1, <1>4
  <2>2. r.Dly = 0 <=> b.Dly = 0
    BY <1>1, <1>4
  <2>3. BlockOk(r) /\ Unanswered(r) /\ (Listed(r) <=> Listed(b))
    BY <1>1, <2>1, <2>2 DEF BlockOk, Unanswered, Listed
  <2>4. "SUSPEND" \notin b.Stat
    BY <1>2
  <2> QED
    BY <1>1, <1>4, <2>1, <2>2, <2>3, <2>4 DEF r
<1> QED
  BY <1>3, <1>4

\* The interrupt is left.
Left(k) == [k EXCEPT !.IntNesting = @ - 1]

\* A tick counts the time-outs down; the tables agree after it and the objects stay.
LEMMA TickTables ==
    ASSUME NEW k, Steady(k)
    PROVE  LET r == Left(OSTimeTick(OSIntEnter(k)))
           IN  Tables(r) /\ r.tcb = [t \in Task |-> Ticked(k.tcb[t])] /\ r.ev = k.ev
<1> DEFINE k1 == OSIntEnter(k)
           k2 == OSTimeTick(k1)
           r == Left(k2)
<1>1. k \in KernelState(Ptrs) /\ MayPend(k) /\ Blocks3(k) /\ ReadyOnes(k) /\ ListedOnes(k)
      /\ k.PrioCur = PrioOf(k.Cur)
  BY DEF Steady, Tables
<1>2. /\ k1 \in KernelState(Ptrs) /\ SameTables(k1, k) /\ k1.IntNesting = k.IntNesting + 1
      /\ k1.LockNesting = k.LockNesting /\ k1.Cur = k.Cur /\ k1.PrioCur = k.PrioCur
  BY <1>1, IntEnterFields
<1> HIDE DEF k1
<1>3. /\ k2 \in KernelState(Ptrs)
      /\ k2.tcb = [t \in Task |-> Ticked(k1.tcb[t])]
      /\ k2.Rdy = k1.Rdy \cup {k1.tcb[t].Prio : t \in
                     {u \in Task : k1.tcb[u].Dly = 1 /\ "SUSPEND" \notin k1.tcb[u].Stat}}
      /\ k2.PrioTbl = k1.PrioTbl /\ k2.ev = k1.ev /\ SameRunning(k2, k1)
  BY <1>2, TickFields
<1> HIDE DEF k2
<1>4. k1.tcb = k.tcb /\ k1.Rdy = k.Rdy /\ k1.PrioTbl = k.PrioTbl /\ k1.ev = k.ev
  BY <1>2 DEF SameTables
<1>5. /\ k2.tcb = [t \in Task |-> Ticked(k.tcb[t])] /\ k2.PrioTbl = k.PrioTbl /\ k2.ev = k.ev
      /\ k2.Rdy = k.Rdy \cup {k.tcb[t].Prio : t \in
                     {u \in Task : k.tcb[u].Dly = 1 /\ "SUSPEND" \notin k.tcb[u].Stat}}
  BY <1>3, <1>4
<1>6. k2.IntNesting = 1 /\ k2.LockNesting = 0 /\ k2.Cur = k.Cur /\ k2.PrioCur = k.PrioCur
  BY <1>1, <1>2, <1>3 DEF MayPend, SameRunning, SameNesting
<1>7. /\ r \in KernelState(Ptrs) /\ r.tcb = k2.tcb /\ r.PrioTbl = k2.PrioTbl /\ r.Rdy = k2.Rdy
      /\ r.ev = k2.ev /\ r.Cur = k2.Cur /\ r.PrioCur = k2.PrioCur /\ MayPend(r)
  BY <1>3, <1>6 DEF Left, KernelState, MayPend
<1> HIDE DEF r
<1>8. \A t \in Task : k.tcb[t] \in TCB(Ptrs) /\ BlockOk(k.tcb[t]) /\ Unanswered(k.tcb[t])
                      /\ k.tcb[t].Prio = PrioOf(t)
  BY <1>1 DEF KernelState, Blocks3
<1>9. \A t \in Task : /\ r.tcb[t] = Ticked(k.tcb[t])
                      /\ r.tcb[t].Prio = k.tcb[t].Prio /\ r.tcb[t].EventPtr = k.tcb[t].EventPtr
                      /\ BlockOk(r.tcb[t]) /\ Unanswered(r.tcb[t])
                      /\ Listed(r.tcb[t]) <=> Listed(k.tcb[t])
                      /\ r.tcb[t].Stat = {} <=> k.tcb[t].Stat = {} \/ k.tcb[t].Dly = 1
                      /\ "SUSPEND" \notin k.tcb[t].Stat
  <2>1. SUFFICES ASSUME NEW t \in Task
                 PROVE  /\ r.tcb[t] = Ticked(k.tcb[t])
                        /\ r.tcb[t].Prio = k.tcb[t].Prio /\ r.tcb[t].EventPtr = k.tcb[t].EventPtr
                        /\ BlockOk(r.tcb[t]) /\ Unanswered(r.tcb[t])
                        /\ Listed(r.tcb[t]) <=> Listed(k.tcb[t])
                        /\ r.tcb[t].Stat = {} <=> k.tcb[t].Stat = {} \/ k.tcb[t].Dly = 1
                        /\ "SUSPEND" \notin k.tcb[t].Stat
    OBVIOUS
  <2>2. r.tcb[t] = Ticked(k.tcb[t])
    BY <1>5, <1>7
  <2>3. k.tcb[t] \in TCB(Ptrs) /\ BlockOk(k.tcb[t]) /\ Unanswered(k.tcb[t])
    BY <1>8
  <2> QED
    BY <2>2, <2>3, TickedBlock
<1>10. Blocks3(r)
  BY <1>1, <1>5, <1>7, <1>8, <1>9, Three DEF Blocks3
<1>11. ReadyOnes(r)
  <2>1. \A t, u \in Task : PrioOf(t) = PrioOf(u) => t = u
    BY Three
  <2>2. \A t \in Task : PrioOf(t) # 0
    BY Three
  <2>3. \A t \in Task : PrioOf(t) \in r.Rdy <=> PrioOf(t) \in k.Rdy \/ k.tcb[t].Dly = 1
    BY <1>5, <1>7, <1>8, <1>9, <2>1
  <2>4. 0 \notin r.Rdy
    BY <1>1, <1>5, <1>7, <1>8, <2>2 DEF ReadyOnes
  <2> QED
    BY <1>1, <1>9, <2>3, <2>4 DEF ReadyOnes
<1>12. ListedOnes(r)
  BY <1>1, <1>5, <1>7, <1>9 DEF ListedOnes
<1> QED
  BY <1>1, <1>5, <1>6, <1>7, <1>10, <1>11, <1>12 DEF Tables, r, k2, k1

\* What a tick leaves to see.
LEMMA TickTurns ==
    ASSUME NEW k, NEW tb, NEW cb, NEW mb, NEW bx, NEW n, Shows(k, tb, cb, mb, bx, n)
    PROVE  Shows(OSIntExit(OSTimeTick(OSIntEnter(k))), Ticked(tb), Ticked(cb), mb, bx, n)
<1> DEFINE r == Left(OSTimeTick(OSIntEnter(k)))
<1>1. Steady(k)
  BY DEF Shows
<1>2. Tables(r) /\ r.tcb = [t \in Task |-> Ticked(k.tcb[t])] /\ r.ev = k.ev
  BY <1>1, TickTables
<1>3. OSIntExit(OSTimeTick(OSIntEnter(k))) = OS_Sched(r)
  BY DEF OSIntExit, Left
<1> HIDE DEF r
<1>4. Steady(OS_Sched(r)) /\ SameTables(OS_Sched(r), r)
  BY <1>2, Scheduled
<1>5. OS_Sched(r).tcb[Tcpip] = Ticked(k.tcb[Tcpip]) /\ OS_Sched(r).tcb[Client] = Ticked(k.tcb[Client])
      /\ OS_Sched(r).ev = k.ev
  BY <1>2, <1>4, Three DEF SameTables
<1> QED
  BY <1>3, <1>4, <1>5 DEF Shows

-----------------------------------------------------------------------------
(* Whose turn it is.                                                          *)

\* What a state shows, before and after a step.
LEMMA Seen ==
    ASSUME CallInv
    PROVE  Shows(os, TB, CB, MailBox, Box, Tokens)
  BY DEF CallInv, Shows, TB, CB, MailBox, Box, Tokens

\* The same of the state after the step.
LEMMA SeenNext ==
    ASSUME NEW tb, NEW cb, NEW mb, NEW bx, NEW n, Shows(os', tb, cb, mb, bx, n)
    PROVE  /\ Steady(os)' /\ TB' = tb /\ CB' = cb /\ MailBox' = mb /\ Box' = bx /\ Tokens' = n
           /\ Mail' = mb.q /\ Received' = bx.q
  BY DEF Shows, TB, CB, MailBox, Box, Tokens, Mail, Received

\* tcpip_thread is left alone, or woken up.
Undisturbed == TB' = TB \/ (TB'.Stat = {} /\ TB'.Dly = 0 /\ TB'.StatPend = "OK")

\* Who runs: tcpip_thread when it is ready, else the client when it is, else the rest.
LEMMA Turns ==
    ASSUME CallInv
    PROVE  /\ TB \in TCB(Ptrs) /\ BlockOk(TB) /\ Unanswered(TB)
           /\ CB \in TCB(Ptrs) /\ BlockOk(CB) /\ Unanswered(CB)
           /\ Tokens \in Nat
           /\ os.Cur = Tcpip <=> TB.Stat = {}
           /\ os.Cur = Client <=> TB.Stat # {} /\ CB.Stat = {}
           /\ os.Cur \in {Tcpip, Client, Rest}
           /\ InPend(os, Tcpip) <=> TB.EventPtr # None
           /\ InPend(os, Client) <=> CB.EventPtr # None
<1>1. Shows(os, TB, CB, MailBox, Box, Tokens)
  BY Seen
<1> QED
  BY <1>1, ShownFacts DEF InPend, TB, CB

\* None is no event, message or handler.
LEMMA Nones ==
    /\ None # "mbox" /\ None # "recvmbox" /\ None # "op_completed"
    /\ None \notin Msgs /\ None \notin Packets /\ None # "API" /\ "API" \notin Packets
    /\ None \notin SegOrEOF /\ EOF \notin Nat /\ EOF # NoBuf
    /\ Segments \in Nat /\ MEMP_NUM_TCPIP_MSG_INPKT \in Nat /\ TCPIP_MBOX_SIZE \in Nat /\ RECVMBOX_SIZE \in Nat
    /\ RECVMBOX_SIZE > 1 /\ TCPIP_MBOX_SIZE > MEMP_NUM_TCPIP_MSG_INPKT /\ Blocks \in Nat
    /\ RecvTimeout \in Nat /\ Msgs \cap Handlers = {} /\ None \notin Handlers
  BY NetAssumption, Three DEF Msgs, Packets, SegOrEOF, NoBuf, Handlers

\* While tcpip_thread runs.
LEMMA TcpTurn ==
    ASSUME CallInv, os.Cur = Tcpip
    PROVE  /\ TB.Stat = {} /\ TB.StatPend \in {"OK", "TO"} /\ (Listed(TB) <=> TB.StatPend = "TO")
           /\ Listed(TB) => TB.Msg = None
           /\ TB.EventPtr = None => TB.Msg = None /\ TB.StatPend = "OK"
           /\ TB.EventPtr = None <=> thr \in {"fetch", "handle", "timer"}
           /\ TB.EventPtr # "op_completed"
           /\ thr = "drain" => TB.StatPend = "TO" /\ TB.Msg = None
           /\ thr = "wait" /\ TB.StatPend = "OK" => TB.Msg \in Msgs
<1>1. BlockOk(TB) /\ Unanswered(TB) /\ TB.Stat = {}
  BY Turns
<1>2. Where /\ Typed
  BY DEF CallInv
<1> QED
  BY <1>1, <1>2, Nones DEF BlockOk, Unanswered, Listed, Where, Typed

\* While the client runs tcpip_thread waits, and has no packet.
LEMMA CliTurn ==
    ASSUME CallInv, os.Cur = Client
    PROVE  /\ TB.Stat # {} /\ Listed(TB) /\ TB.Msg = None /\ TB.StatPend = "OK" /\ msg = None
           /\ thr \in {"wait", "drain"} /\ Mail = <<>> /\ inpkts = 0
           /\ TB.EventPtr = (IF thr = "wait" THEN "mbox" ELSE "recvmbox")
           /\ CB.Stat = {} /\ (Listed(CB) <=> CB.StatPend = "TO") /\ (Listed(CB) => CB.Msg = None)
           /\ CB.EventPtr = None => CB.Msg = None /\ CB.StatPend = "OK"
           /\ CB.EventPtr = None <=> cli \notin {"asleep", "fetching"}
           /\ thr = "drain" => cli = "await"
<1>1. BlockOk(TB) /\ Unanswered(TB) /\ TB.Stat # {} /\ BlockOk(CB) /\ Unanswered(CB) /\ CB.Stat = {}
      /\ Tokens \in Nat
  BY Turns
<1>2. Where /\ Typed /\ Packed /\ Once
  BY DEF CallInv
<1>3. /\ Listed(TB) /\ TB.Msg = None /\ TB.StatPend = "OK" /\ TB.EventPtr # None
      /\ thr \in {"wait", "drain"} /\ msg = None
      /\ TB.EventPtr = (IF thr = "wait" THEN "mbox" ELSE "recvmbox")
  BY <1>1, <1>2 DEF BlockOk, Unanswered, Listed, Where, Typed
<1>4. /\ Listed(CB) <=> CB.StatPend = "TO"
      /\ Listed(CB) => CB.Msg = None
      /\ CB.EventPtr = None => CB.Msg = None /\ CB.StatPend = "OK"
  BY <1>1 DEF BlockOk, Unanswered, Listed
<1>5. CB.EventPtr = None <=> cli \notin {"asleep", "fetching"}
  BY <1>2, Nones DEF Where
<1>6. thr = "drain" => cli = "await"
  <2>1. thr = "drain" => cli \in {"await", "asleep"} /\ ~(cli = "asleep" /\ ~Listed(CB))
    BY <1>2 DEF Once, Count
  <2>2. cli = "asleep" => ~Listed(CB)
    BY <1>2, <1>4 DEF Where
  <2> QED
    BY <2>1, <2>2
<1>7. inpkts = Len(Mail) /\ Mail \in Seq(Packets)
  BY <1>2, <1>3, Nones DEF Packed, Count
<1>8. inpkts = 0
  <2>1. CASE CB.EventPtr = None
    BY <1>2, <2>1 DEF Packed
  <2>2. CASE CB.EventPtr # None
    BY <1>2, <1>3, <1>5, <1>6, <1>7, <2>2 DEF Packed
  <2> QED
    BY <2>1, <2>2
<1>9. Mail = <<>>
  BY <1>7, <1>8, EmptySeq
<1> QED
  BY <1>1, <1>3, <1>4, <1>5, <1>6, <1>8, <1>9

\* While neither runs both wait.
LEMMA RestTurn ==
    ASSUME CallInv, os.Cur = Rest
    PROVE  /\ Listed(TB) /\ TB.Msg = None /\ msg = None
           /\ thr \in {"wait", "drain"}
           /\ TB.EventPtr = (IF thr = "wait" THEN "mbox" ELSE "recvmbox")
           /\ CB.EventPtr \in {"op_completed", "recvmbox"} /\ Listed(CB)
<1>1. BlockOk(TB) /\ Unanswered(TB) /\ TB.Stat # {} /\ BlockOk(CB) /\ Unanswered(CB) /\ CB.Stat # {}
  BY Turns, Three
<1>2. Where /\ Typed
  BY DEF CallInv
<1> QED
  BY <1>1, <1>2 DEF BlockOk, Unanswered, Listed, Where, Typed

-----------------------------------------------------------------------------
(* tcpip_thread with a message or a timer, the call it has in hand.           *)

\* A step that ends the handling.
Handling ==
    /\ CallInv /\ os.Cur = Tcpip
    /\ thr \in {"handle", "timer", "drain"} /\ thr' = "fetch" /\ msg' = None
    /\ inpkts' = inpkts - Count(msg \in Packets)
    /\ cli' = cli /\ buf' = buf /\ blocks' = blocks
InHand == msg = "API" \/ conn.current_msg \/ thr = "drain"

\* The client waits for the answer.
LEMMA Handed1 ==
    ASSUME CallInv, os.Cur = Tcpip, thr \in {"handle", "timer", "drain"}, InHand
    PROVE  /\ cli \in {"await", "asleep"} /\ InCall /\ Tokens = 0 /\ TB.Msg = None
           /\ cli = "asleep" => Listed(CB)
           /\ Count(msg = "API") + Count(conn.current_msg) + Count(thr = "drain") = 1
           /\ Sent <=> msg = "API"
<1>1. Once /\ TB.Msg = None /\ TB.Msg # "API"
  BY TcpTurn, Nones DEF CallInv
<1>2. Count(msg = "API") \in {0, 1} /\ Count(conn.current_msg) \in {0, 1} /\ Count(thr = "drain") \in {0, 1}
      /\ Count(cli = "asleep" /\ ~Listed(CB)) \in {0, 1} /\ Count(cli \in {"await", "asleep"}) \in {0, 1}
      /\ Count(TB.Msg = "API") = 0
  BY <1>1 DEF Count
<1>3. Count(msg = "API") = 1 \/ Count(conn.current_msg) = 1 \/ Count(thr = "drain") = 1
  BY DEF InHand, Count
<1>4. /\ Count(cli \in {"await", "asleep"}) = 1 /\ Tokens = 0 /\ Count(cli = "asleep" /\ ~Listed(CB)) = 0
      /\ Count(msg = "API") + Count(conn.current_msg) + Count(thr = "drain") = 1
  BY <1>1, <1>2, <1>3 DEF Once
<1> QED
  BY <1>1, <1>4 DEF Count, InCall, Sent

\* What the handling leaves of the kernel.
LEMMA Settled ==
    ASSUME Handling, NEW tb, NEW cb, NEW bx, NEW n, Shows(os', tb, cb, MailBox, bx, n),
           tb.EventPtr = None, tb.Msg = None, cb.EventPtr = CB.EventPtr,
           cli = "asleep" => cb.Dly = 0 /\ cb.StatPend = "OK" /\ cb.Msg = None,
           cli = "fetching" /\ ~Listed(cb) => cb.Msg \in SegOrEOF
    PROVE  /\ Steady(os)' /\ Where' /\ Packed' /\ inpkts' \in 0 .. MEMP_NUM_TCPIP_MSG_INPKT
           /\ TB' = tb /\ CB' = cb /\ Box' = bx /\ Received' = bx.q /\ Tokens' = n
<1>1. CallInv /\ os.Cur = Tcpip /\ thr' = "fetch" /\ msg' = None /\ cli' = cli
      /\ inpkts' = inpkts - Count(msg \in Packets)
  BY DEF Handling
<1>2. TB.Msg = None
  BY <1>1, TcpTurn DEF Handling
<1>3. /\ Steady(os)' /\ TB' = tb /\ CB' = cb /\ MailBox' = MailBox /\ Box' = bx /\ Tokens' = n
      /\ Mail' = MailBox.q /\ Received' = bx.q
  BY SeenNext
<1>4. Where'
  BY <1>1, <1>3 DEF Where, CallInv
<1>5. Packed /\ Typed
  BY <1>1 DEF CallInv
<1>6. Mail' = Mail /\ Mail \in Seq(Packets) /\ Len(Mail) \in Nat
  BY <1>3, <1>5 DEF Packed, Mail
<1>7. inpkts' = Len(Mail') + Count(TB'.Msg \in Packets) + Count(msg' \in Packets)
      /\ inpkts' \in 0 .. MEMP_NUM_TCPIP_MSG_INPKT
  <2>1. inpkts = Len(Mail) + Count(msg \in Packets) /\ inpkts \in 0 .. MEMP_NUM_TCPIP_MSG_INPKT
    BY <1>2, <1>5, Nones DEF Packed, Count, Typed
  <2>2. inpkts' = Len(Mail) /\ Count(TB'.Msg \in Packets) = 0 /\ Count(msg' \in Packets) = 0
    BY <1>1, <1>3, <1>6, <2>1, Nones DEF Count
  <2>3. Count(msg \in Packets) \in {0, 1}
    BY DEF Count
  <2>4. Len(Mail') = Len(Mail)
    BY <1>6
  <2> QED
    BY <1>6, <2>1, <2>2, <2>3, <2>4, Nones
<1>8. CB'.EventPtr = None => inpkts' = 0
  <2>1. CB.EventPtr = None => inpkts = 0
    BY <1>5 DEF Packed
  <2>2. Count(msg \in Packets) \in {0, 1}
    BY DEF Count
  <2> QED
    BY <1>1, <1>3, <1>7, <2>1, <2>2, Nones
<1>9. Packed'
  BY <1>1, <1>3, <1>5, <1>6, <1>7, <1>8 DEF Packed
<1> QED
  BY <1>3, <1>4, <1>7, <1>9

\* The answer: the client is woken, or will find the count.
Told(cb, n) ==
    /\ cb.EventPtr = CB.EventPtr /\ n \in Nat
    /\ n + Count(cli = "asleep" /\ ~Listed(cb)) = 1
    /\ cli = "asleep" => cb.Dly = 0 /\ cb.StatPend = "OK" /\ cb.Msg = None

\* The signal of an answer reaches the client that waits for it, or is left for it.
LEMMA Tells ==
    ASSUME CallInv, cli \in {"await", "asleep"}, cli = "asleep" => Listed(CB),
           NEW k, NEW tb, NEW mb, NEW bx, Shows(k, tb, CB, mb, bx, 0), tb.EventPtr # "op_completed"
    PROVE  \E cb, n : Shows(Signal(k), tb, cb, mb, bx, n) /\ Told(cb, n)
<1>1. CASE cli = "asleep"
  <2> DEFINE cb == Answered(CB, None, "SEM", "OK")
  <2>1. CB.EventPtr = "op_completed" /\ Listed(CB) /\ BlockOk(CB) /\ CB \in TCB(Ptrs) /\ CB.StatPend = "OK"
    BY <1>1, Turns DEF CallInv, Where
  <2>2. /\ cb.EventPtr = CB.EventPtr /\ cb.Stat = CB.Stat \ {"SEM"} /\ cb.StatPend = "OK" /\ cb.Dly = 0
        /\ cb.Msg = None
    BY <2>1, NoneIsPtr, AnsweredType
  <2>3. cb.Stat = {}
    BY <2>1, <2>2 DEF BlockOk, Kind
  <2>4. Shows(Signal(k), tb, cb, mb, bx, 0)
    BY <2>1, SignalWakes
  <2> HIDE DEF cb
  <2>5. Told(cb, 0)
    BY <1>1, <2>2, <2>3 DEF Told, Listed, Count
  <2> QED
    BY <2>4, <2>5
<1>2. CASE cli = "await"
  <2>1. CB.EventPtr = None
    BY <1>2 DEF CallInv, Where
  <2>2. Shows(Signal(k), tb, CB, mb, bx, 1)
    BY <2>1, Nones, SignalCounts
  <2>3. Told(CB, 1)
    BY <1>2 DEF Told, Count
  <2> QED
    BY <2>2, <2>3
<1> QED
  BY <1>1, <1>2

-----------------------------------------------------------------------------
(* What becomes of the netconn.                                               *)

\* The mailbox of a netconn is valid when it has room.
LEMMA ValidBox ==
    ASSUME CallInv
    PROVE  /\ RecvValid <=> conn.recvmbox /\ Len(Received) < RECVMBOX_SIZE
           /\ conn.recvmbox => /\ Box = [q |-> Received, size |-> RECVMBOX_SIZE]
                               /\ Received \in Seq(SegOrEOF) /\ Received \in Seq(Letters)
                               /\ Len(Received) \in Nat
<1>1. conn.recvmbox => Box = [q |-> Received, size |-> RECVMBOX_SIZE] /\ Received \in Seq(SegOrEOF)
  BY DEF CallInv, Boxed
<1>2. conn.recvmbox => Len(Received) \in Nat /\ Received \in Seq(Letters)
  BY <1>1 DEF Letters
<1>3. RecvValid <=> conn.recvmbox /\ ~(Len(Received) >= Box.size)
  BY DEF RecvValid, sys_mbox_valid, OSQFull, OSQEntries, Box, Received
<1>4. conn.recvmbox => Box.size = RECVMBOX_SIZE
  BY <1>1
<1> QED
  BY <1>1, <1>2, <1>3, <1>4, Nones

\* A call is answered, or stays in hand.
LEMMA AfterAnswer ==
    ASSUME Handling, InHand, NEW k, NEW tb, NEW bx, Shows(k, tb, CB, MailBox, bx, 0),
           tb.EventPtr = None, tb.Msg = None, os' = Signal(k), ~conn'.current_msg
    PROVE  /\ Steady(os)' /\ Where' /\ Packed' /\ Once' /\ inpkts' \in 0 .. MEMP_NUM_TCPIP_MSG_INPKT
           /\ Box' = bx /\ Received' = bx.q
           /\ InCall /\ InCall' /\ ~Sent' /\ cli \in {"await", "asleep"} /\ cli' = cli
<1>1. CallInv /\ os.Cur = Tcpip /\ thr \in {"handle", "timer", "drain"} /\ thr' = "fetch" /\ msg' = None
      /\ cli' = cli
  BY DEF Handling
<1>2. cli \in {"await", "asleep"} /\ InCall /\ (cli = "asleep" => Listed(CB))
  BY <1>1, Handed1
<1>3. tb.EventPtr # "op_completed"
  BY Nones
<1>4. PICK cb, n : Shows(Signal(k), tb, cb, MailBox, bx, n) /\ Told(cb, n)
  BY <1>1, <1>2, <1>3, Tells
<1>5. Shows(os', tb, cb, MailBox, bx, n)
  BY <1>4
<1>6. cb.EventPtr = CB.EventPtr /\ (cli = "asleep" => cb.Dly = 0 /\ cb.StatPend = "OK" /\ cb.Msg = None)
      /\ (cli = "fetching" /\ ~Listed(cb) => cb.Msg \in SegOrEOF)
  BY <1>2, <1>4 DEF Told
<1>7. /\ Steady(os)' /\ Where' /\ Packed' /\ inpkts' \in 0 .. MEMP_NUM_TCPIP_MSG_INPKT
      /\ TB' = tb /\ CB' = cb /\ Box' = bx /\ Received' = bx.q /\ Tokens' = n
  BY <1>5, <1>6, Settled
<1>8. InCall' /\ ~Sent'
  BY <1>1, <1>2, <1>7, Nones DEF InCall, Sent
<1>9. Once'
  BY <1>1, <1>2, <1>4, <1>7, Nones DEF Once, Told, Count
<1> QED
  BY <1>1, <1>2, <1>7, <1>8, <1>9

\* What a handler that goes on waiting for the connection leaves as it was.
LEMMA AfterWait ==
    ASSUME Handling, InHand, NEW tb, NEW bx, Shows(os', tb, CB, MailBox, bx, 0),
           tb.EventPtr = None, tb.Msg = None, conn'.current_msg
    PROVE  /\ Steady(os)' /\ Where' /\ Packed' /\ Once' /\ inpkts' \in 0 .. MEMP_NUM_TCPIP_MSG_INPKT
           /\ Box' = bx /\ Received' = bx.q
           /\ InCall /\ InCall' /\ ~Sent' /\ cli \in {"await", "asleep"} /\ cli' = cli
<1>1. CallInv /\ os.Cur = Tcpip /\ thr \in {"handle", "timer", "drain"} /\ thr' = "fetch" /\ msg' = None
      /\ cli' = cli
  BY DEF Handling
<1>2. cli \in {"await", "asleep"} /\ InCall /\ (cli = "asleep" => Listed(CB))
  BY <1>1, Handed1
<1>3. (cli = "asleep" => CB.Dly = 0 /\ CB.StatPend = "OK" /\ CB.Msg = None)
      /\ (cli = "fetching" /\ ~Listed(CB) => CB.Msg \in SegOrEOF)
  BY <1>1 DEF CallInv, Where
<1>4. /\ Steady(os)' /\ Where' /\ Packed' /\ inpkts' \in 0 .. MEMP_NUM_TCPIP_MSG_INPKT
      /\ TB' = tb /\ CB' = CB /\ Box' = bx /\ Received' = bx.q /\ Tokens' = 0
  BY <1>3, Settled
<1>5. InCall' /\ ~Sent'
  BY <1>1, <1>2, <1>4, Nones DEF InCall, Sent
<1>6. Once'
  BY <1>1, <1>2, <1>4, Nones DEF Once, Count
<1> QED
  BY <1>1, <1>2, <1>4, <1>5, <1>6

\* Nothing unread is at hand while a call is made.
LEMMA CallUnread ==
    ASSUME cli \in {"await", "asleep"}
    PROVE  Unread = Received /\ Ends = Count(conn.fin) + Count(conn.pcb = "NULL") - Count(buf = EOF)
  BY DEF Unread, Handed, Ends

\* A handler with a call of its own; the netconn keeps its data and its mailbox.
Answering ==
    /\ Handling /\ InHand /\ thr # "drain"
    /\ lost' = lost /\ conn' \in ConnType /\ api' \in ApiType /\ api'.fn = api.fn
    /\ conn'.recvmbox = conn.recvmbox /\ conn'.fin = conn.fin /\ conn'.rcvd = conn.rcvd
    /\ \/ os' = Signal(os) /\ ~conn'.current_msg
       \/ os' = os /\ conn'.current_msg

\* What an answered call leaves as it was: all but the connection and the semaphore.
LEMMA Answers1 ==
    ASSUME Answering
    PROVE  /\ Steady(os)' /\ Where' /\ Packed' /\ Once' /\ Typed'
           /\ Box' = Box /\ Received' = Received
           /\ InCall /\ InCall' /\ ~Sent' /\ cli \in {"await", "asleep"} /\ cli' = cli
           /\ buf' = buf /\ thr' = "fetch"
<1>1. CallInv /\ os.Cur = Tcpip /\ thr \in {"handle", "timer"} /\ thr' = "fetch" /\ msg' = None
      /\ cli' = cli /\ buf' = buf /\ blocks' = blocks
  BY DEF Handling, Answering
<1>2. TB.EventPtr = None /\ TB.Msg = None
  BY <1>1, TcpTurn
<1>3. Tokens = 0
  BY <1>1, Handed1 DEF Answering
<1>4. Shows(os, TB, CB, MailBox, Box, 0)
  BY <1>1, <1>3, Seen
<1>5. /\ Steady(os)' /\ Where' /\ Packed' /\ Once' /\ inpkts' \in 0 .. MEMP_NUM_TCPIP_MSG_INPKT
      /\ Box' = Box /\ Received' = Box.q
      /\ InCall /\ InCall' /\ ~Sent' /\ cli \in {"await", "asleep"} /\ cli' = cli
  <2>1. CASE os' = Signal(os) /\ ~conn'.current_msg
    BY <1>2, <1>4, <2>1, AfterAnswer DEF Answering
  <2>2. CASE os' = os /\ conn'.current_msg
    <3>1. Shows(os', TB, CB, MailBox, Box, 0)
      BY <1>4, <2>2
    <3> QED
      BY <1>2, <2>2, <3>1, AfterWait DEF Answering
  <2> QED
    BY <2>1, <2>2 DEF Answering
<1>6. Typed'
  BY <1>1, <1>5 DEF Typed, CallInv, Answering
<1> QED
  BY <1>1, <1>5, <1>6 DEF Received

\* The data keeps its order, if what was read keeps it.
LEMMA Answers2 ==
    ASSUME Answering, Base' = Base, conn'.read \in Nat,
           conn.recvmbox /\ ~lost => Count(conn.pcb = "NULL") <= Count(conn'.pcb = "NULL")
    PROVE  Boxed' /\ Streamed'
<1>1. /\ Box' = Box /\ Received' = Received
      /\ cli \in {"await", "asleep"} /\ cli' = cli /\ buf' = buf /\ thr' = "fetch"
  BY Answers1
<1>2. conn'.recvmbox = conn.recvmbox /\ conn'.fin = conn.fin /\ conn'.rcvd = conn.rcvd /\ lost' = lost
      /\ Boxed /\ Streamed /\ Typed
  BY DEF Answering, Handling, CallInv
<1>3. Boxed'
  BY <1>1, <1>2 DEF Boxed
<1>4. Unread = Received /\ Ends = Count(conn.fin) + Count(conn.pcb = "NULL") - Count(buf = EOF)
  BY <1>1, CallUnread
<1>5. Unread' = Received'
  BY <1>1 DEF Unread, Handed
<1>6. Ends' = Count(conn.fin) + Count(conn'.pcb = "NULL") - Count(buf = EOF)
  BY <1>1, <1>2 DEF Ends
<1>7. conn.recvmbox => Received \in Seq(SegOrEOF)
  BY <1>2 DEF Boxed
<1>8. Base \in Nat /\ conn.rcvd \in Nat
  <2>1. conn.read \in Nat /\ conn.rcvd \in Nat
    BY <1>2 DEF Typed, ConnType
  <2> QED
    BY <2>1 DEF Base
<1>9. Streamed'
  <2>1. SUFFICES ASSUME conn'.recvmbox PROVE Stream(Base', Unread', conn'.rcvd, lost', Ends')
    BY <1>2 DEF Streamed
  <2>2. Stream(Base, Received, conn.rcvd, lost, Ends) /\ Len(Received) \in Nat
    BY <1>2, <1>4, <1>7, <2>1 DEF Streamed
  <2>3. ~lost => Ends <= Ends' /\ Ends \in Int /\ Ends' \in Int
    BY <1>2, <1>4, <1>6, <2>1 DEF Count
  <2>4. Stream(Base, Received, conn.rcvd, lost, Ends')
    BY <1>8, <2>2, <2>3 DEF Stream
  <2> QED
    BY <1>1, <1>2, <1>5, <2>4
<1> QED
  BY <1>3, <1>9

\* The parts of the invariant that are about the netconn.
LEMMA CallInvAfter ==
    ASSUME Typed', Steady(os)', Where', Packed', Once', Connected', Ended', Held', Boxed', Streamed'
    PROVE  CallInv'
  BY DEF CallInv

\* A netconn with a call in hand, field by field.
LEMMA InHandConn ==
    ASSUME CallInv, os.Cur = Tcpip, thr \in {"handle", "timer", "drain"}, InHand
    PROVE  /\ conn \in ConnType /\ api \in ApiType
           /\ msg = "API" \/ thr = "drain" => ~conn.current_msg /\ conn.state = "NONE" /\ conn.pcb # "SYN_SENT"
           /\ conn.current_msg => conn.state # "NONE" /\ msg # "API" /\ thr # "drain"
           /\ Sent <=> msg = "API"
           /\ InCall /\ cli \in {"await", "asleep"}
<1>1. /\ cli \in {"await", "asleep"} /\ InCall
      /\ Count(msg = "API") + Count(conn.current_msg) + Count(thr = "drain") = 1
      /\ Sent <=> msg = "API"
  BY Handed1
<1>2. Typed /\ Connected
  BY DEF CallInv
<1>3. conn \in ConnType /\ api \in ApiType /\ conn.current_msg \in BOOLEAN
  BY <1>2 DEF Typed, ConnType
<1> QED
  BY <1>1, <1>2, <1>3 DEF Connected, Count

\* A netconn gets its pcb.
LEMMA GetsPcb ==
    ASSUME Handling, msg = "API", thr # "drain", api.fn = "newconn",
           conn' = [conn EXCEPT !.pcb = "CLOSED"], os' = Signal(os), NEW err \in {"OK"},
           api' = [api EXCEPT !.err = err], lost' = lost
    PROVE  CallInv'
<1>1. CallInv /\ os.Cur = Tcpip /\ thr \in {"handle", "timer"} /\ InHand
  BY DEF Handling, InHand
<1>2. /\ conn \in ConnType /\ api \in ApiType /\ ~conn.current_msg /\ conn.state = "NONE" /\ Sent /\ InCall
  BY <1>1, InHandConn
<1>3. Answering
  BY <1>1, <1>2 DEF Answering, ConnType, ApiType
<1>4. /\ Steady(os)' /\ Where' /\ Packed' /\ Once' /\ Typed'
      /\ Box' = Box /\ Received' = Received
      /\ InCall /\ InCall' /\ ~Sent' /\ cli \in {"await", "asleep"} /\ cli' = cli
      /\ buf' = buf /\ thr' = "fetch"
  BY <1>3, Answers1
<1>5. Connected /\ Ended /\ Held /\ Boxed /\ Streamed
  BY <1>1 DEF CallInv
<1>6. Fresh /\ Received = <<>> /\ conn.pcb = "NULL"
  BY <1>2, <1>5 DEF Connected
<1>7. /\ conn'.pcb = "CLOSED" /\ conn'.state = conn.state /\ conn'.current_msg = conn.current_msg
      /\ conn'.recvmbox = conn.recvmbox /\ conn'.fin = conn.fin /\ conn'.rcvd = conn.rcvd
      /\ conn'.read = conn.read /\ api'.fn = api.fn
  BY <1>2 DEF ConnType, ApiType
<1>8. Len(Received) = 0
  BY <1>6
<1>9. Connected'
  BY <1>2, <1>4, <1>6, <1>7, <1>8 DEF Connected, Fresh, Count
<1>10. Ended' /\ Held'
  BY <1>2, <1>4, <1>5, <1>6, <1>7, Nones DEF Ended, Ending, Held, Fresh
<1>11. Boxed'
  BY <1>4, <1>5, <1>6, <1>7 DEF Boxed, Fresh
<1>12. Streamed'
  <2>1. Unread' = <<>>
    BY <1>4, <1>6 DEF Unread, Handed
  <2>2. Base' = 0 /\ conn'.rcvd = 0 /\ Ends' = 0
    <3>1. Base' = 0 /\ conn'.rcvd = 0 /\ buf' = NoBuf /\ ~conn'.fin /\ conn'.pcb # "NULL"
      BY <1>4, <1>6, <1>7, Nones DEF Base, Fresh, NoBuf
    <3>2. Count(conn'.fin) = 0 /\ Count(conn'.pcb = "NULL") = 0 /\ Count(buf' = EOF) = 0
      BY <3>1, Nones DEF Count
    <3> QED
      BY <3>1, <3>2 DEF Ends
  <2> QED
    BY <2>1, <2>2 DEF Streamed, Stream
<1> QED
  BY <1>4, <1>9, <1>10, <1>11, <1>12, CallInvAfter

\* A call fails at once.
LEMMA Refused ==
    ASSUME Handling, msg = "API", thr # "drain", conn' = conn, os' = Signal(os), lost' = lost,
           NEW err \in Fatal \cup {"RTE"}, api' = [api EXCEPT !.err = err], api.fn \in {"connect", "write"}
    PROVE  CallInv'
<1>1. CallInv /\ os.Cur = Tcpip /\ thr \in {"handle", "timer"} /\ InHand
  BY DEF Handling, InHand
<1>2. /\ conn \in ConnType /\ api \in ApiType /\ ~conn.current_msg /\ conn.state = "NONE" /\ Sent /\ InCall
      /\ conn.pcb # "SYN_SENT"
  BY <1>1, InHandConn
<1>3. Answering
  BY <1>1, <1>2 DEF Answering, ConnType, ApiType
<1>4. /\ Steady(os)' /\ Where' /\ Packed' /\ Once' /\ Typed'
      /\ Box' = Box /\ Received' = Received
      /\ InCall /\ InCall' /\ ~Sent' /\ cli \in {"await", "asleep"} /\ cli' = cli
      /\ buf' = buf /\ thr' = "fetch"
  BY <1>3, Answers1
<1>5. Connected /\ Ended /\ Held /\ lost' = lost /\ conn' = conn
  BY <1>1 DEF CallInv
<1>6. api'.fn = api.fn /\ api'.err = err
  BY <1>2 DEF ApiType
<1>7. Connected'
  BY <1>2, <1>4, <1>5, <1>6 DEF Connected, Fresh, Fatal
<1>8. Ended' /\ Held'
  BY <1>2, <1>4, <1>5, <1>6 DEF Ended, Ending, Held
<1>9. Boxed' /\ Streamed'
  <2>1. Base' = Base /\ conn'.read \in Nat
    BY <1>2, <1>4, <1>5 DEF Base, ConnType
  <2>2. Count(conn.pcb = "NULL") <= Count(conn'.pcb = "NULL")
    BY <1>5 DEF Count
  <2> QED
    BY <1>3, <2>1, <2>2, Answers2
<1> QED
  BY <1>4, <1>7, <1>8, <1>9, CallInvAfter

\* A segment counts as read.
LEMMA CountsAsRead ==
    ASSUME Handling, msg = "API", thr # "drain", os' = Signal(os), lost' = lost,
           conn' = IF buf = EOF THEN conn ELSE [conn EXCEPT !.read = @ + 1],
           api' = [api EXCEPT !.err = "OK"], api.fn = "recv"
    PROVE  CallInv'
<1>1. CallInv /\ os.Cur = Tcpip /\ thr \in {"handle", "timer"} /\ InHand
  BY DEF Handling, InHand
<1>2. /\ conn \in ConnType /\ api \in ApiType /\ ~conn.current_msg /\ conn.state = "NONE" /\ Sent /\ InCall
      /\ conn.pcb # "SYN_SENT"
  BY <1>1, InHandConn
<1>3. Connected /\ Ended /\ Held /\ Streamed /\ Typed
  BY <1>1 DEF CallInv
<1>4. buf # EOF => buf \in Nat \ {0} /\ buf = conn.read + 1 /\ Base = buf /\ buf <= conn.rcvd
  BY <1>2, <1>3, Nones DEF Held, Typed, NoBuf, Base, Streamed
<1>5. /\ conn'.pcb = conn.pcb /\ conn'.state = conn.state /\ conn'.current_msg = conn.current_msg
      /\ conn'.recvmbox = conn.recvmbox /\ conn'.fin = conn.fin /\ conn'.rcvd = conn.rcvd
      /\ conn'.read = (IF buf = EOF THEN conn.read ELSE buf) /\ conn' \in ConnType
      /\ api'.fn = api.fn /\ api' \in ApiType
  <2>1. api'.fn = api.fn /\ api' \in ApiType
    BY <1>2 DEF ApiType
  <2>2. CASE buf = EOF
    BY <1>2, <2>1, <2>2
  <2>3. CASE buf # EOF
    <3>1. conn' = [conn EXCEPT !.read = @ + 1]
      BY <2>3
    <3>2. conn.read + 1 \in 0 .. Segments
      BY <1>2, <1>4, <2>3, Nones DEF ConnType
    <3> QED
      BY <1>2, <1>4, <2>1, <2>3, <3>1, <3>2 DEF ConnType
  <2> QED
    BY <2>2, <2>3
<1>6. Answering
  BY <1>1, <1>2, <1>5 DEF Answering
<1>7. /\ Steady(os)' /\ Where' /\ Packed' /\ Once' /\ Typed'
      /\ Box' = Box /\ Received' = Received
      /\ InCall /\ InCall' /\ ~Sent' /\ cli \in {"await", "asleep"} /\ cli' = cli
      /\ buf' = buf /\ thr' = "fetch"
  BY <1>6, Answers1
<1>8. Connected'
  BY <1>2, <1>3, <1>5, <1>7 DEF Connected
<1>9. Ended' /\ Held'
  <2>1. CASE buf = EOF
    BY <1>2, <1>3, <1>5, <1>7, <2>1, Nones DEF Ended, Ending, Held
  <2>2. CASE buf # EOF
    BY <1>2, <1>3, <1>4, <1>5, <1>7, <2>2, Nones DEF Ended, Ending, Held
  <2> QED
    BY <2>1, <2>2
<1>10. Boxed' /\ Streamed'
  <2>1. Base' = Base /\ conn'.read \in Nat
    BY <1>2, <1>4, <1>5, <1>7, Nones DEF Base, ConnType
  <2>2. Count(conn.pcb = "NULL") <= Count(conn'.pcb = "NULL")
    BY <1>5 DEF Count
  <2> QED
    BY <1>6, <2>1, <2>2, Answers2
<1> QED
  BY <1>7, <1>8, <1>9, <1>10, CallInvAfter

\* What a pcb sends keeps its type (tcp_output of tcp_out.c).
LEMMA OutputSnd ==
    ASSUME NEW s \in Snd
    PROVE  /\ tcp_output(s) \in Snd
           /\ s.queue < TCP_SND_QUEUELEN => Enqueued(s) \in Snd
<1>1. \A u \in Snd : tcp_output(u) \in Snd
  BY DEF tcp_output, Snd
<1>2. s.queue < TCP_SND_QUEUELEN => [s EXCEPT !.queue = @ + 1] \in Snd
  <2>1. TCP_SND_QUEUELEN \in Nat
    BY NetAssumption
  <2>2. s.queue < TCP_SND_QUEUELEN => s.queue + 1 \in 0 .. TCP_SND_QUEUELEN
    BY <2>1 DEF Snd
  <2> QED
    BY <2>2 DEF Snd
<1> QED
  BY <1>1, <1>2 DEF Enqueued

\* A retransmission is counted by a number of eight bits.
LEMMA RexmitSnd ==
    ASSUME NEW s \in Snd
    PROVE  Rexmit(s) \in Snd /\ Slow(s) \in Snd
<1>1. NrtxValues \in Nat /\ NrtxValues > 0
  BY NetAssumption
<1>2. \A a, m \in Nat : m > 0 => (a + 1) % m \in 0 .. m - 1
  OBVIOUS
<1>3. s.nrtx \in Nat
  BY <1>1 DEF Snd
<1>4. (s.nrtx + 1) % NrtxValues \in 0 .. NrtxValues - 1
  BY <1>1, <1>2, <1>3
<1>5. Rexmit(s) \in Snd
  BY <1>4 DEF Rexmit, Snd
<1> QED
  BY <1>5, OutputSnd DEF Slow

\* So does what an acknowledgement leaves (tcp_receive of tcp_in.c).
LEMMA AckedSnd ==
    ASSUME NEW s \in Snd
    PROVE  Acks(s) \subseteq Snd /\ DupAcks(s) \subseteq Snd
<1>1. ASSUME NEW n \in 1 .. (IF s.out = "unsent" THEN 0 ELSE s.queue),
             NEW o \in {"unsent", "resend", s.out}, NEW w \in Windows
      PROVE  [s EXCEPT !.queue = @ - n, !.out = IF n = s.queue THEN "unsent" ELSE o,
                       !.wnd = w, !.nrtx = 0, !.infr = FALSE] \in Snd
  <2>1. TCP_SND_QUEUELEN \in Nat /\ NrtxValues \in Nat /\ NrtxValues > 0
    BY NetAssumption
  <2>2. s.queue \in 0 .. TCP_SND_QUEUELEN /\ s.out \in {"unsent", "unacked", "resend"}
    BY DEF Snd
  <2>3. s.queue - n \in 0 .. TCP_SND_QUEUELEN /\ 0 \in 0 .. NrtxValues - 1
    BY <2>1, <2>2
  <2> QED
    BY <2>2, <2>3 DEF Snd
<1>2. ASSUME NEW w \in Windows PROVE [s EXCEPT !.wnd = w] \in Snd
  BY DEF Snd
<1>3. ASSUME NEW o \in {"unacked", "resend"}
      PROVE  [Rexmit(s) EXCEPT !.infr = TRUE, !.out = o] \in Snd
  BY RexmitSnd DEF Snd
<1>4. ASSUME NEW u \in Acks(s) PROVE u \in Snd
  <2>1. PICK n \in 1 .. (IF s.out = "unsent" THEN 0 ELSE s.queue),
             o \in {"unsent", "resend", s.out}, w \in Windows :
                u = Acked(s, n, o, w)
    BY <1>4 DEF Acks
  <2> DEFINE v == [s EXCEPT !.queue = @ - n, !.out = IF n = s.queue THEN "unsent" ELSE o,
                            !.wnd = w, !.nrtx = 0, !.infr = FALSE]
  <2>2. v \in Snd
    BY <1>1
  <2>3. u = tcp_output(v)
    BY <2>1 DEF Acked
  <2> HIDE DEF v
  <2> QED
    BY <2>2, <2>3, OutputSnd
<1>5. DupAcks(s) \subseteq Snd
  BY <1>2, <1>3, OutputSnd DEF DupAcks
<1> QED
  BY <1>4, <1>5

\* So do the SYN and its acknowledgement; a pcb that is not there sends nothing.
LEMMA SynSnd ==
    /\ \A s \in Snd : Syn(s) \in Snd /\ (\A w \in Windows : SynAcked(s, w) \in Snd)
    /\ NoSnd \in Snd /\ Slow(NoSnd) = NoSnd
<1>1. 1 \in 0 .. TCP_SND_QUEUELEN /\ 0 \in 0 .. TCP_SND_QUEUELEN /\ 0 \in 0 .. NrtxValues - 1
  BY NetAssumption
<1>2. NoSnd \in Snd
  BY <1>1 DEF NoSnd, Snd, Windows
<1>3. \A s \in Snd : Syn(s) \in Snd /\ (\A w \in Windows : SynAcked(s, w) \in Snd)
  BY <1>1 DEF Syn, SynAcked, Snd
<1> QED
  BY <1>2, <1>3 DEF Slow, NoSnd

\* A connection is asked for.
LEMMA AsksForIt ==
    ASSUME Handling, msg = "API", thr # "drain", api.fn = "connect", os' = os, api' = api, lost' = lost,
           conn' = [conn EXCEPT !.pcb = "SYN_SENT", !.state = "CONNECT", !.current_msg = TRUE,
                                !.snd = Syn(@)]
    PROVE  CallInv'
<1>1. CallInv /\ os.Cur = Tcpip /\ thr \in {"handle", "timer"} /\ InHand
  BY DEF Handling, InHand
<1>2. /\ conn \in ConnType /\ api \in ApiType /\ ~conn.current_msg /\ conn.state = "NONE" /\ Sent /\ InCall
      /\ conn.pcb # "SYN_SENT"
  BY <1>1, InHandConn
<1>3. /\ conn'.pcb = "SYN_SENT" /\ conn'.state = "CONNECT" /\ conn'.current_msg = TRUE
      /\ conn'.recvmbox = conn.recvmbox /\ conn'.fin = conn.fin /\ conn'.rcvd = conn.rcvd
      /\ conn'.read = conn.read /\ conn' \in ConnType
  <2>1. conn.snd \in Snd
    BY <1>2 DEF ConnType
  <2>2. Syn(conn.snd) \in Snd
    BY <2>1, SynSnd
  <2> QED
    BY <1>2, <2>2 DEF ConnType
<1>4. Answering
  BY <1>1, <1>2, <1>3 DEF Answering
<1>5. /\ Steady(os)' /\ Where' /\ Packed' /\ Once' /\ Typed'
      /\ Box' = Box /\ Received' = Received
      /\ InCall /\ InCall' /\ ~Sent' /\ cli \in {"await", "asleep"} /\ cli' = cli
      /\ buf' = buf /\ thr' = "fetch"
  BY <1>4, Answers1
<1>6. Connected /\ Ended /\ Held
  BY <1>1 DEF CallInv
<1>7. Fresh /\ conn.pcb = "CLOSED" /\ api.err # "OK"
  BY <1>2, <1>6 DEF Connected
<1>8. Connected'
  BY <1>2, <1>3, <1>5, <1>6, <1>7 DEF Connected, Fresh, Count
<1>9. Ended' /\ Held'
  BY <1>2, <1>3, <1>5, <1>6, <1>7, Nones DEF Ended, Ending, Held, Fresh
<1>10. Boxed' /\ Streamed'
  <2>1. Base' = Base /\ conn'.read \in Nat
    BY <1>2, <1>3, <1>5 DEF Base, ConnType
  <2>2. Count(conn.pcb = "NULL") <= Count(conn'.pcb = "NULL")
    BY <1>3, <1>7 DEF Count
  <2> QED
    BY <1>4, <2>1, <2>2, Answers2
<1> QED
  BY <1>5, <1>8, <1>9, <1>10, CallInvAfter

\* Data is queued for sending, or waits for room.
LEMMA Writes ==
    ASSUME Handling, InHand, thr # "drain", NEW s \in Snd, do_writemore(s), api.fn = "write", conn.pcb = "ESTABLISHED"
    PROVE  CallInv'
<1>1. CallInv /\ os.Cur = Tcpip /\ thr \in {"handle", "timer"}
  BY DEF Handling
<1>2. conn \in ConnType /\ api \in ApiType /\ InCall /\ lost' = lost /\ (Sent <=> msg = "API")
  BY <1>1, InHandConn DEF do_writemore
<1>3. /\ conn'.pcb = conn.pcb
      /\ conn'.recvmbox = conn.recvmbox /\ conn'.fin = conn.fin /\ conn'.rcvd = conn.rcvd
      /\ conn'.read = conn.read /\ conn' \in ConnType
      /\ api'.fn = api.fn /\ api' \in ApiType
      /\ \/ os' = Signal(os) /\ conn'.current_msg = FALSE /\ conn'.state = "NONE"
         \/ os' = os /\ conn'.current_msg = TRUE /\ conn'.state = "WRITE"
  <2>1. CASE /\ s.queue < TCP_SND_QUEUELEN
             /\ conn' = [conn EXCEPT !.state = "NONE", !.current_msg = FALSE, !.snd = Enqueued(s)]
             /\ Ack("OK")
    <3>1. conn' = [conn EXCEPT !.state = "NONE", !.current_msg = FALSE, !.snd = Enqueued(s)]
          /\ os' = Signal(os) /\ api' = [api EXCEPT !.err = "OK"]
      BY <2>1 DEF Ack
    <3>2. api'.fn = api.fn /\ api' \in ApiType
      BY <1>2, <3>1 DEF ApiType
    <3>3. Enqueued(s) \in Snd
      BY <2>1, OutputSnd
    <3> QED
      BY <1>2, <3>1, <3>2, <3>3 DEF ConnType
  <2>2. CASE /\ conn' = [conn EXCEPT !.state = "WRITE", !.current_msg = TRUE, !.snd = s]
             /\ os' = os /\ api' = api
    BY <1>2, <2>2 DEF ConnType, ApiType
  <2> QED
    BY <2>1, <2>2 DEF do_writemore
<1>4. Answering
  BY <1>1, <1>2, <1>3 DEF Answering
<1>5. /\ Steady(os)' /\ Where' /\ Packed' /\ Once' /\ Typed'
      /\ Box' = Box /\ Received' = Received
      /\ InCall /\ InCall' /\ ~Sent' /\ cli \in {"await", "asleep"} /\ cli' = cli
      /\ buf' = buf /\ thr' = "fetch"
  BY <1>4, Answers1
<1>6. Connected /\ Ended /\ Held
  BY <1>1 DEF CallInv
<1>7. Connected'
  BY <1>2, <1>3, <1>5, <1>6 DEF Connected
<1>8. Ended' /\ Held'
  BY <1>2, <1>3, <1>5, <1>6 DEF Ended, Ending, Held
<1>9. Boxed' /\ Streamed'
  <2>1. Base' = Base /\ conn'.read \in Nat
    BY <1>2, <1>3, <1>5 DEF Base, ConnType
  <2>2. Count(conn.pcb = "NULL") <= Count(conn'.pcb = "NULL")
    BY <1>3 DEF Count
  <2> QED
    BY <1>4, <2>1, <2>2, Answers2
<1> QED
  BY <1>5, <1>7, <1>8, <1>9, CallInvAfter

\* The connection is established.
LEMMA Establishes ==
    ASSUME Handling, conn.pcb = "SYN_SENT", thr # "drain",
           NEW w \in Windows, do_connected(w)
    PROVE  CallInv'
<1>1. CallInv /\ os.Cur = Tcpip /\ thr \in {"handle", "timer"}
  BY DEF Handling
<1>2. Connected /\ Ended /\ Held /\ Typed
  BY <1>1 DEF CallInv
<1>3. conn.state = "CONNECT" /\ conn.current_msg /\ api.fn = "connect" /\ api.err # "OK" /\ InHand
  BY <1>2 DEF Connected, InHand
<1>4. conn \in ConnType /\ api \in ApiType /\ InCall /\ lost' = lost /\ msg # "API" /\ ~Sent
  BY <1>1, <1>3, InHandConn DEF do_connected
<1>5. Fresh
  BY <1>2, <1>3, <1>4 DEF Connected
<1>6. /\ conn'.pcb = "ESTABLISHED" /\ conn'.state = "NONE" /\ conn'.current_msg = FALSE
      /\ conn'.recvmbox = conn.recvmbox /\ conn'.fin = conn.fin /\ conn'.rcvd = conn.rcvd
      /\ conn'.read = conn.read /\ conn' \in ConnType
      /\ api'.fn = api.fn /\ api' \in ApiType /\ api'.err = "OK" /\ os' = Signal(os)
  <2>1. /\ conn' = [conn EXCEPT !.pcb = "ESTABLISHED", !.state = "NONE", !.current_msg = FALSE,
                                !.snd = SynAcked(@, w)]
        /\ os' = Signal(os) /\ api' = [api EXCEPT !.err = "OK"]
    BY DEF do_connected, Ack
  <2>4. conn.snd \in Snd
    BY <1>4 DEF ConnType
  <2>2. SynAcked(conn.snd, w) \in Snd
    BY <2>4, SynSnd
  <2>3. api'.fn = api.fn /\ api' \in ApiType /\ api'.err = "OK"
    BY <1>4, <2>1 DEF ApiType
  <2> QED
    BY <1>4, <2>1, <2>2, <2>3 DEF ConnType
<1>7. Answering
  BY <1>1, <1>3, <1>4, <1>6 DEF Answering
<1>8. /\ Steady(os)' /\ Where' /\ Packed' /\ Once' /\ Typed'
      /\ Box' = Box /\ Received' = Received
      /\ InCall /\ InCall' /\ ~Sent' /\ cli \in {"await", "asleep"} /\ cli' = cli
      /\ buf' = buf /\ thr' = "fetch"
  BY <1>7, Answers1
<1>9. Connected'
  BY <1>2, <1>3, <1>4, <1>5, <1>6, <1>8 DEF Connected, Fresh
<1>10. Ended' /\ Held'
  BY <1>2, <1>3, <1>5, <1>6, <1>8, Nones DEF Ended, Ending, Held, Fresh, NoBuf
<1>11. Boxed' /\ Streamed'
  <2>1. Base' = Base /\ conn'.read \in Nat
    BY <1>4, <1>6, <1>8 DEF Base, ConnType
  <2>2. Count(conn.pcb = "NULL") <= Count(conn'.pcb = "NULL")
    BY <1>6 DEF Count
  <2> QED
    BY <1>7, <2>1, <2>2, Answers2
<1> QED
  BY <1>8, <1>9, <1>10, <1>11, CallInvAfter

\* The connection is closed, or the call waits for memory for the FIN.
LEMMA Closes ==
    ASSUME Handling, InHand, thr # "drain", api.fn \in {"close", "delconn"},
           NEW s \in Snd, NEW c, c = [conn EXCEPT !.snd = s], do_close_internal(os, c)
    PROVE  CallInv'
<1>1. CallInv /\ os.Cur = Tcpip /\ thr \in {"handle", "timer"}
  BY DEF Handling
<1>2. conn \in ConnType /\ api \in ApiType /\ InCall /\ lost' = lost /\ (Sent <=> msg = "API")
  BY <1>1, InHandConn DEF do_close_internal
<1>3. /\ conn'.recvmbox = conn.recvmbox /\ conn'.fin = conn.fin /\ conn'.rcvd = conn.rcvd
      /\ conn'.read = conn.read /\ conn' \in ConnType
      /\ api'.fn = api.fn /\ api' \in ApiType
      /\ \/ os' = Signal(os) /\ conn'.current_msg = FALSE /\ conn'.state = "NONE" /\ conn'.pcb = "NULL"
         \/ os' = os /\ conn'.current_msg = TRUE /\ conn'.state = "CLOSE" /\ conn'.pcb = "ESTABLISHED"
            /\ conn.pcb = "ESTABLISHED"
  <2>0. /\ c \in ConnType /\ c.recvmbox = conn.recvmbox /\ c.fin = conn.fin /\ c.rcvd = conn.rcvd
        /\ c.read = conn.read /\ c.pcb = conn.pcb
    BY <1>2 DEF ConnType
  <2>1. CASE /\ conn' = [c EXCEPT !.pcb = "NULL", !.snd = NoSnd, !.state = "NONE",
                                  !.current_msg = FALSE]
             /\ os' = Signal(os) /\ api' = [api EXCEPT !.err = "OK"]
    <3>1. NoSnd \in Snd
      BY SynSnd
    <3>2. /\ conn'.pcb = "NULL" /\ conn'.state = "NONE" /\ conn'.current_msg = FALSE
          /\ conn'.recvmbox = c.recvmbox /\ conn'.fin = c.fin /\ conn'.rcvd = c.rcvd
          /\ conn'.read = c.read /\ conn' \in ConnType
      BY <2>0, <2>1, <3>1 DEF ConnType
    <3>3. api'.fn = api.fn /\ api' \in ApiType
      BY <1>2, <2>1 DEF ApiType
    <3> QED
      BY <2>0, <2>1, <3>2, <3>3
  <2>2. CASE c.pcb = "ESTABLISHED" /\ conn' = [c EXCEPT !.state = "CLOSE", !.current_msg = TRUE]
             /\ os' = os /\ api' = api
    BY <1>2, <2>0, <2>2 DEF ConnType, ApiType
  <2> QED
    BY <2>1, <2>2 DEF do_close_internal
<1>4. Answering
  BY <1>1, <1>2, <1>3 DEF Answering
<1>5. /\ Steady(os)' /\ Where' /\ Packed' /\ Once' /\ Typed'
      /\ Box' = Box /\ Received' = Received
      /\ InCall /\ InCall' /\ ~Sent' /\ cli \in {"await", "asleep"} /\ cli' = cli
      /\ buf' = buf /\ thr' = "fetch"
  BY <1>4, Answers1
<1>6. Connected /\ Ended /\ Held /\ Boxed
  BY <1>1 DEF CallInv
<1>7. Connected'
  BY <1>2, <1>3, <1>5, <1>6 DEF Connected
<1>8. Held'
  BY <1>2, <1>3, <1>5, <1>6 DEF Held
<1>9. Count(conn.pcb = "NULL") <= Count(conn'.pcb = "NULL")
  BY <1>3 DEF Count
<1>10. Ended'
  <2>1. conn.recvmbox => Len(Received) \in Nat
    BY <1>1, ValidBox
  <2>2. ~lost /\ conn.rcvd = conn.read /\ (conn.pcb = "ESTABLISHED" => conn.fin)
        /\ (conn.recvmbox => Len(Received) <= Count(conn.pcb = "NULL"))
    BY <1>2, <1>6 DEF Ended, Ending
  <2>3. Count(conn.pcb = "NULL") \in Nat /\ Count(conn'.pcb = "NULL") \in Nat
    BY DEF Count
  <2> QED
    BY <1>2, <1>3, <1>5, <1>9, <2>1, <2>2, <2>3 DEF Ended
<1>11. Boxed' /\ Streamed'
  <2>1. Base' = Base /\ conn'.read \in Nat
    BY <1>2, <1>3, <1>5 DEF Base, ConnType
  <2> QED
    BY <1>4, <1>9, <2>1, Answers2
<1> QED
  BY <1>5, <1>7, <1>8, <1>10, <1>11, CallInvAfter

\* The netconn has no pcb any more.
LEMMA NothingToClose ==
    ASSUME Handling, msg = "API", thr # "drain", api.fn \in {"close", "delconn"}, conn' = conn,
           os' = Signal(os), lost' = lost, NEW err \in {"VAL", api.err}, api' = [api EXCEPT !.err = err]
    PROVE  CallInv'
<1>1. CallInv /\ os.Cur = Tcpip /\ thr \in {"handle", "timer"} /\ InHand
  BY DEF Handling, InHand
<1>2. /\ conn \in ConnType /\ api \in ApiType /\ ~conn.current_msg /\ conn.state = "NONE" /\ Sent /\ InCall
      /\ conn.pcb # "SYN_SENT"
  BY <1>1, InHandConn
<1>3. api' \in ApiType /\ api'.fn = api.fn
  BY <1>2 DEF ApiType
<1>4. Answering
  BY <1>1, <1>2, <1>3 DEF Answering
<1>5. /\ Steady(os)' /\ Where' /\ Packed' /\ Once' /\ Typed'
      /\ Box' = Box /\ Received' = Received
      /\ InCall /\ InCall' /\ ~Sent' /\ cli \in {"await", "asleep"} /\ cli' = cli
      /\ buf' = buf /\ thr' = "fetch"
  BY <1>4, Answers1
<1>6. Connected /\ Ended /\ Held /\ lost' = lost /\ conn' = conn
  BY <1>1 DEF CallInv
<1>7. Connected'
  BY <1>2, <1>3, <1>5, <1>6 DEF Connected
<1>8. Ended' /\ Held'
  BY <1>2, <1>3, <1>5, <1>6 DEF Ended, Ending, Held
<1>9. Boxed' /\ Streamed'
  <2>1. Base' = Base /\ conn'.read \in Nat
    BY <1>2, <1>5, <1>6 DEF Base, ConnType
  <2>2. Count(conn.pcb = "NULL") <= Count(conn'.pcb = "NULL")
    BY <1>6 DEF Count
  <2> QED
    BY <1>4, <2>1, <2>2, Answers2
<1> QED
  BY <1>5, <1>7, <1>8, <1>9, CallInvAfter

\* Nothing happens but that the pcb sends.
LEMMA Passes ==
    ASSUME Handling, msg # "API", thr # "drain", os' = os, api' = api, lost' = lost,
           \/ conn' = conn
           \/ \E s \in Snd : conn' = [conn EXCEPT !.snd = s] /\ (conn = NoConn => s = NoSnd)
    PROVE  CallInv'
<1>1. CallInv /\ os.Cur = Tcpip /\ thr \in {"handle", "timer"} /\ thr' = "fetch" /\ msg' = None
      /\ cli' = cli /\ buf' = buf /\ blocks' = blocks
  BY DEF Handling
<1>2. TB.EventPtr = None /\ TB.Msg = None
  BY <1>1, TcpTurn
<1>3. Typed /\ Connected /\ Ended /\ Held /\ Boxed /\ Streamed /\ Once
      /\ (cli = "asleep" => CB.Dly = 0 /\ CB.StatPend = "OK" /\ CB.Msg = None)
      /\ (cli = "fetching" /\ ~Listed(CB) => CB.Msg \in SegOrEOF)
  BY <1>1 DEF CallInv, Where
<1>4. Shows(os', TB, CB, MailBox, Box, Tokens)
  BY <1>1, Seen
<1>5. /\ Steady(os)' /\ Where' /\ Packed' /\ inpkts' \in 0 .. MEMP_NUM_TCPIP_MSG_INPKT
      /\ TB' = TB /\ CB' = CB /\ Box' = Box /\ Received' = Received /\ Tokens' = Tokens
  BY <1>2, <1>3, <1>4, Settled DEF Received
<1>6. /\ conn'.pcb = conn.pcb /\ conn'.state = conn.state /\ conn'.current_msg = conn.current_msg
      /\ conn'.recvmbox = conn.recvmbox /\ conn'.fin = conn.fin /\ conn'.rcvd = conn.rcvd
      /\ conn'.read = conn.read /\ conn' \in ConnType
      /\ conn = NoConn => conn' = conn
  <2>0. conn \in ConnType
    BY <1>3 DEF Typed
  <2>1. CASE conn' = conn
    BY <2>0, <2>1
  <2>2. CASE \E s \in Snd : conn' = [conn EXCEPT !.snd = s] /\ (conn = NoConn => s = NoSnd)
    <3>1. PICK s \in Snd : conn' = [conn EXCEPT !.snd = s] /\ (conn = NoConn => s = NoSnd)
      BY <2>2
    <3>2. conn = NoConn => conn' = conn
      <4>1. conn = NoConn => conn.snd = NoSnd
        BY DEF NoConn
      <4>2. [conn EXCEPT !.snd = conn.snd] = conn
        BY <2>0 DEF ConnType
      <4> QED
        BY <3>1, <4>1, <4>2
    <3> QED
      BY <2>0, <3>1, <3>2 DEF ConnType
  <2> QED
    BY <2>1, <2>2
<1>7. (InCall' <=> InCall) /\ (Sent' <=> Sent)
  BY <1>1, <1>5, Nones DEF InCall, Sent
<1>8. Once'
  BY <1>1, <1>3, <1>5, <1>6, Nones DEF Once, Count
<1>9. Typed' /\ Held' /\ Ended' /\ Boxed'
  BY <1>1, <1>3, <1>5, <1>6, <1>7 DEF Typed, Held, Ended, Ending, Boxed
<1>10. Connected'
  BY <1>1, <1>3, <1>5, <1>6, <1>7 DEF Connected, Fresh, NoConn
<1>11. Streamed'
  BY <1>1, <1>3, <1>5, <1>6 DEF Streamed, Base, Unread, Handed, Ends
<1> QED
  BY <1>5, <1>8, <1>9, <1>10, <1>11, CallInvAfter

-----------------------------------------------------------------------------
(* What the mailbox holds.                                                    *)

\* The stream grows, ends, or loses what finds no room.
LEMMA Grows ==
    ASSUME NEW b \in Nat, NEW s \in Seq(SegOrEOF), NEW n \in Nat, Stream(b, s, n, FALSE, 0)
    PROVE  Stream(b, Append(s, n + 1), n + 1, FALSE, 0)
<1>1. b + Len(s) = n /\ b <= n /\ Len(s) \in Nat
  BY DEF Stream
<1>2. Len(Append(s, n + 1)) = Len(s) + 1
  OBVIOUS
<1>3. \A i \in 1 .. Len(s) + 1 : Append(s, n + 1)[i] = b + i
  <2>1. SUFFICES ASSUME NEW i \in 1 .. Len(s) + 1 PROVE Append(s, n + 1)[i] = b + i
    OBVIOUS
  <2>2. CASE i = Len(s) + 1
    BY <1>1, <2>2
  <2>3. CASE i # Len(s) + 1
    <3>1. i \in 1 .. Len(s) /\ Append(s, n + 1)[i] = s[i] /\ b + i <= n
      BY <1>1, <2>3
    <3> QED
      BY <3>1 DEF Stream
  <2> QED
    BY <2>2, <2>3
<1> QED
  BY <1>1, <1>2, <1>3 DEF Stream

\* The end of the data, added to the blocks, keeps them a stream.
LEMMA Finishes ==
    ASSUME NEW b \in Nat, NEW s \in Seq(SegOrEOF), NEW n \in Nat, NEW e \in Int, Stream(b, s, n, FALSE, e)
    PROVE  Stream(b, Append(s, EOF), n, FALSE, e + 1)
<1>1. b + Len(s) <= n + e /\ n <= b + Len(s) /\ b <= n /\ Len(s) \in Nat
  BY DEF Stream
<1>2. Len(Append(s, EOF)) = Len(s) + 1
  OBVIOUS
<1>3. \A i \in 1 .. Len(s) + 1 :
            IF b + i <= n THEN Append(s, EOF)[i] = b + i ELSE Append(s, EOF)[i] = EOF
  <2>1. SUFFICES ASSUME NEW i \in 1 .. Len(s) + 1
                 PROVE  IF b + i <= n THEN Append(s, EOF)[i] = b + i ELSE Append(s, EOF)[i] = EOF
    OBVIOUS
  <2>2. CASE i = Len(s) + 1
    BY <1>1, <2>2
  <2>3. CASE i # Len(s) + 1
    <3>1. i \in 1 .. Len(s) /\ Append(s, EOF)[i] = s[i]
      BY <1>1, <2>3
    <3> QED
      BY <3>1 DEF Stream
  <2> QED
    BY <2>2, <2>3
<1> QED
  BY <1>1, <1>2, <1>3 DEF Stream

\* A segment lost keeps the blocks a stream that has lost one.
LEMMA Loses ==
    ASSUME NEW b \in Nat, NEW s \in Seq(SegOrEOF), NEW n \in Nat, NEW g \in BOOLEAN,
           Stream(b, s, n, g, 0), NEW m \in {n, n + 1}, NEW e \in Int
    PROVE  Stream(b, s, m, TRUE, e)
<1>1. b <= n /\ Len(s) \in Nat /\ \A i \in 1 .. Len(s) : b + i <= n /\ s[i] = b + i
  BY DEF Stream
<1>2. b <= m /\ \A i \in 1 .. Len(s) : b + i <= m
  BY <1>1
<1> QED
  BY <1>1, <1>2 DEF Stream

\* What is unread.
LEMMA UnreadType ==
    ASSUME CallInv, conn.recvmbox
    PROVE  /\ Unread \in Seq(SegOrEOF) /\ Received \in Seq(SegOrEOF)
           /\ Base \in Nat /\ conn.rcvd \in Nat /\ conn.read \in Nat /\ lost \in BOOLEAN
           /\ Ends = Count(conn.fin) + Count(conn.pcb = "NULL") - Count(buf = EOF)
           /\ Stream(Base, Unread, conn.rcvd, lost, Ends)
<1>1. Received \in Seq(SegOrEOF) /\ (Handed => CB.Msg \in SegOrEOF)
  BY DEF CallInv, Boxed, Handed, Where
<1>2. Unread \in Seq(SegOrEOF)
  BY <1>1 DEF Unread
<1>3. conn.rcvd \in Nat /\ conn.read \in Nat /\ lost \in BOOLEAN
  BY DEF CallInv, Typed, ConnType
<1>4. Base \in Nat
  BY <1>3 DEF Base
<1> QED
  BY <1>1, <1>2, <1>3, <1>4 DEF CallInv, Streamed, Ends

\* A post to a mailbox with room.
Delivered(cb, bx, p) ==
    /\ cb.EventPtr = CB.EventPtr
    /\ bx = [q |-> bx.q, size |-> RECVMBOX_SIZE] /\ bx.q \in Seq(SegOrEOF)
    /\ (IF cli = "fetching" /\ ~Listed(cb) THEN <<cb.Msg>> \o bx.q ELSE bx.q) = Append(Unread, p)
    /\ cli = "fetching" => ~Listed(cb) /\ cb.Msg \in SegOrEOF
    /\ cli # "fetching" => cb = CB /\ bx.q = Append(Received, p)
    /\ Len(bx.q) <= Len(Received) + 1

\* A block posted into the client's mailbox is in it, or in the hands of the client.
LEMMA Delivers ==
    ASSUME CallInv, os.Cur = Tcpip, TB.EventPtr = None, RecvValid, NEW p \in SegOrEOF
    PROVE  \E cb, bx : /\ Shows(OSQPost(os, "recvmbox", p), TB, cb, MailBox, bx, Tokens)
                       /\ Delivered(cb, bx, p)
<1>1. /\ conn.recvmbox /\ Len(Received) < RECVMBOX_SIZE /\ Len(Received) \in Nat
      /\ Box = [q |-> Received, size |-> RECVMBOX_SIZE]
      /\ Received \in Seq(SegOrEOF) /\ Received \in Seq(Letters)
  BY ValidBox
<1>2. Shows(os, TB, CB, MailBox, Box, Tokens) /\ Boxed /\ Where
  BY Seen DEF CallInv
<1>3. TB.EventPtr # "recvmbox" /\ RECVMBOX_SIZE \in Nat
  BY Nones
<1>4. CASE cli = "fetching" /\ Listed(CB)
  <2> DEFINE cb == Answered(CB, p, "Q", "OK")
  <2>1. CB.EventPtr = "recvmbox" /\ Received = <<>> /\ CB \in TCB(Ptrs) /\ BlockOk(CB) /\ p \in Ptrs
    BY <1>2, <1>4, Turns DEF Where, Boxed, Ptrs
  <2>2. /\ cb.EventPtr = CB.EventPtr /\ cb.Stat = CB.Stat \ {"Q"} /\ cb.StatPend = "OK" /\ cb.Msg = p
    BY <2>1, AnsweredType
  <2>3. ~Listed(cb)
    BY <2>1, <2>2 DEF BlockOk, Kind, Listed
  <2>4. Shows(OSQPost(os, "recvmbox", p), TB, cb, MailBox, Box, Tokens)
    BY <1>2, <1>3, <1>4, <2>1, BoxWakes
  <2> HIDE DEF cb
  <2>5. Unread = <<>>
    BY <1>4, <2>1 DEF Unread, Handed
  <2>6. <<p>> \o <<>> = Append(<<>>, p)
    OBVIOUS
  <2>7. Box.q = Received
    BY <1>1
  <2>8. Delivered(cb, Box, p)
    BY <1>1, <1>4, <2>1, <2>2, <2>3, <2>5, <2>6, <2>7 DEF Delivered
  <2> QED
    BY <2>4, <2>8
<1>5. CASE ~(cli = "fetching" /\ Listed(CB))
  <2> DEFINE bx == [q |-> Append(Received, p), size |-> RECVMBOX_SIZE]
  <2>1. ~(CB.EventPtr = "recvmbox" /\ Listed(CB))
    BY <1>2, <1>5, Nones DEF Where
  <2>2. Shows(os, TB, CB, MailBox, [q |-> Received, size |-> RECVMBOX_SIZE], Tokens)
    BY <1>1, <1>2
  <2>3. Shows(OSQPost(os, "recvmbox", p), TB, CB, MailBox, bx, Tokens)
    BY <1>1, <1>3, <2>1, <2>2, BoxAppends
  <2>4. bx.q = Append(Received, p) /\ bx.q \in Seq(SegOrEOF) /\ Len(bx.q) = Len(Received) + 1
        /\ bx = [q |-> bx.q, size |-> RECVMBOX_SIZE]
    BY <1>1
  <2> HIDE DEF bx
  <2>5. cli = "fetching" => CB.Msg \in SegOrEOF /\ ~Listed(CB)
    BY <1>2, <1>5 DEF Where
  <2>6. (IF cli = "fetching" /\ ~Listed(CB) THEN <<CB.Msg>> \o bx.q ELSE bx.q) = Append(Unread, p)
    <3>1. CASE cli = "fetching"
      <4>1. Unread = <<CB.Msg>> \o Received /\ CB.Msg \in SegOrEOF /\ ~Listed(CB)
        BY <2>5, <3>1 DEF Unread, Handed
      <4>2. <<CB.Msg>> \in Seq(SegOrEOF) /\ <<p>> \in Seq(SegOrEOF)
        BY <4>1
      <4>3. Append(Received, p) = Received \o <<p>>
        BY <1>1, AppendIsConcat
      <4>4. Append(<<CB.Msg>> \o Received, p) = (<<CB.Msg>> \o Received) \o <<p>>
        BY <1>1, <4>2, AppendIsConcat, ConcatProperties
      <4>5. (<<CB.Msg>> \o Received) \o <<p>> = <<CB.Msg>> \o (Received \o <<p>>)
        BY <1>1, <4>2, ConcatAssociative
      <4> QED
        BY <2>4, <3>1, <4>1, <4>3, <4>4, <4>5
    <3>2. CASE cli # "fetching"
      BY <2>4, <3>2 DEF Unread, Handed
    <3> QED
      BY <3>1, <3>2
  <2>7. Delivered(CB, bx, p)
    BY <1>1, <2>4, <2>5, <2>6 DEF Delivered
  <2> QED
    BY <2>3, <2>7
<1> QED
  BY <1>4, <1>5

\* A segment arrives, or the end of the data.
LEMMA Receives ==
    ASSUME Handling, msg \in Packets, thr # "drain", NEW c, NEW p, recv_tcp(c, p), Open,
           \/ conn.rcvd < Segments /\ c = [conn EXCEPT !.rcvd = @ + 1] /\ p = conn.rcvd + 1
           \/ c = [conn EXCEPT !.fin = TRUE] /\ p = EOF
    PROVE  CallInv'
<1>1. CallInv /\ os.Cur = Tcpip /\ thr \in {"handle", "timer"} /\ thr' = "fetch" /\ msg' = None
      /\ cli' = cli /\ buf' = buf /\ blocks' = blocks /\ msg # "API"
  BY Nones DEF Handling
<1>2. TB.EventPtr = None /\ TB.Msg = None
  BY <1>1, TcpTurn
<1>3. Typed /\ Connected /\ Ended /\ Held /\ Boxed /\ Streamed /\ Once /\ Packed /\ Where
      /\ (cli = "asleep" => CB.Dly = 0 /\ CB.StatPend = "OK" /\ CB.Msg = None)
  BY <1>1 DEF CallInv, Where
<1>4. conn \in ConnType /\ conn.pcb = "ESTABLISHED" /\ ~conn.fin /\ conn.recvmbox /\ ~Ending /\ buf # EOF
  BY <1>3 DEF Open, Typed, Connected, Ended, Ending
<1>5. cli # "fetch" /\ cli # "alloc"
  <2>1. inpkts # 0
    BY <1>2, <1>3, Nones DEF Packed, Count
  <2>2. cli = "fetch" => CB.EventPtr = None
    BY <1>3 DEF Where
  <2>3. cli # "alloc"
    BY <1>3, <1>4 DEF Connected, NoConn
  <2> QED
    BY <1>3, <2>1, <2>2, <2>3 DEF Packed
<1>6. /\ c.last_err = conn.last_err /\ c.pcb = conn.pcb /\ c.state = conn.state
      /\ c.current_msg = conn.current_msg /\ c.recvmbox = conn.recvmbox /\ c.read = conn.read /\ c \in ConnType
      /\ \/ c.rcvd = conn.rcvd + 1 /\ c.fin = conn.fin /\ p = conn.rcvd + 1
         \/ c.rcvd = conn.rcvd /\ c.fin = TRUE /\ p = EOF
      /\ p \in SegOrEOF
  <2>1. CASE conn.rcvd < Segments /\ c = [conn EXCEPT !.rcvd = @ + 1] /\ p = conn.rcvd + 1
    <3>1. conn.rcvd + 1 \in 0 .. Segments /\ conn.rcvd + 1 \in SegOrEOF
      BY <1>4, <2>1, Nones DEF ConnType, SegOrEOF
    <3> QED
      BY <1>4, <2>1, <3>1 DEF ConnType
  <2>2. CASE c = [conn EXCEPT !.fin = TRUE] /\ p = EOF
    BY <1>4, <2>2 DEF ConnType, SegOrEOF
  <2> QED
    BY <2>1, <2>2
<1>7. /\ conn'.pcb = conn.pcb /\ conn'.state = conn.state /\ conn'.current_msg = conn.current_msg
      /\ conn'.recvmbox = conn.recvmbox /\ conn'.read = conn.read /\ conn' \in ConnType
      /\ conn'.rcvd = c.rcvd /\ conn'.fin = c.fin
  <2>1. conn' = c \/ conn' = SafeErr(c, "OK")
    BY DEF recv_tcp
  <2>2. conn' = c \/ conn' = [c EXCEPT !.last_err = "OK"]
    BY <2>1 DEF SafeErr
  <2> QED
    BY <1>6, <2>2 DEF ConnType
<1>8. api' = api
  BY DEF recv_tcp
<1>9. /\ Unread \in Seq(SegOrEOF) /\ Received \in Seq(SegOrEOF)
      /\ Base \in Nat /\ conn.rcvd \in Nat /\ conn.read \in Nat /\ lost \in BOOLEAN
      /\ Stream(Base, Unread, conn.rcvd, lost, 0)
  <2>1. Ends = 0
    BY <1>4 DEF Ends, Count
  <2> QED
    BY <1>1, <1>4, <2>1, UnreadType
<1>10. InCall' <=> InCall
  BY <1>1 DEF InCall
<1>11. InCall => api.fn # "newconn" /\ (api.fn = "connect" => api.err = "OK")
  BY <1>3, <1>4 DEF Connected, Fresh
<1>12. Base' = Base
  BY <1>1, <1>7 DEF Base
<1>13. CASE RecvValid
  <2>1. os' = OSQPost(os, "recvmbox", p) /\ lost' = lost
    BY <1>13 DEF recv_tcp
  <2>2. PICK cb, bx : /\ Shows(OSQPost(os, "recvmbox", p), TB, cb, MailBox, bx, Tokens)
                      /\ Delivered(cb, bx, p)
    BY <1>1, <1>2, <1>6, <1>13, Delivers
  <2>3. Shows(os', TB, cb, MailBox, bx, Tokens)
    BY <2>1, <2>2
  <2>4. /\ cb.EventPtr = CB.EventPtr
        /\ cli = "asleep" => cb.Dly = 0 /\ cb.StatPend = "OK" /\ cb.Msg = None
        /\ cli = "fetching" /\ ~Listed(cb) => cb.Msg \in SegOrEOF
    BY <1>3, <2>2 DEF Delivered
  <2>5. /\ Steady(os)' /\ Where' /\ Packed' /\ inpkts' \in 0 .. MEMP_NUM_TCPIP_MSG_INPKT
        /\ TB' = TB /\ CB' = cb /\ Box' = bx /\ Received' = bx.q /\ Tokens' = Tokens
    BY <1>2, <2>3, <2>4, Settled
  <2>6. Sent' <=> Sent
    BY <1>1, <2>5, Nones DEF Sent
  <2>7. ~lost
    BY <1>3, <1>13, <1>1, ValidBox, Nones DEF Boxed
  <2>15. lost = FALSE
    BY <1>9, <2>7
  <2>8. Unread' = Append(Unread, p)
    BY <1>1, <2>2, <2>5 DEF Unread, Handed, Delivered
  <2>9. Once'
    <3>1. cli = "asleep" => cb = CB
      BY <2>2 DEF Delivered
    <3> QED
      BY <1>1, <1>3, <1>7, <2>5, <3>1, Nones DEF Once, Count
  <2>10. Typed'
    BY <1>1, <1>3, <1>7, <1>8, <2>1, <2>5 DEF Typed
  <2>11. Connected'
    BY <1>1, <1>3, <1>4, <1>5, <1>7, <1>8, <1>10, <1>11, <2>6 DEF Connected
  <2>12. Ended' /\ Held'
    BY <1>1, <1>3, <1>4, <1>7, <1>8, <1>10, <2>6 DEF Ended, Ending, Held
  <2>13. Boxed'
    BY <1>1, <1>3, <1>4, <1>7, <2>1, <2>2, <2>5, <2>7 DEF Boxed, Delivered
  <2>14. Streamed'
    <3>1. CASE conn'.rcvd = conn.rcvd + 1 /\ conn'.fin = conn.fin /\ p = conn.rcvd + 1
      <4>1. Stream(Base, Append(Unread, conn.rcvd + 1), conn.rcvd + 1, FALSE, 0)
        BY <1>9, <2>15, Grows
      <4>2. Ends' = 0
        BY <1>1, <1>4, <1>7, <3>1 DEF Ends, Count
      <4>3. Stream(Base', Unread', conn'.rcvd, lost', Ends')
        BY <1>12, <2>1, <2>15, <2>8, <3>1, <4>1, <4>2
      <4>4. Base' <= conn'.rcvd
        BY <4>3 DEF Stream
      <4> QED
        BY <4>3, <4>4 DEF Streamed
    <3>2. CASE conn'.rcvd = conn.rcvd /\ conn'.fin = TRUE /\ p = EOF
      <4>1. Stream(Base, Append(Unread, EOF), conn.rcvd, FALSE, 0 + 1)
        <5>1. Stream(Base, Unread, conn.rcvd, FALSE, 0)
          BY <1>9, <2>15
        <5>2. 0 \in Int
          OBVIOUS
        <5> QED
          BY <1>9, <5>1, <5>2, Finishes
      <4>2. Ends' = 0 + 1
        BY <1>1, <1>4, <1>7, <3>2 DEF Ends, Count
      <4>3. Stream(Base', Unread', conn'.rcvd, lost', Ends')
        BY <1>12, <2>1, <2>15, <2>8, <3>2, <4>1, <4>2
      <4>4. Base' <= conn'.rcvd
        BY <4>3 DEF Stream
      <4> QED
        BY <4>3, <4>4 DEF Streamed
    <3> QED
      BY <1>6, <1>7, <3>1, <3>2
  <2> QED
    BY <2>5, <2>9, <2>10, <2>11, <2>12, <2>13, <2>14, CallInvAfter
<1>14. CASE ~RecvValid
  <2>1. os' = os /\ lost' = TRUE
    BY <1>14 DEF recv_tcp
  <2>2. Shows(os', TB, CB, MailBox, Box, Tokens)
    BY <1>1, <2>1, Seen
  <2>3. cli = "fetching" /\ ~Listed(CB) => CB.Msg \in SegOrEOF
    BY <1>3 DEF Where
  <2>4. /\ Steady(os)' /\ Where' /\ Packed' /\ inpkts' \in 0 .. MEMP_NUM_TCPIP_MSG_INPKT
        /\ TB' = TB /\ CB' = CB /\ Box' = Box /\ Received' = Received /\ Tokens' = Tokens
    BY <1>2, <1>3, <2>2, <2>3, Settled DEF Received
  <2>5. Sent' <=> Sent
    BY <1>1, <2>4, Nones DEF Sent
  <2>6. Len(Received) >= RECVMBOX_SIZE
    BY <1>1, <1>4, <1>14, ValidBox, Nones
  <2>7. Unread' = Unread
    BY <1>1, <2>4 DEF Unread, Handed
  <2>8. Once'
    BY <1>1, <1>3, <1>7, <2>4, Nones DEF Once, Count
  <2>9. Typed'
    BY <1>1, <1>3, <1>7, <1>8, <2>1, <2>4 DEF Typed
  <2>10. Connected'
    BY <1>1, <1>3, <1>4, <1>5, <1>7, <1>8, <1>10, <1>11, <2>5 DEF Connected
  <2>11. Ended' /\ Held'
    BY <1>1, <1>3, <1>4, <1>7, <1>8, <1>10, <2>5 DEF Ended, Ending, Held
  <2>12. Boxed'
    BY <1>1, <1>3, <1>4, <1>5, <1>7, <2>4, <2>6 DEF Boxed
  <2>13. Streamed'
    <3>1. Ends' \in Int
      BY DEF Ends, Count
    <3>2. conn'.rcvd \in {conn.rcvd, conn.rcvd + 1}
      BY <1>6, <1>7
    <3>3. Stream(Base, Unread, conn'.rcvd, TRUE, Ends')
      BY <1>9, <3>1, <3>2, Loses
    <3>4. Stream(Base', Unread', conn'.rcvd, lost', Ends')
      BY <1>12, <2>1, <2>7, <3>3
    <3>5. Base' <= conn'.rcvd
      BY <3>4 DEF Stream
    <3> QED
      BY <3>4, <3>5 DEF Streamed
  <2> QED
    BY <2>4, <2>8, <2>9, <2>10, <2>11, <2>12, <2>13, CallInvAfter
<1> QED
  BY <1>13, <1>14

\* The pcb is gone: a receive is woken if the mailbox has room, a call in hand answered.
GivingUp(err) ==
    /\ Handling /\ msg # "API" /\ thr # "drain" /\ err \in {"RST", "ABRT"} /\ err_tcp(err)
    /\ conn.pcb \in {"SYN_SENT", "ESTABLISHED"}
Woken(p) ==
    /\ Steady(os)' /\ Where' /\ Packed' /\ Once' /\ inpkts' \in 0 .. MEMP_NUM_TCPIP_MSG_INPKT
    /\ InCall' <=> InCall
    /\ Sent' <=> Sent
    /\ \/ /\ ~RecvValid /\ Box' = Box /\ Received' = Received /\ Unread' = Unread
          /\ cli = "fetching" /\ Listed(CB') => Listed(CB)
       \/ /\ RecvValid /\ Box' = [q |-> Received', size |-> RECVMBOX_SIZE] /\ Received' \in Seq(SegOrEOF)
          /\ Len(Received') <= Len(Received) + 1 /\ Unread' = Append(Unread, p)
          /\ cli = "fetching" => ~Listed(CB')

\* err_tcp posts the end of the data and wakes a client that waits for a block.
LEMMA GivesUpWakes ==
    ASSUME NEW err, GivingUp(err)
    PROVE  Woken(EOF)
<1>1. CallInv /\ os.Cur = Tcpip /\ thr \in {"handle", "timer"} /\ thr' = "fetch" /\ msg' = None
      /\ cli' = cli /\ buf' = buf /\ msg # "API" /\ Handling
  BY DEF Handling, GivingUp
<1>2. TB.EventPtr = None /\ TB.Msg = None
  BY <1>1, TcpTurn
<1>3. Typed /\ Connected /\ Boxed /\ Once /\ Where /\ EOF \in SegOrEOF
      /\ (cli = "asleep" => CB.Dly = 0 /\ CB.StatPend = "OK" /\ CB.Msg = None)
      /\ (cli = "fetching" /\ ~Listed(CB) => CB.Msg \in SegOrEOF)
  BY <1>1 DEF CallInv, Where, SegOrEOF
<1>4. conn \in ConnType
  BY <1>3 DEF Typed
<1>5. ~conn'.current_msg
  <2>1. conn' = [conn EXCEPT !.pcb = "NULL", !.snd = NoSnd, !.last_err = err, !.state = "NONE",
                             !.current_msg = FALSE]
    BY DEF GivingUp, err_tcp
  <2> QED
    BY <1>4, <2>1 DEF ConnType
<1>6. InCall' <=> InCall
  BY <1>1 DEF InCall
<1>7. Shows(os, TB, CB, MailBox, Box, Tokens)
  BY <1>1, Seen
<1>8. CASE conn.state \in {"WRITE", "CLOSE", "CONNECT"}
  <2>1. InHand
    BY <1>3, <1>8 DEF Connected, InHand
  <2>2. cli \in {"await", "asleep"} /\ InCall /\ Tokens = 0 /\ (Sent <=> msg = "API")
    BY <1>1, <2>1, Handed1
  <2>3. CASE RecvValid
    <3>1. PICK cb, bx : /\ Shows(OSQPost(os, "recvmbox", EOF), TB, cb, MailBox, bx, Tokens)
                        /\ Delivered(cb, bx, EOF)
      BY <1>1, <1>2, <1>3, <2>3, Delivers
    <3>2. cb = CB /\ bx = [q |-> bx.q, size |-> RECVMBOX_SIZE] /\ bx.q \in Seq(SegOrEOF)
          /\ bx.q = Append(Received, EOF) /\ Len(bx.q) <= Len(Received) + 1
      BY <2>2, <3>1 DEF Delivered
    <3>3. Shows(OSQPost(os, "recvmbox", EOF), TB, CB, MailBox, bx, 0)
      BY <2>2, <3>1, <3>2
    <3>4. os' = Signal(OSQPost(os, "recvmbox", EOF))
      BY <1>8, <2>3 DEF GivingUp, err_tcp
    <3>5. /\ Steady(os)' /\ Where' /\ Packed' /\ Once' /\ inpkts' \in 0 .. MEMP_NUM_TCPIP_MSG_INPKT
          /\ Box' = bx /\ Received' = bx.q /\ ~Sent'
      BY <1>1, <1>2, <1>5, <2>1, <3>3, <3>4, AfterAnswer
    <3>6. Unread = Received /\ Unread' = Received'
      BY <1>1, <2>2 DEF Unread, Handed
    <3>7. /\ RecvValid /\ Box' = [q |-> Received', size |-> RECVMBOX_SIZE] /\ Received' \in Seq(SegOrEOF)
          /\ Len(Received') <= Len(Received) + 1 /\ Unread' = Append(Unread, EOF)
          /\ cli = "fetching" => ~Listed(CB')
      BY <2>2, <2>3, <3>2, <3>5, <3>6
    <3> QED
      BY <1>1, <1>6, <2>2, <3>5, <3>7 DEF Woken
  <2>4. CASE ~RecvValid
    <3>1. Shows(os, TB, CB, MailBox, Box, 0)
      BY <1>7, <2>2
    <3>2. os' = Signal(os)
      BY <1>8, <2>4 DEF GivingUp, err_tcp
    <3>3. /\ Steady(os)' /\ Where' /\ Packed' /\ Once' /\ inpkts' \in 0 .. MEMP_NUM_TCPIP_MSG_INPKT
          /\ Box' = Box /\ Received' = Box.q /\ ~Sent'
      BY <1>1, <1>2, <1>5, <2>1, <3>1, <3>2, AfterAnswer
    <3>4. Unread = Received /\ Unread' = Received' /\ Received = Box.q
      BY <1>1, <2>2 DEF Unread, Handed, Received
    <3>5. /\ ~RecvValid /\ Box' = Box /\ Received' = Received /\ Unread' = Unread
          /\ cli = "fetching" /\ Listed(CB') => Listed(CB)
      BY <2>2, <2>4, <3>3, <3>4
    <3> QED
      BY <1>1, <1>6, <2>2, <3>3, <3>5 DEF Woken
  <2> QED
    BY <2>3, <2>4
<1>9. CASE conn.state \notin {"WRITE", "CLOSE", "CONNECT"}
  <2>1. ~conn.current_msg
    BY <1>3, <1>4, <1>9 DEF Connected, ConnType
  <2>2. CASE RecvValid
    <3>1. PICK cb, bx : /\ Shows(OSQPost(os, "recvmbox", EOF), TB, cb, MailBox, bx, Tokens)
                        /\ Delivered(cb, bx, EOF)
      BY <1>1, <1>2, <1>3, <2>2, Delivers
    <3>2. os' = OSQPost(os, "recvmbox", EOF)
      BY <1>9, <2>2 DEF GivingUp, err_tcp
    <3>3. Shows(os', TB, cb, MailBox, bx, Tokens)
      BY <3>1, <3>2
    <3>4. /\ cb.EventPtr = CB.EventPtr
          /\ cli = "asleep" => cb.Dly = 0 /\ cb.StatPend = "OK" /\ cb.Msg = None
          /\ cli = "fetching" /\ ~Listed(cb) => cb.Msg \in SegOrEOF
          /\ cli = "asleep" => cb = CB
      BY <1>3, <3>1 DEF Delivered
    <3>5. /\ Steady(os)' /\ Where' /\ Packed' /\ inpkts' \in 0 .. MEMP_NUM_TCPIP_MSG_INPKT
          /\ TB' = TB /\ CB' = cb /\ Box' = bx /\ Received' = bx.q /\ Tokens' = Tokens
      BY <1>1, <1>2, <3>3, <3>4, Settled
    <3>6. Sent' <=> Sent
      BY <1>1, <3>5, Nones DEF Sent
    <3>7. Once'
      BY <1>1, <1>3, <1>5, <2>1, <3>4, <3>5, Nones DEF Once, Count
    <3>8. Unread' = Append(Unread, EOF)
      BY <1>1, <3>1, <3>5 DEF Unread, Handed, Delivered
    <3>9. /\ RecvValid /\ Box' = [q |-> Received', size |-> RECVMBOX_SIZE] /\ Received' \in Seq(SegOrEOF)
          /\ Len(Received') <= Len(Received) + 1 /\ Unread' = Append(Unread, EOF)
          /\ cli = "fetching" => ~Listed(CB')
      BY <2>2, <3>1, <3>5, <3>8 DEF Delivered
    <3> QED
      BY <1>6, <3>5, <3>6, <3>7, <3>9 DEF Woken
  <2>3. CASE ~RecvValid
    <3>1. os' = os
      BY <1>9, <2>3 DEF GivingUp, err_tcp
    <3>2. Shows(os', TB, CB, MailBox, Box, Tokens)
      BY <1>7, <3>1
    <3>3. /\ Steady(os)' /\ Where' /\ Packed' /\ inpkts' \in 0 .. MEMP_NUM_TCPIP_MSG_INPKT
          /\ TB' = TB /\ CB' = CB /\ Box' = Box /\ Received' = Received /\ Tokens' = Tokens
      BY <1>1, <1>2, <1>3, <3>2, Settled DEF Received
    <3>4. Sent' <=> Sent
      BY <1>1, <3>3, Nones DEF Sent
    <3>5. Once'
      BY <1>1, <1>3, <1>5, <2>1, <3>3, Nones DEF Once, Count
    <3>6. Unread' = Unread
      BY <1>1, <3>3 DEF Unread, Handed
    <3> QED
      BY <1>6, <2>3, <3>3, <3>4, <3>5, <3>6 DEF Woken
  <2> QED
    BY <2>2, <2>3
<1> QED
  BY <1>8, <1>9

\* err_tcp keeps the invariant: it closes the mailbox's stream and answers the call.
LEMMA GivesUpKeeps ==
    ASSUME NEW err, GivingUp(err)
    PROVE  CallInv'
<1>1. Woken(EOF)
  BY GivesUpWakes
<1>2. CallInv /\ os.Cur = Tcpip /\ thr \in {"handle", "timer"} /\ thr' = "fetch" /\ msg' = None
      /\ cli' = cli /\ buf' = buf /\ blocks' = blocks /\ lost' = lost
      /\ err \in {"RST", "ABRT"} /\ conn.pcb \in {"SYN_SENT", "ESTABLISHED"}
  BY DEF Handling, GivingUp, err_tcp
<1>3. Typed /\ Connected /\ Ended /\ Held /\ Boxed /\ Streamed
  BY <1>2 DEF CallInv
<1>4. conn \in ConnType /\ api \in ApiType
  BY <1>3 DEF Typed
<1>5. /\ conn'.pcb = "NULL" /\ conn'.state = "NONE" /\ conn'.current_msg = FALSE
      /\ conn'.recvmbox = conn.recvmbox /\ conn'.fin = conn.fin /\ conn'.rcvd = conn.rcvd
      /\ conn'.read = conn.read /\ conn' \in ConnType
  <2>1. conn' = [conn EXCEPT !.pcb = "NULL", !.snd = NoSnd, !.last_err = err, !.state = "NONE",
                             !.current_msg = FALSE]
    BY DEF GivingUp, err_tcp
  <2>2. err \in Fatal \cup {"OK", "RTE", "VAL", "TIMEOUT"}
    BY <1>2 DEF Fatal
  <2> QED
    BY <1>4, <2>1, <2>2, SynSnd DEF ConnType
<1>6. /\ api'.fn = api.fn /\ api' \in ApiType
      /\ api.fn = "connect" => (api'.err = "OK" <=> api.err = "OK")
  <2>1. \/ api' = [api EXCEPT !.err = err] /\ conn.state \in {"WRITE", "CLOSE", "CONNECT"}
        \/ api' = api
    BY DEF GivingUp, err_tcp
  <2>4. conn.state \in {"WRITE", "CLOSE", "CONNECT"} /\ api.fn = "connect" => api.err # "OK"
    BY <1>3 DEF Connected
  <2>2. err \in Fatal \cup {"OK", "RTE", "VAL"} /\ err # "OK"
    BY <1>2 DEF Fatal
  <2>3. CASE api' = [api EXCEPT !.err = err]
    BY <1>4, <2>1, <2>2, <2>3, <2>4 DEF ApiType
  <2> QED
    BY <1>4, <2>1, <2>3
<1>7. Len(Received') <= Len(Received) + 1 /\ (conn.recvmbox => Len(Received') \in Nat /\ Len(Received) \in Nat)
  <2>1. conn.recvmbox => Received \in Seq(SegOrEOF)
    BY <1>3 DEF Boxed
  <2>2. CASE RecvValid
    <3>1. conn.recvmbox /\ Received' \in Seq(SegOrEOF) /\ Len(Received') <= Len(Received) + 1
      BY <1>1, <2>2 DEF Woken, RecvValid, sys_mbox_valid
    <3> QED
      BY <2>1, <3>1
  <2>3. CASE ~RecvValid
    BY <1>1, <2>1, <2>3 DEF Woken
  <2> QED
    BY <2>2, <2>3
<1>8. (InCall' <=> InCall) /\ (Sent' <=> Sent)
  BY <1>1 DEF Woken
<1>9. Typed'
  BY <1>1, <1>2, <1>3, <1>5, <1>6 DEF Typed, Woken
<1>10. Count(conn'.pcb = "NULL") = 1 /\ Count(conn.pcb = "NULL") = 0
  BY <1>2, <1>5 DEF Count
<1>11. Connected'
  <2>1. InCall => api.fn # "newconn"
    BY <1>2, <1>3 DEF Connected
  <2>2. InCall /\ api.fn = "connect" /\ api.err # "OK" => Fresh /\ ~Sent
    BY <1>2, <1>3 DEF Connected
  <2>3. Fresh => Fresh'
    <3>1. SUFFICES ASSUME Fresh PROVE Len(Received') <= 1
      BY <1>2, <1>5, <1>10 DEF Fresh
    <3> QED
      BY <1>7, <1>10, <3>1 DEF Fresh
  <2>4. cli # "alloc"
    BY <1>2, <1>3 DEF Connected, NoConn
  <2> QED
    BY <1>2, <1>3, <1>5, <1>6, <1>8, <2>1, <2>2, <2>3, <2>4 DEF Connected
<1>12. Ended' /\ Held'
  <2>1. Ending' <=> Ending
    BY <1>2, <1>6, <1>8 DEF Ending
  <2>2. Ending /\ conn.recvmbox => Len(Received') <= 1
    BY <1>3, <1>7, <1>10 DEF Ended
  <2>3. Ended'
    BY <1>2, <1>3, <1>5, <1>10, <2>1, <2>2 DEF Ended
  <2> QED
    BY <1>2, <1>3, <1>5, <1>6, <1>8, <2>3 DEF Held
<1>13. Boxed'
  <2>1. CASE RecvValid
    <3>1. ~lost
      BY <1>2, <1>3, <2>1, ValidBox, Nones DEF Boxed
    <3> QED
      BY <1>1, <1>2, <1>5, <2>1, <3>1 DEF Boxed, Woken
  <2>2. CASE ~RecvValid
    BY <1>1, <1>2, <1>3, <1>5, <2>2 DEF Boxed, Woken
  <2> QED
    BY <2>1, <2>2
<1>14. Base' = Base /\ conn'.rcvd = conn.rcvd
  BY <1>2, <1>5 DEF Base
<1>15. Streamed'
  <2>1. Base' <= conn'.rcvd
    BY <1>3, <1>14 DEF Streamed
  <2>2. SUFFICES ASSUME conn.recvmbox PROVE Stream(Base', Unread', conn'.rcvd, lost', Ends')
    BY <1>5, <2>1 DEF Streamed
  <2>3. /\ Unread \in Seq(SegOrEOF) /\ Base \in Nat /\ conn.rcvd \in Nat /\ lost \in BOOLEAN
        /\ Ends = Count(conn.fin) + Count(conn.pcb = "NULL") - Count(buf = EOF)
        /\ Stream(Base, Unread, conn.rcvd, lost, Ends)
    BY <1>2, <2>2, UnreadType
  <2>4. Ends \in Int /\ Ends' = Ends + 1
    BY <1>2, <1>5, <1>10, <2>3 DEF Ends, Count
  <2>5. CASE RecvValid
    <3>1. ~lost
      BY <1>2, <1>3, <2>5, ValidBox, Nones DEF Boxed
    <3>2. lost = FALSE
      BY <2>3, <3>1
    <3>3. Stream(Base, Unread, conn.rcvd, FALSE, Ends)
      BY <2>3, <3>2
    <3>4. Stream(Base, Append(Unread, EOF), conn.rcvd, FALSE, Ends + 1)
      BY <2>3, <2>4, <3>3, Finishes
    <3>5. Unread' = Append(Unread, EOF)
      BY <1>1, <2>5 DEF Woken
    <3> QED
      BY <1>2, <1>14, <2>4, <3>2, <3>4, <3>5
  <2>6. CASE ~RecvValid
    <3>1. Stream(Base, Unread, conn.rcvd, lost, Ends + 1)
      BY <2>3, <2>4 DEF Stream
    <3>2. Unread' = Unread
      BY <1>1, <2>6 DEF Woken
    <3> QED
      BY <1>2, <1>14, <2>4, <3>1, <3>2
  <2> QED
    BY <2>5, <2>6
<1>16. Steady(os)' /\ Where' /\ Packed' /\ Once'
  BY <1>1 DEF Woken
<1> QED
  BY <1>9, <1>11, <1>12, <1>13, <1>15, <1>16, CallInvAfter

-----------------------------------------------------------------------------
(* The steps of tcpip_thread that end the handling.                           *)

\* The call in hand goes on.
LEMMA Goes ==
    ASSUME Handling, msg # "API", thr # "drain", NEW s \in Snd, GoesOn(s), conn = NoConn => s = NoSnd
    PROVE  CallInv'
<1>1. Connected /\ Typed
  BY DEF Handling, CallInv
<1>2. CASE conn.state = "WRITE"
  <2>1. InHand /\ do_writemore(s) /\ api.fn = "write" /\ conn.pcb = "ESTABLISHED"
    BY <1>1, <1>2 DEF Connected, InHand, GoesOn
  <2> QED
    BY <2>1, Writes
<1>3. CASE conn.state = "CLOSE"
  <2>1. InHand /\ do_close_internal(os, [conn EXCEPT !.snd = s]) /\ api.fn \in {"close", "delconn"}
    BY <1>1, <1>3 DEF Connected, InHand, GoesOn
  <2> QED
    BY <2>1, Closes
<1>4. CASE conn.state \notin {"WRITE", "CLOSE"}
  <2>1. os' = os /\ conn' = [conn EXCEPT !.snd = s] /\ api' = api /\ lost' = lost
    BY <1>4 DEF GoesOn
  <2> QED
    BY <2>1, Passes
<1> QED
  BY <1>2, <1>3, <1>4

\* A step that begins with a message in the thread's hands.
LEMMA HandlesIt ==
    ASSUME CallInv, NEW m \in Msgs, Handles(m), thr' = "fetch", UNCHANGED vC,
           inpkts' = (IF m = "API" THEN inpkts ELSE inpkts - 1)
    PROVE  Handling /\ msg = m /\ thr # "drain"
<1>1. os.Cur = Tcpip /\ thr = "handle" /\ msg = m /\ msg' = None
  BY DEF Handles, Runs
<1>2. inpkts \in Nat /\ inpkts' = inpkts - Count(msg \in Packets)
  <2>1. inpkts \in Nat
    BY Nones DEF CallInv, Typed
  <2>2. CASE m = "API"
    BY <1>1, <2>1, <2>2, Nones DEF Count
  <2>3. CASE m # "API"
    BY <1>1, <2>1, <2>3, Nones DEF Count, Msgs
  <2> QED
    BY <2>2, <2>3, <2>1
<1> QED
  BY <1>1, <1>2 DEF Handling, vC

\* do_newconn keeps the invariant of the calls.
LEMMA NewconnKeeps ==
    ASSUME CallInv, newconn
    PROVE  CallInv'
<1>1. "API" \in Msgs
  BY DEF Msgs
<1>2. Handles("API") /\ thr' = "fetch" /\ UNCHANGED vC /\ inpkts' = inpkts /\ api.fn = "newconn"
      /\ conn' = [conn EXCEPT !.pcb = "CLOSED"] /\ os' = Signal(os) /\ api' = [api EXCEPT !.err = "OK"]
      /\ lost' = lost
  BY DEF newconn, Asked, Ack
<1>3. Handling /\ msg = "API" /\ thr # "drain"
  BY <1>1, <1>2, HandlesIt
<1> QED
  BY <1>2, <1>3, GetsPcb

\* do_connect keeps the invariant of the calls.
LEMMA ConnectKeeps ==
    ASSUME CallInv, do_connect
    PROVE  CallInv'
<1>1. "API" \in Msgs
  BY DEF Msgs
<1>2. Handles("API") /\ thr' = "fetch" /\ UNCHANGED vC /\ inpkts' = inpkts /\ api.fn = "connect"
      /\ lost' = lost
  BY DEF do_connect, Asked
<1>3. Handling /\ msg = "API" /\ thr # "drain"
  BY <1>1, <1>2, HandlesIt
<1>4. CASE /\ conn' = [conn EXCEPT !.pcb = "SYN_SENT", !.state = "CONNECT", !.current_msg = TRUE,
                                   !.snd = Syn(@)]
           /\ os' = os /\ api' = api
  BY <1>2, <1>3, <1>4, AsksForIt
<1>5. CASE Ack("RTE") /\ conn' = conn
  BY <1>2, <1>3, <1>5, Refused DEF Ack
<1> QED
  BY <1>4, <1>5 DEF do_connect

\* do_write keeps the invariant of the calls.
LEMMA WriteKeeps ==
    ASSUME CallInv, do_write
    PROVE  CallInv'
<1>1. "API" \in Msgs
  BY DEF Msgs
<1>2. Handles("API") /\ thr' = "fetch" /\ UNCHANGED vC /\ inpkts' = inpkts /\ api.fn = "write"
  BY DEF do_write, Asked
<1>3. Handling /\ msg = "API" /\ thr # "drain" /\ InHand
  BY <1>1, <1>2, HandlesIt DEF InHand
<1>4. CASE conn.last_err \in Fatal
  BY <1>2, <1>3, <1>4, Refused DEF do_write, Ack
<1>5. CASE conn.last_err \notin Fatal /\ conn.pcb = "NULL"
  <2>1. os' = Signal(os) /\ api' = [api EXCEPT !.err = "CONN"] /\ conn' = conn /\ lost' = lost
    BY <1>5 DEF do_write, Ack
  <2>2. "CONN" \in Fatal \cup {"RTE"}
    BY DEF Fatal
  <2> QED
    BY <1>2, <1>3, <2>1, <2>2, Refused
<1>6. CASE conn.last_err \notin Fatal /\ conn.pcb # "NULL"
  <2>1. do_writemore(conn.snd)
    BY <1>6 DEF do_write
  <2>2. conn \in ConnType /\ conn.pcb # "SYN_SENT" /\ Connected
    BY <1>3, InHandConn DEF Handling, CallInv
  <2>3. conn.pcb = "ESTABLISHED"
    BY <1>2, <1>6, <2>2 DEF Connected, ConnType
  <2>4. conn.snd \in Snd
    BY <2>2 DEF ConnType
  <2> QED
    BY <1>2, <1>3, <2>1, <2>3, <2>4, Writes
<1> QED
  BY <1>4, <1>5, <1>6

\* do_recv keeps the invariant of the calls.
LEMMA RecvKeeps ==
    ASSUME CallInv, do_recv
    PROVE  CallInv'
<1>1. "API" \in Msgs
  BY DEF Msgs
<1>2. Handles("API") /\ thr' = "fetch" /\ UNCHANGED vC /\ inpkts' = inpkts /\ api.fn = "recv"
      /\ conn' = (IF buf = EOF THEN conn ELSE [conn EXCEPT !.read = @ + 1])
      /\ os' = Signal(os) /\ api' = [api EXCEPT !.err = "OK"] /\ lost' = lost
  BY DEF do_recv, Asked, Ack
<1>3. Handling /\ msg = "API" /\ thr # "drain"
  BY <1>1, <1>2, HandlesIt
<1> QED
  BY <1>2, <1>3, CountsAsRead

\* An acknowledgement keeps the invariant of the calls.
LEMMA AckKeeps ==
    ASSUME Handling, msg # "API", thr # "drain", conn.pcb = "ESTABLISHED", tcp_receive
    PROVE  CallInv'
<1>1. conn.snd \in Snd
  BY DEF Handling, CallInv, Typed, ConnType
<1>2. conn # NoConn
  BY DEF NoConn
<1>3. ASSUME NEW s \in Acks(conn.snd), GoesOn(s) PROVE CallInv'
  <2>1. s \in Snd
    BY <1>1, AckedSnd
  <2> QED
    BY <1>2, <1>3, <2>1, Goes
<1>4. ASSUME NEW s \in DupAcks(conn.snd), conn' = [conn EXCEPT !.snd = s],
             UNCHANGED <<os, api, lost>>
      PROVE  CallInv'
  <2>1. s \in Snd
    BY <1>1, AckedSnd
  <2>2. os' = os /\ api' = api /\ lost' = lost
    BY <1>4
  <2>3. \E u \in Snd : conn' = [conn EXCEPT !.snd = u] /\ (conn = NoConn => u = NoSnd)
    BY <1>2, <1>4, <2>1
  <2> QED
    BY <2>2, <2>3, Passes
<1> QED
  BY <1>3, <1>4 DEF tcp_receive

\* A packet handled keeps the invariant of the calls.
LEMMA InputKeeps ==
    ASSUME CallInv, ethernet_input
    PROVE  CallInv'
<1>1. PICK p \in Packets :
        /\ Handles(p) /\ thr' = "fetch" /\ inpkts' = inpkts - 1 /\ UNCHANGED <<waited, vT, vC>>
        /\ IF ~Expected(p) THEN UNCHANGED <<os, conn, api, lost>>
           ELSE CASE p = "SYNACK" -> \E w \in Windows \ {"zero"} : do_connected(w)
                  [] p = "RST" -> err_tcp("RST")
                  [] p = "DATA" -> recv_tcp([conn EXCEPT !.rcvd = @ + 1], conn.rcvd + 1)
                  [] p = "FIN" -> recv_tcp([conn EXCEPT !.fin = TRUE], EOF)
                  [] p = "ACK" -> tcp_receive
  BY DEF ethernet_input
<1>2. p \in Msgs /\ p # "API"
  BY Nones DEF Msgs
<1>3. UNCHANGED vC
  BY <1>1
<1>4. Handling /\ msg = p /\ thr # "drain"
  BY <1>1, <1>2, <1>3, HandlesIt
<1>5. CASE ~Expected(p)
  <2>1. os' = os /\ conn' = conn /\ api' = api /\ lost' = lost
    BY <1>1, <1>5
  <2> QED
    BY <1>2, <1>4, <2>1, Passes
<1>6. CASE Expected(p) /\ p = "SYNACK"
  <2>1. PICK w \in Windows : do_connected(w) /\ conn.pcb = "SYN_SENT"
    BY <1>1, <1>6 DEF Expected
  <2> QED
    BY <1>4, <2>1, Establishes
<1>7. CASE Expected(p) /\ p = "RST"
  <2>1. err_tcp("RST") /\ conn.pcb \in {"SYN_SENT", "ESTABLISHED"}
    BY <1>1, <1>7 DEF Expected
  <2>2. GivingUp("RST")
    BY <1>2, <1>4, <2>1 DEF GivingUp
  <2> QED
    BY <2>2, GivesUpKeeps
<1>8. CASE Expected(p) /\ p = "DATA"
  <2>1. recv_tcp([conn EXCEPT !.rcvd = @ + 1], conn.rcvd + 1) /\ Open /\ conn.rcvd < Segments
    BY <1>1, <1>8 DEF Expected
  <2> QED
    BY <1>4, <2>1, Receives
<1>9. CASE Expected(p) /\ p = "FIN"
  <2>1. recv_tcp([conn EXCEPT !.fin = TRUE], EOF) /\ Open
    BY <1>1, <1>9 DEF Expected
  <2> QED
    BY <1>4, <2>1, Receives
<1>10. CASE Expected(p) /\ p = "ACK"
  <2>1. tcp_receive /\ conn.pcb = "ESTABLISHED"
    BY <1>1, <1>10 DEF Expected
  <2> QED
    BY <1>2, <1>4, <2>1, AckKeeps
<1> QED
  BY <1>5, <1>6, <1>7, <1>8, <1>9, <1>10 DEF Packets

\* A timer in the thread's hands.
LEMMA ExpiresIt ==
    ASSUME CallInv, NEW h \in Handlers, Expires(h), UNCHANGED vC, inpkts' = inpkts
    PROVE  Handling /\ msg # "API" /\ thr # "drain"
<1>1. os.Cur = Tcpip /\ thr = "timer" /\ msg = h /\ thr' = "fetch" /\ msg' = None
  BY DEF Expires, Runs
<1>2. msg \notin Msgs
  BY <1>1, Nones
<1>3. msg \notin Packets /\ msg # "API"
  BY <1>2 DEF Msgs
<1>4. inpkts \in Nat
  BY Nones DEF CallInv, Typed
<1>5. inpkts' = inpkts - Count(msg \in Packets)
  BY <1>3, <1>4 DEF Count
<1> QED
  BY <1>1, <1>3, <1>5 DEF Handling, vC

\* A timer that is not TCP's keeps the invariant of the calls.
LEMMA PlainTimerKeeps ==
    ASSUME CallInv, PlainTimer
    PROVE  CallInv'
<1>1. PICK h \in Handlers : Expires(h) /\ UNCHANGED <<os, inpkts, conn, api, waited, lost, vC>>
  BY DEF PlainTimer
<1>2. os' = os /\ inpkts' = inpkts /\ conn' = conn /\ api' = api /\ lost' = lost /\ UNCHANGED vC
  BY <1>1
<1>3. Handling /\ msg # "API" /\ thr # "drain"
  BY <1>1, <1>2, ExpiresIt
<1> QED
  BY <1>2, <1>3, Passes

\* The TCP timer keeps the invariant of the calls.
LEMMA TcpTimerKeeps ==
    ASSUME CallInv, tcpip_tcp_timer
    PROVE  CallInv'
<1>1. Expires("tcpip_tcp_timer") /\ tcp_tmr /\ inpkts' = inpkts /\ UNCHANGED vC
  BY DEF tcpip_tcp_timer
<1>2. "tcpip_tcp_timer" \in Handlers
  BY DEF Handlers
<1>3. Handling /\ msg # "API" /\ thr # "drain"
  BY <1>1, <1>2, ExpiresIt
<1>4. Connected
  BY DEF CallInv
<1>5. CASE GivesUp /\ err_tcp("ABRT")
  <2>1. conn.pcb \in {"SYN_SENT", "ESTABLISHED"}
    BY <1>5 DEF GivesUp
  <2>2. GivingUp("ABRT")
    BY <1>3, <1>5, <2>1 DEF GivingUp
  <2> QED
    BY <2>2, GivesUpKeeps
<1>6. Slow(conn.snd) \in Snd /\ (conn = NoConn => Slow(conn.snd) = NoSnd)
  <2>1. conn.snd \in Snd
    BY DEF CallInv, Typed, ConnType
  <2>2. conn = NoConn => conn.snd = NoSnd
    BY DEF NoConn
  <2> QED
    BY <2>1, <2>2, RexmitSnd, SynSnd
<1>7. CASE GoesOn(Slow(conn.snd))
  BY <1>3, <1>6, <1>7, Goes
<1>8. CASE conn' = [conn EXCEPT !.snd = Slow(conn.snd)] /\ UNCHANGED <<os, api, lost>>
  <2>1. os' = os /\ api' = api /\ lost' = lost
    BY <1>8
  <2>2. \E u \in Snd : conn' = [conn EXCEPT !.snd = u] /\ (conn = NoConn => u = NoSnd)
    BY <1>6, <1>8
  <2> QED
    BY <1>3, <2>1, <2>2, Passes
<1> QED
  BY <1>1, <1>5, <1>7, <1>8 DEF tcp_tmr

-----------------------------------------------------------------------------
(* tcpip_thread goes to sleep and wakes up.                                   *)

\* A block that goes to sleep, and one that returns.
LEMMA SleptBlock ==
    ASSUME NEW b \in TCB(Ptrs), NEW e \in Event, NEW s \in {"Q", "SEM"}, NEW n \in Nat
    PROVE  /\ Waiter(b, e, s, n).EventPtr = e /\ Listed(Waiter(b, e, s, n))
           /\ Waiter(b, e, s, n).Msg = b.Msg /\ Waiter(b, e, s, n).StatPend = "OK"
           /\ Waiter(b, e, s, n).Dly = n
<1>1. s \in Stats
  BY DEF Stats, PendAny
<1> DEFINE r == Waiter(b, e, s, n)
<1>2. r.EventPtr = e /\ r.Stat = b.Stat \cup {s} /\ r.StatPend = "OK" /\ r.Dly = n /\ r.Msg = b.Msg
  BY <1>1, WaiterType
<1> HIDE DEF r
<1>3. r.Stat # {}
  BY <1>2
<1> QED
  BY <1>2, <1>3 DEF Listed, r

\* The head and the tail of a sequence.
LEMMA HeadIn ==
    ASSUME NEW S, NEW s \in Seq(S), s # <<>>
    PROVE  Head(s) \in S /\ Tail(s) \in Seq(S)
  OBVIOUS

\* A task that has come out of its pend waits for nothing.
LEMMA AwakeBlock ==
    ASSUME NEW b \in TCB(Ptrs)
    PROVE  /\ Returned(b).EventPtr = None /\ ~Listed(Returned(b)) /\ Returned(b).Msg = None
           /\ Returned(b).StatPend = "OK"
  BY DEF Returned, TCB, Listed

\* Nothing but the thread's own place changes, and the message it has.
LEMMA ThreadTurns ==
    ASSUME CallInv, thr # "drain", thr' \in {"wait", "handle", "timer"},
           conn' = conn, api' = api, lost' = lost, cli' = cli, buf' = buf, blocks' = blocks, inpkts' = inpkts,
           NEW tb, NEW mb, Shows(os', tb, CB, mb, Box, Tokens), Where', Packed',
           Count(tb.Msg = "API") + Count(msg' = "API") = Count(TB.Msg = "API") + Count(msg = "API")
    PROVE  CallInv'
<1>1. /\ Steady(os)' /\ TB' = tb /\ CB' = CB /\ Box' = Box /\ Received' = Received /\ Tokens' = Tokens
  BY SeenNext DEF Received
<1>2. Typed /\ Connected /\ Ended /\ Held /\ Boxed /\ Streamed /\ Once
  BY DEF CallInv
<1>3. (InCall' <=> InCall) /\ (Sent' <=> Sent)
  BY <1>1 DEF InCall, Sent, Count
<1>4. Once'
  BY <1>1, <1>2 DEF Once, Count
<1>5. Typed' /\ Held' /\ Ended' /\ Boxed'
  BY <1>1, <1>2, <1>3 DEF Typed, Held, Ended, Ending, Boxed
<1>6. Connected'
  BY <1>1, <1>2, <1>3 DEF Connected, Fresh
<1>7. Streamed'
  BY <1>1, <1>2 DEF Streamed, Base, Unread, Handed, Ends
<1> QED
  BY <1>1, <1>4, <1>5, <1>6, <1>7, CallInvAfter

\* tcpip_thread's pend keeps the invariant of the calls.
LEMMA FetchKeeps ==
    ASSUME IInv, Fetch
    PROVE  CallInv'
<1>1. CallInv /\ Timed /\ os.Cur = Tcpip /\ thr = "fetch"
  BY DEF IInv, Fetch, Runs
<1>2. /\ inpkts' = inpkts /\ conn' = conn /\ api' = api /\ lost' = lost
      /\ cli' = cli /\ buf' = buf /\ blocks' = blocks
  BY DEF Fetch, vC
<1>3. TB.EventPtr = None /\ TB.Msg = None /\ Where /\ Packed /\ msg = None
  BY <1>1, TcpTurn DEF CallInv, Where
<1>4. Shows(os, TB, CB, MailBox, Box, Tokens) /\ TB \in TCB(Ptrs)
  BY <1>1, Seen, Turns
<1>5. MailBox = [q |-> Mail, size |-> TCPIP_MBOX_SIZE] /\ Mail \in Seq(Packets) /\ Len(Mail) \in Nat
      /\ inpkts = Len(Mail) /\ (CB.EventPtr = None => inpkts = 0)
  BY <1>3, Nones DEF Packed, Count
<1>6. next_timeout # <<>> => Head(next_timeout) \in [h : Handlers, time : Nat]
  BY <1>1, HeadIn DEF Timed
<1>7. CASE next_timeout # <<>> /\ FireHead /\ UNCHANGED os
  <2>1. msg' \in Handlers /\ thr' = "timer" /\ os' = os
    BY <1>6, <1>7 DEF FireHead
  <2>2. msg' \notin Packets /\ msg' # "API" /\ msg' # None
    BY <2>1, Nones DEF Msgs
  <2>3. Shows(os', TB, CB, MailBox, Box, Tokens)
    BY <1>4, <2>1
  <2>4. TB' = TB /\ CB' = CB /\ MailBox' = MailBox /\ Mail' = Mail
    BY <2>3, SeenNext DEF Mail
  <2>5. Where'
    BY <1>1, <1>2, <1>3, <2>1, <2>4 DEF Where
  <2>6. Packed'
    BY <1>1, <1>2, <1>3, <1>5, <2>1, <2>2, <2>4, Nones DEF Packed, Count
  <2>7. Count(TB.Msg = "API") + Count(msg' = "API") = Count(TB.Msg = "API") + Count(msg = "API")
    BY <1>3, <2>2, Nones DEF Count
  <2> QED
    BY <1>1, <1>2, <2>1, <2>3, <2>5, <2>6, <2>7, ThreadTurns
<1>8. CASE os' = OSQPend(os, "mbox", HeadTime) /\ OSQEntries(os, "mbox") > 0 /\ Took(Oldest(os, "mbox"), 0)
  <2>1. Mail # <<>> /\ msg' = Head(Mail) /\ thr' = "handle"
    BY <1>5, <1>8 DEF Took, Oldest, OSQEntries, Mail, MailBox
  <2>2. Head(Mail) \in Packets /\ Tail(Mail) \in Seq(Packets) /\ Len(Tail(Mail)) = Len(Mail) - 1
        /\ Mail \in Seq(Letters) /\ Packets \subseteq Msgs
    BY <1>5, <2>1 DEF Letters, Msgs
  <2>3. Shows(os, TB, CB, [q |-> Mail, size |-> TCPIP_MBOX_SIZE], Box, Tokens)
    BY <1>4, <1>5
  <2> DEFINE mb == [q |-> Tail(Mail), size |-> TCPIP_MBOX_SIZE]
  <2>4. Shows(os', TB, CB, mb, Box, Tokens)
    BY <1>8, <2>1, <2>2, <2>3, Nones, MailTaken
  <2>5. mb.q = Tail(Mail) /\ mb = [q |-> mb.q, size |-> TCPIP_MBOX_SIZE]
    OBVIOUS
  <2> HIDE DEF mb
  <2>6. TB' = TB /\ CB' = CB /\ MailBox' = mb /\ Mail' = mb.q
    BY <2>4, SeenNext
  <2>7. Where'
    BY <1>1, <1>2, <1>3, <2>1, <2>2, <2>6 DEF Where
  <2>8. Packed'
    <3>1. Count(TB'.Msg \in Packets) = 0 /\ Count(msg' \in Packets) = 1
      BY <1>3, <2>1, <2>2, <2>6, Nones DEF Count
    <3>2. inpkts' = Len(Mail') + 0 + 1
      BY <1>2, <1>5, <2>2, <2>5, <2>6
    <3>3. CB'.EventPtr = None => inpkts' = 0
      BY <1>2, <1>5, <2>6
    <3> QED
      BY <2>1, <2>2, <2>5, <2>6, <3>1, <3>2, <3>3 DEF Packed
  <2>9. Count(TB.Msg = "API") + Count(msg' = "API") = Count(TB.Msg = "API") + Count(msg = "API")
    BY <1>3, <2>1, <2>2, Nones DEF Count
  <2>10. thr # "drain"
    BY <1>1
  <2> QED
    BY <1>1, <1>2, <2>1, <2>4, <2>7, <2>8, <2>9, <2>10, ThreadTurns
<1>9. CASE os' = OSQPend(os, "mbox", HeadTime) /\ ~(OSQEntries(os, "mbox") > 0) /\ thr' = "wait" /\ msg' = msg
  <2> DEFINE tb == Waiter(TB, "mbox", "Q", HeadTime)
  <2>1. Mail = <<>>
    BY <1>5, <1>9, EmptySeq DEF OSQEntries, Mail, MailBox
  <2>2. HeadTime \in Nat /\ "mbox" \in Event /\ os.ev["mbox"].Ptr.q = <<>>
    BY <1>6, <2>1, Three DEF HeadTime, Mail, MailBox
  <2>3. Shows(os', tb, CB, MailBox, Box, Tokens)
    BY <1>1, <1>3, <1>4, <1>9, <2>2, TcpSleeps
  <2>4. tb.EventPtr = "mbox" /\ Listed(tb) /\ tb.Msg = None /\ tb.StatPend = "OK"
    BY <1>3, <1>4, <2>2, SleptBlock
  <2> HIDE DEF tb
  <2>5. TB' = tb /\ CB' = CB /\ MailBox' = MailBox /\ Mail' = Mail
    BY <2>3, SeenNext DEF Mail
  <2>6. Where'
    BY <1>1, <1>2, <1>3, <1>9, <2>4, <2>5 DEF Where
  <2>7. Packed'
    BY <1>1, <1>2, <1>3, <1>5, <1>9, <2>1, <2>4, <2>5, Nones DEF Packed, Count
  <2>8. Count(tb.Msg = "API") + Count(msg' = "API") = Count(TB.Msg = "API") + Count(msg = "API")
    BY <1>3, <1>9, <2>4
  <2> QED
    BY <1>1, <1>2, <1>9, <2>3, <2>6, <2>7, <2>8, ThreadTurns
<1> QED
  BY <1>7, <1>8, <1>9 DEF Fetch

\* Its return from the pend, with a message or by the time-out, keeps it.
LEMMA FetchReturnsKeeps ==
    ASSUME IInv, FetchReturns
    PROVE  CallInv'
<1>1. CallInv /\ Timed /\ os.Cur = Tcpip /\ thr = "wait" /\ os' = PendTail(os)
  BY DEF IInv, FetchReturns, Returns
<1>2. /\ inpkts' = inpkts /\ conn' = conn /\ api' = api /\ lost' = lost
      /\ cli' = cli /\ buf' = buf /\ blocks' = blocks
  BY DEF FetchReturns, vC
<1>3. /\ TB.EventPtr = "mbox" /\ Where /\ Packed /\ msg = None /\ TB.StatPend \in {"OK", "TO"}
      /\ TB.StatPend = "TO" => TB.Msg = None
      /\ TB.StatPend = "OK" => TB.Msg \in Msgs
  BY <1>1, TcpTurn DEF CallInv, Where
<1>4. Shows(os, TB, CB, MailBox, Box, Tokens) /\ TB \in TCB(Ptrs)
  BY <1>1, Seen, Turns
<1> DEFINE tb == Returned(TB)
<1>5. tb.EventPtr = None /\ ~Listed(tb) /\ tb.Msg = None
  BY <1>4, AwakeBlock
<1>6. Shows(os', tb, CB, MailBox, Box, Tokens)
  BY <1>1, <1>3, <1>4, Nones, TcpReturns
<1> HIDE DEF tb
<1>7. TB' = tb /\ CB' = CB /\ MailBox' = MailBox /\ Mail' = Mail
  BY <1>6, SeenNext DEF Mail
<1>8. CASE TB.StatPend = "TO" /\ FireHead
  <2>1. next_timeout # <<>>
    BY <1>1, <1>8 DEF Timed
  <2>2. msg' \in Handlers /\ thr' = "timer"
    <3>1. Head(next_timeout) \in [h : Handlers, time : Nat]
      BY <1>1, <2>1, HeadIn DEF Timed
    <3> QED
      BY <1>8, <3>1 DEF FireHead
  <2>3. msg' \notin Packets /\ msg' # "API" /\ msg' # None
    BY <2>2, Nones DEF Msgs
  <2>4. Where'
    BY <1>1, <1>2, <1>3, <1>5, <1>7, <2>2 DEF Where
  <2>5. Packed'
    BY <1>1, <1>2, <1>3, <1>5, <1>7, <1>8, <2>2, <2>3, Nones DEF Packed, Count
  <2>6. Count(tb.Msg = "API") + Count(msg' = "API") = Count(TB.Msg = "API") + Count(msg = "API")
    BY <1>3, <1>5, <1>8, <2>3, Nones DEF Count
  <2>7. thr # "drain"
    BY <1>1
  <2> QED
    BY <1>1, <1>2, <1>6, <2>2, <2>4, <2>5, <2>6, <2>7, ThreadTurns
<1>9. CASE TB.StatPend # "TO" /\ Took(TB.Msg, waited)
  <2>1. msg' = TB.Msg /\ thr' = "handle" /\ TB.Msg \in Msgs
    BY <1>3, <1>9 DEF Took
  <2>2. Where'
    BY <1>1, <1>2, <1>3, <1>5, <1>7, <2>1 DEF Where
  <2>3. Packed'
    BY <1>1, <1>2, <1>3, <1>5, <1>7, <2>1, Nones DEF Packed, Count
  <2>4. Count(tb.Msg = "API") + Count(msg' = "API") = Count(TB.Msg = "API") + Count(msg = "API")
    BY <1>3, <1>5, <2>1, Nones DEF Count
  <2>5. thr # "drain"
    BY <1>1
  <2> QED
    BY <1>1, <1>2, <1>6, <2>1, <2>2, <2>3, <2>4, <2>5, ThreadTurns
<1> QED
  BY <1>8, <1>9 DEF FetchReturns, TB

-----------------------------------------------------------------------------
(* A netconn ends.                                                            *)

\* do_close keeps the invariant of the calls.
LEMMA CloseKeeps ==
    ASSUME CallInv, do_close
    PROVE  CallInv'
<1>1. /\ Handles("API") /\ api.fn \in {"close", "delconn"} /\ os.Cur = Tcpip /\ thr = "handle"
      /\ msg = "API" /\ msg' = None
      /\ inpkts' = inpkts /\ cli' = cli /\ buf' = buf /\ blocks' = blocks
  BY DEF do_close, vC, Handles, Runs
<1>2. conn \in ConnType /\ api \in ApiType /\ InCall /\ Sent /\ ~conn.current_msg /\ conn.state = "NONE"
      /\ cli \in {"await", "asleep"} /\ conn.pcb # "SYN_SENT" /\ Tokens = 0
  BY <1>1, InHandConn, Handed1 DEF InHand
<1>3. Typed /\ Connected /\ Ended /\ Held /\ Boxed /\ Streamed /\ Once /\ Packed /\ Where
  BY DEF CallInv
<1>4. CASE RecvValid /\ (api.fn = "delconn" \/ conn.pcb # "NULL")
  <2> DEFINE k == WithQueue(os, "recvmbox", <<>>)
             tb == Waiter(TB, "recvmbox", "Q", 1)
  <2>1. thr' = "drain" /\ conn' = conn /\ api' = api /\ lost' = lost /\ os' = OSQPend(k, "recvmbox", 1)
    BY <1>4 DEF do_close, WithQueue
  <2>2. TB.EventPtr = None /\ TB.Msg = None /\ TB \in TCB(Ptrs) /\ conn.recvmbox
        /\ Box = [q |-> Received, size |-> RECVMBOX_SIZE] /\ RECVMBOX_SIZE \in Nat
    BY <1>1, <1>4, TcpTurn, Turns, ValidBox, Nones
  <2>3. Shows(os, TB, CB, MailBox, [q |-> Received, size |-> RECVMBOX_SIZE], 0)
    BY <1>2, <2>2, Seen
  <2>4. Shows(k, TB, CB, MailBox, EmptyBox, 0)
    <3>1. <<>> \in Seq(Letters)
      OBVIOUS
    <3> QED
      BY <2>2, <2>3, <3>1, BoxQueue DEF EmptyBox
  <2>5. k.Cur = Tcpip /\ k.ev["recvmbox"].Ptr.q = <<>>
    BY <1>1, <2>4 DEF WithQueue, Shows, EmptyBox
  <2> HIDE DEF k
  <2>6. Shows(os', tb, CB, MailBox, EmptyBox, 0)
    <3>1. 1 \in Nat
      OBVIOUS
    <3> QED
      BY <2>1, <2>2, <2>4, <2>5, <3>1, TcpSleeps
  <2>7. tb.EventPtr = "recvmbox" /\ Listed(tb) /\ tb.Msg = None
    <3>1. "recvmbox" \in Event /\ 1 \in Nat
      BY Three
    <3> QED
      BY <2>2, <3>1, SleptBlock
  <2> HIDE DEF tb
  <2>8. /\ Steady(os)' /\ TB' = tb /\ CB' = CB /\ MailBox' = MailBox /\ Box' = EmptyBox /\ Tokens' = 0
        /\ Mail' = Mail /\ Received' = <<>>
    BY <2>6, SeenNext DEF Mail, EmptyBox
  <2>9. InCall' /\ ~Sent'
    BY <1>1, <1>2, <2>7, <2>8, Nones DEF InCall, Sent
  <2>10. Where'
    BY <1>1, <1>3, <2>1, <2>7, <2>8 DEF Where
  <2>11. Packed'
    BY <1>1, <1>3, <2>1, <2>2, <2>7, <2>8, Nones DEF Packed, Count
  <2>12. Once'
    BY <1>1, <1>2, <1>3, <2>1, <2>2, <2>7, <2>8, Nones DEF Once, Count
  <2>13. Typed'
    BY <1>1, <1>3, <2>1 DEF Typed
  <2>14. Connected'
    BY <1>1, <1>2, <1>3, <2>1, <2>2, <2>9 DEF Connected
  <2>15. Held'
    BY <1>1, <1>2, <1>3, <2>1, <2>9 DEF Held
  <2>16. ~lost /\ conn.rcvd = conn.read /\ (conn.pcb = "ESTABLISHED" => conn.fin)
    BY <1>1, <1>2, <1>3 DEF Ended, Ending
  <2>17. Len(Received') = 0
    BY <2>8
  <2>18. Ended'
    BY <2>1, <2>16, <2>17 DEF Ended, Count
  <2>19. Boxed'
    BY <1>1, <1>2, <2>1, <2>2, <2>8, <2>16 DEF Boxed, EmptyBox
  <2>20. Streamed'
    <3>1. /\ Unread \in Seq(SegOrEOF) /\ conn.rcvd \in Nat /\ conn.read \in Nat
          /\ Ends = Count(conn.fin) + Count(conn.pcb = "NULL") - Count(buf = EOF)
          /\ Stream(Base, Unread, conn.rcvd, lost, Ends)
      BY <2>2, UnreadType
    <3>2. Base' = conn.read /\ Base = conn.read
      BY <1>1, <1>2, <1>3, <2>1 DEF Base, Held
    <3>3. Ends' = Ends /\ Ends \in Int
      BY <1>1, <2>1, <3>1 DEF Ends, Count
    <3>4. Unread' = <<>> /\ Len(<<>>) = 0
      BY <1>1, <1>2, <2>8 DEF Unread, Handed
    <3>5. Ends >= 0
      <4>1. Len(Unread) \in Nat
        BY <3>1
      <4>2. Len(Unread) = 0 \/ Len(Unread) > 0
        BY <4>1
      <4>3. conn.rcvd <= Base + Len(Unread) /\ Base + Len(Unread) <= conn.rcvd + Ends
        BY <2>16, <3>1 DEF Stream
      <4> QED
        BY <2>16, <3>1, <3>2, <3>3, <4>1, <4>3
    <3>6. Stream(conn.read, <<>>, conn.rcvd, lost, Ends)
      BY <2>16, <3>1, <3>3, <3>4, <3>5 DEF Stream
    <3>7. Stream(Base', Unread', conn'.rcvd, lost', Ends')
      BY <2>1, <3>2, <3>3, <3>4, <3>6
    <3>8. Base' <= conn'.rcvd
      BY <3>7 DEF Stream
    <3> QED
      BY <3>7, <3>8 DEF Streamed
  <2> QED
    BY <2>8, <2>10, <2>11, <2>12, <2>13, <2>14, <2>15, <2>18, <2>19, <2>20, CallInvAfter
<1>5. CASE ~(RecvValid /\ (api.fn = "delconn" \/ conn.pcb # "NULL"))
  <2>1. thr' = "fetch" /\ EndConn(os, conn)
    BY <1>5 DEF do_close
  <2>2. Handling /\ thr # "drain"
    <3>1. "API" \in Msgs /\ UNCHANGED vC
      BY <1>1 DEF Msgs, vC
    <3> QED
      BY <1>1, <2>1, <3>1, HandlesIt
  <2>3. CASE conn.pcb = "NULL"
    <3>1. /\ conn' = conn /\ os' = Signal(os) /\ lost' = lost
          /\ api' = [api EXCEPT !.err = IF api.fn = "close" THEN "VAL" ELSE @]
      BY <2>1, <2>3 DEF EndConn
    <3>2. CASE api.fn = "close"
      <4>1. api' = [api EXCEPT !.err = "VAL"]
        BY <3>1, <3>2
      <4> QED
        BY <1>1, <2>2, <3>1, <4>1, NothingToClose
    <3>3. CASE api.fn # "close"
      <4>1. api' = [api EXCEPT !.err = api.err]
        BY <3>1, <3>3
      <4> QED
        BY <1>1, <2>2, <3>1, <4>1, NothingToClose
    <3> QED
      BY <3>2, <3>3
  <2>4. CASE conn.pcb # "NULL"
    <3>1. do_close_internal(os, conn)
      BY <2>1, <2>4 DEF EndConn
    <3>2. conn.snd \in Snd /\ conn = [conn EXCEPT !.snd = conn.snd]
      BY DEF CallInv, Typed, ConnType
    <3> QED
      BY <1>1, <2>2, <3>1, <3>2, Closes DEF InHand
  <2> QED
    BY <2>3, <2>4
<1> QED
  BY <1>4, <1>5

\* The drain of the client's mailbox on closing keeps the invariant of the calls.
LEMMA DrainReturnsKeeps ==
    ASSUME CallInv, DrainReturns
    PROVE  CallInv'
<1> DEFINE k == OSDel(PendTail(os), "recvmbox")
           c == [conn EXCEPT !.recvmbox = FALSE]
           tb == Returned(TB)
<1>1. /\ os.Cur = Tcpip /\ thr = "drain" /\ thr' = "fetch" /\ EndConn(k, c)
      /\ msg' = msg /\ inpkts' = inpkts /\ cli' = cli /\ buf' = buf /\ blocks' = blocks
  BY DEF DrainReturns, Returns, vC
<1>2. Typed /\ Connected /\ Ended /\ Held /\ Boxed /\ Streamed /\ Where
  BY DEF CallInv
<1>3. conn \in ConnType /\ api \in ApiType /\ InCall /\ ~Sent /\ ~conn.current_msg /\ conn.state = "NONE"
      /\ cli \in {"await", "asleep"} /\ conn.pcb # "SYN_SENT" /\ Tokens = 0
      /\ api.fn \in {"close", "delconn"} /\ InHand /\ msg # "API"
  <2>1. msg = None /\ InHand
    BY <1>1, <1>2 DEF Where, InHand
  <2>2. msg # "API"
    BY <2>1, Nones
  <2> QED
    BY <1>1, <1>2, <2>1, <2>2, InHandConn, Handed1 DEF Connected
<1>4. Handling
  <2>1. msg = None /\ inpkts \in Nat
    BY <1>1, <1>2, Nones DEF Where, Typed
  <2>2. Count(msg \in Packets) = 0
    BY <2>1, Nones DEF Count
  <2> QED
    BY <1>1, <2>1, <2>2 DEF Handling
<1>5. TB.EventPtr = "recvmbox" /\ TB \in TCB(Ptrs) /\ CB.EventPtr # "recvmbox"
  BY <1>1, <1>2, <1>3, Turns, Nones DEF Where
<1>6. Shows(os, TB, CB, MailBox, Box, 0)
  BY <1>3, Seen
<1>7. Shows(PendTail(os), tb, CB, MailBox, Box, 0)
  BY <1>1, <1>5, <1>6, Nones, TcpReturns
<1>8. tb.EventPtr = None /\ ~Listed(tb) /\ tb.Msg = None
  BY <1>5, AwakeBlock
<1> HIDE DEF tb
<1>9. Shows(k, tb, CB, MailBox, None, 0)
  BY <1>5, <1>7, <1>8, Nones, BoxDeleted
<1> HIDE DEF k
<1>10. /\ c.pcb = conn.pcb /\ c.state = "NONE" /\ c.current_msg = FALSE /\ c.recvmbox = FALSE
       /\ c.fin = conn.fin /\ c.rcvd = conn.rcvd /\ c.read = conn.read /\ c \in ConnType
  BY <1>3 DEF ConnType
<1> HIDE DEF c
<1>11. /\ conn'.recvmbox = FALSE /\ conn'.fin = conn.fin /\ conn'.rcvd = conn.rcvd
       /\ conn'.read = conn.read /\ conn' \in ConnType
       /\ api'.fn = api.fn /\ api' \in ApiType /\ lost' = lost
       /\ \/ os' = Signal(k) /\ conn'.current_msg = FALSE /\ conn'.state = "NONE" /\ conn'.pcb = "NULL"
          \/ os' = k /\ conn'.current_msg = TRUE /\ conn'.state = "CLOSE" /\ conn'.pcb = "ESTABLISHED"
             /\ conn.pcb = "ESTABLISHED"
  <2>1. CASE conn.pcb = "NULL"
    <3>1. conn' = c /\ os' = Signal(k) /\ lost' = lost
          /\ api' = [api EXCEPT !.err = IF api.fn = "close" THEN "VAL" ELSE @]
      BY <1>1, <1>10, <2>1 DEF EndConn
    <3>2. api'.fn = api.fn /\ api' \in ApiType
      BY <1>3, <3>1 DEF ApiType
    <3> QED
      BY <1>10, <2>1, <3>1, <3>2
  <2>2. CASE conn.pcb # "NULL"
    <3>1. do_close_internal(k, c)
      BY <1>1, <1>10, <2>2 DEF EndConn
    <3>2. CASE /\ conn' = [c EXCEPT !.pcb = "NULL", !.snd = NoSnd, !.state = "NONE",
                                    !.current_msg = FALSE]
               /\ os' = Signal(k) /\ api' = [api EXCEPT !.err = "OK"] /\ lost' = lost
      <4>1. api'.fn = api.fn /\ api' \in ApiType
        BY <1>3, <3>2 DEF ApiType
      <4> QED
        BY <1>10, <3>2, <4>1, SynSnd DEF ConnType
    <3>3. CASE /\ c.pcb = "ESTABLISHED" /\ os' = k /\ api' = api /\ lost' = lost
               /\ conn' = [c EXCEPT !.state = "CLOSE", !.current_msg = TRUE]
      BY <1>3, <1>10, <3>3 DEF ConnType
    <3> QED
      BY <3>1, <3>2, <3>3 DEF do_close_internal
  <2> QED
    BY <2>1, <2>2
<1>12. /\ Steady(os)' /\ Where' /\ Packed' /\ Once' /\ inpkts' \in 0 .. MEMP_NUM_TCPIP_MSG_INPKT
       /\ Box' = None /\ InCall' /\ ~Sent'
  <2>1. CASE os' = Signal(k) /\ conn'.current_msg = FALSE
    <3>1. ~conn'.current_msg
      BY <2>1
    <3> QED
      BY <1>3, <1>4, <1>8, <1>9, <2>1, <3>1, AfterAnswer
  <2>2. CASE os' = k /\ conn'.current_msg = TRUE
    <3>1. Shows(os', tb, CB, MailBox, None, 0)
      BY <1>9, <2>2
    <3> QED
      BY <1>3, <1>4, <1>8, <2>2, <3>1, AfterWait
  <2> QED
    BY <1>11, <2>1, <2>2
<1>13. Typed'
  BY <1>1, <1>2, <1>11, <1>12 DEF Typed
<1>14. Connected'
  BY <1>1, <1>3, <1>11, <1>12 DEF Connected
<1>15. ~lost /\ conn.rcvd = conn.read /\ (conn.pcb = "ESTABLISHED" => conn.fin)
  BY <1>2, <1>3 DEF Ended, Ending
<1>16. Ended' /\ Held'
  BY <1>1, <1>2, <1>3, <1>11, <1>12, <1>15 DEF Ended, Held
<1>17. Boxed'
  BY <1>1, <1>3, <1>11, <1>12, <1>15 DEF Boxed
<1>18. Streamed'
  BY <1>1, <1>2, <1>11 DEF Streamed, Base
<1> QED
  BY <1>12, <1>13, <1>14, <1>16, <1>17, <1>18, CallInvAfter

-----------------------------------------------------------------------------
(* The client's steps.                                                        *)

\* No call is under way.
LEMMA Quiet ==
    ASSUME CallInv, cli \notin {"await", "asleep"}
    PROVE  /\ ~conn.current_msg /\ conn.state = "NONE" /\ conn.pcb # "SYN_SENT" /\ Tokens = 0
           /\ thr # "drain" /\ TB.Msg # "API" /\ msg # "API" /\ (Sent <=> cli = "call")
           /\ conn \in ConnType /\ api \in ApiType
<1>1. Once /\ Typed /\ Connected
  BY DEF CallInv
<1>2. conn \in ConnType /\ api \in ApiType /\ conn.current_msg \in BOOLEAN
  BY <1>1 DEF Typed, ConnType
<1>3. Count(cli \in {"await", "asleep"}) = 0
  BY DEF Count
<1>4. Count(TB.Msg = "API") \in {0, 1} /\ Count(msg = "API") \in {0, 1} /\ Count(thr = "drain") \in {0, 1}
      /\ Count(conn.current_msg) \in {0, 1} /\ Count(cli = "asleep" /\ ~Listed(CB)) \in {0, 1}
      /\ Tokens \in Nat
  BY <1>1 DEF Count, Once
<1>5. Count(TB.Msg = "API") = 0 /\ Count(msg = "API") = 0 /\ Count(thr = "drain") = 0
      /\ Count(conn.current_msg) = 0 /\ Tokens = 0
  BY <1>1, <1>3, <1>4 DEF Once
<1>6. TB.Msg # "API" /\ msg # "API" /\ thr # "drain" /\ ~conn.current_msg
  BY <1>5 DEF Count
<1> QED
  BY <1>1, <1>2, <1>5, <1>6 DEF Connected, Sent

\* A step of the client's own; cb, bx and n are what it leaves.
ClientStep ==
    /\ CallInv /\ os.Cur = Client
    /\ thr' = thr /\ msg' = msg /\ inpkts' = inpkts

\* What a step of the client leaves to prove: the part the other task does not touch stays.
LEMMA ClientKeeps ==
    ASSUME ClientStep, NEW cb, NEW bx, NEW n, Shows(os', TB, cb, MailBox, bx, n),
           cb.EventPtr = (IF cli' = "asleep" THEN "op_completed"
                          ELSE IF cli' = "fetching" THEN "recvmbox" ELSE None),
           cli' = "asleep" => cb.Dly = 0 /\ cb.StatPend = "OK" /\ cb.Msg = None,
           cli' = "fetching" /\ ~Listed(cb) => cb.Msg \in SegOrEOF
    PROVE  /\ Steady(os)' /\ Where' /\ Packed'
           /\ TB' = TB /\ CB' = cb /\ Box' = bx /\ Received' = bx.q /\ Tokens' = n
<1>1. CallInv /\ os.Cur = Client /\ thr' = thr /\ msg' = msg /\ inpkts' = inpkts
  BY DEF ClientStep
<1>2. /\ Steady(os)' /\ TB' = TB /\ CB' = cb /\ MailBox' = MailBox /\ Box' = bx /\ Tokens' = n
      /\ Mail' = Mail /\ Received' = bx.q
  BY SeenNext DEF Mail
<1>3. Where /\ Packed /\ inpkts = 0
  BY <1>1, CliTurn DEF CallInv
<1>4. Where'
  BY <1>1, <1>2, <1>3 DEF Where
<1>5. Packed'
  BY <1>1, <1>2, <1>3 DEF Packed
<1> QED
  BY <1>2, <1>4, <1>5

\* What is neither the kernel's nor the call's own progress is carried over.
LEMMA Carries ==
    ASSUME CallInv, Steady(os)', Where', Packed', Once',
           conn' = conn, api' = api, lost' = lost, buf' = buf, blocks' = blocks, thr' = thr,
           inpkts' \in 0 .. MEMP_NUM_TCPIP_MSG_INPKT,
           cli' \in {"alloc", "call", "await", "asleep", "answered", "loop", "recv", "fetch", "fetching"},
           InCall' <=> InCall, Sent' <=> Sent, cli' = "alloc" <=> cli = "alloc",
           cli' = "fetch" => cli = "fetch",
           Box' = Box, Received' = Received, Unread' = Unread,
           cli' = "fetching" /\ Listed(CB') => cli = "fetching" /\ Listed(CB)
    PROVE  CallInv'
<1>1. Typed /\ Connected /\ Ended /\ Held /\ Boxed /\ Streamed
  BY DEF CallInv
<1>2. Typed' /\ Held' /\ Ended' /\ Boxed'
  BY <1>1 DEF Typed, Held, Ended, Ending, Boxed
<1>3. Connected'
  BY <1>1 DEF Connected, Fresh
<1>4. Streamed'
  BY <1>1 DEF Streamed, Base, Ends
<1> QED
  BY <1>2, <1>3, <1>4, CallInvAfter

\* A call posted keeps the invariant of the calls.
LEMMA CallKeeps ==
    ASSUME CallInv, Call
    PROVE  CallInv' /\ Undisturbed /\ Box' = Box
<1>1. /\ os.Cur = Client /\ cli = "call"
      /\ thr' = thr /\ msg' = msg /\ inpkts' = inpkts /\ conn' = conn /\ api' = api /\ lost' = lost
      /\ buf' = buf /\ blocks' = blocks
  BY DEF Call, Runs
<1>2. /\ Listed(TB) /\ TB.Msg = None /\ thr \in {"wait", "drain"} /\ thr # "drain" /\ Mail = <<>> /\ inpkts = 0
      /\ TB.EventPtr = "mbox" /\ msg = None /\ CB.EventPtr = None
  BY <1>1, CliTurn
<1>3. Where /\ Packed /\ Once /\ Typed
  BY DEF CallInv
<1>4. Shows(os, TB, CB, MailBox, Box, Tokens) /\ TB \in TCB(Ptrs) /\ BlockOk(TB)
  BY Seen, Turns
<1>5. MboxValid
  <2>1. MailBox.q = <<>> /\ MailBox.size = TCPIP_MBOX_SIZE
    BY <1>2, <1>3 DEF Packed, Mail
  <2>2. ~(Len(MailBox.q) >= MailBox.size)
    BY <2>1, Nones
  <2> QED
    BY <2>2 DEF MboxValid, sys_mbox_valid, OSQFull, OSQEntries, MailBox
<1>6. os' = OSQPost(os, "mbox", "API") /\ cli' = "await"
  BY <1>5 DEF Call
<1> DEFINE tb == Answered(TB, "API", "Q", "OK")
<1>7. Shows(os', tb, CB, MailBox, Box, Tokens)
  <2>1. "API" \in Msgs /\ CB.EventPtr # "mbox"
    BY <1>2, Nones DEF Msgs
  <2> QED
    BY <1>2, <1>4, <1>6, <2>1, MailWakes
<1>8. tb.EventPtr = "mbox" /\ ~Listed(tb) /\ tb.Msg = "API" /\ tb.Stat = {} /\ tb.Dly = 0 /\ tb.StatPend = "OK"
  <2>1. "API" \in Ptrs
    BY DEF Ptrs, Msgs
  <2>2. tb.EventPtr = TB.EventPtr /\ tb.Stat = TB.Stat \ {"Q"} /\ tb.StatPend = "OK" /\ tb.Msg = "API" /\ tb.Dly = 0
    BY <1>4, <2>1, AnsweredType
  <2> HIDE DEF tb
  <2> QED
    BY <1>2, <1>4, <2>2 DEF BlockOk, Kind, Listed
<1> HIDE DEF tb
<1>9. /\ Steady(os)' /\ TB' = tb /\ CB' = CB /\ MailBox' = MailBox /\ Box' = Box /\ Tokens' = Tokens
      /\ Mail' = Mail /\ Received' = Received
  BY <1>7, SeenNext DEF Mail, Received
<1>10. Where'
  BY <1>1, <1>2, <1>3, <1>6, <1>8, <1>9 DEF Where, Msgs
<1>11. Packed'
  BY <1>1, <1>2, <1>3, <1>8, <1>9, Nones DEF Packed, Count
<1>12. ~conn.current_msg /\ Tokens = 0
  BY <1>1, Quiet
<1>13. Once'
  BY <1>1, <1>2, <1>6, <1>8, <1>9, <1>12, Nones DEF Once, Count
<1>14. (InCall' <=> InCall) /\ (Sent' <=> Sent) /\ Unread' = Unread
  BY <1>1, <1>6, <1>8, <1>9 DEF InCall, Sent, Unread, Handed
<1>15. inpkts' \in 0 .. MEMP_NUM_TCPIP_MSG_INPKT
  BY <1>1, <1>3 DEF Typed
<1>16. /\ cli' \in {"alloc", "call", "await", "asleep", "answered", "loop", "recv", "fetch", "fetching"}
       /\ (cli' = "alloc" <=> cli = "alloc") /\ (cli' = "fetch" => cli = "fetch")
       /\ (cli' = "fetching" /\ Listed(CB') => cli = "fetching" /\ Listed(CB))
  BY <1>1, <1>6
<1> QED
  BY <1>1, <1>8, <1>9, <1>10, <1>11, <1>13, <1>14, <1>15, <1>16, Carries DEF Undisturbed

\* The wait for the answer begins, or ends.
Awaits(cb, n) ==
    /\ Shows(os', TB, cb, MailBox, Box, n)
    /\ \/ cli' = "answered" /\ cb.EventPtr = None
       \/ cli' = "asleep" /\ cb.EventPtr = "op_completed" /\ cb.Dly = 0 /\ cb.StatPend = "OK" /\ cb.Msg = None
    /\ n \in Nat
    /\ Count(thr = "drain") + Count(conn.current_msg) + n + Count(cli' = "asleep" /\ ~Listed(cb))
            = Count(cli' \in {"await", "asleep"})

\* The wait for the answer, and its end, keep the invariant of the calls.
LEMMA AwaitKeeps ==
    ASSUME CallInv, Await \/ AwaitReturns
    PROVE  CallInv' /\ Undisturbed /\ Box' = Box
<1>1. /\ os.Cur = Client /\ cli \in {"await", "asleep"}
      /\ thr' = thr /\ msg' = msg /\ inpkts' = inpkts /\ conn' = conn /\ api' = api /\ lost' = lost
      /\ buf' = buf /\ blocks' = blocks
  BY DEF Await, AwaitReturns, Runs, Returns
<1>2. ClientStep
  BY <1>1 DEF ClientStep
<1>3. Once /\ Typed /\ Where
  BY DEF CallInv
<1>4. TB.Msg = None /\ msg = None /\ (CB.EventPtr = None <=> cli = "await") /\ (Listed(CB) <=> CB.StatPend = "TO")
      /\ (CB.EventPtr = None => CB.Msg = None /\ CB.StatPend = "OK")
  BY <1>1, CliTurn
<1>5. Shows(os, TB, CB, MailBox, Box, Tokens) /\ CB \in TCB(Ptrs)
  BY Seen, Turns
<1>6. inpkts' \in 0 .. MEMP_NUM_TCPIP_MSG_INPKT
  BY <1>1, <1>3 DEF Typed
<1>7. \E cb, n : Awaits(cb, n)
  <2>1. CASE Await /\ os.ev["op_completed"].Cnt > 0
    <3>1. os' = OSSemPend(os, "op_completed", 0) /\ cli' = "answered" /\ cli = "await"
      BY <2>1 DEF Await
    <3>2. Tokens = 1 /\ Count(thr = "drain") = 0 /\ Count(conn.current_msg) = 0
      <4>1. Tokens \in Nat /\ Tokens > 0
        BY <1>3, <2>1 DEF Once, Tokens
      <4>2. Count(TB.Msg = "API") \in {0, 1} /\ Count(msg = "API") \in {0, 1} /\ Count(thr = "drain") \in {0, 1}
            /\ Count(conn.current_msg) \in {0, 1} /\ Count(cli = "asleep" /\ ~Listed(CB)) \in {0, 1}
            /\ Count(cli \in {"await", "asleep"}) = 1
        BY <3>1 DEF Count
      <4> QED
        BY <1>3, <4>1, <4>2 DEF Once
    <3>3. Shows(os, TB, CB, MailBox, Box, 1)
      BY <1>5, <3>2
    <3>4. Shows(os', TB, CB, MailBox, Box, 0)
      BY <3>1, <3>3, TokenTaken
    <3>5. CB.EventPtr = None /\ 0 \in Nat
      BY <1>4, <3>1
    <3>6. Count(thr = "drain") + Count(conn.current_msg) + 0 + Count(cli' = "asleep" /\ ~Listed(CB))
            = Count(cli' \in {"await", "asleep"})
      BY <3>1, <3>2 DEF Count
    <3>7. Awaits(CB, 0)
      BY <3>1, <3>4, <3>5, <3>6 DEF Awaits
    <3> QED
      BY <3>7
  <2>2. CASE Await /\ ~(os.ev["op_completed"].Cnt > 0)
    <3> DEFINE cb == Waiter(CB, "op_completed", "SEM", 0)
    <3>1. os' = OSSemPend(os, "op_completed", 0) /\ cli' = "asleep" /\ cli = "await"
      BY <2>2 DEF Await
    <3>2. Tokens = 0
      BY <1>3, <2>2 DEF Once, Tokens
    <3>3. Shows(os, TB, CB, MailBox, Box, 0) /\ CB.EventPtr = None
      BY <1>4, <1>5, <3>1, <3>2
    <3>4. Shows(os', TB, cb, MailBox, Box, 0)
      BY <1>1, <3>1, <3>3, CliSleeps
    <3>5. cb.EventPtr = "op_completed" /\ Listed(cb) /\ cb.Msg = None /\ cb.StatPend = "OK" /\ cb.Dly = 0
      <4>1. "op_completed" \in Event /\ 0 \in Nat
        BY Three
      <4> QED
        BY <1>4, <1>5, <3>3, <4>1, SleptBlock
    <3> HIDE DEF cb
    <3>6. Count(thr = "drain") + Count(conn.current_msg) + 0 + Count(cli' = "asleep" /\ ~Listed(cb))
            = Count(cli' \in {"await", "asleep"})
      BY <1>3, <1>4, <3>1, <3>2, <3>5, Nones DEF Once, Count
    <3>7. 0 \in Nat
      OBVIOUS
    <3>8. Awaits(cb, 0)
      BY <3>1, <3>4, <3>5, <3>6, <3>7 DEF Awaits
    <3> QED
      BY <3>8
  <2>3. CASE AwaitReturns
    <3> DEFINE cb == Returned(CB)
    <3>1. os' = PendTail(os) /\ cli' = "answered" /\ cli = "asleep"
      BY <2>3 DEF AwaitReturns
    <3>2. CB.EventPtr # None /\ ~Listed(CB)
      BY <1>3, <1>4, <3>1 DEF Where
    <3>3. Tokens = 0 /\ Count(thr = "drain") = 0 /\ Count(conn.current_msg) = 0
      <4>1. Tokens \in Nat
        BY <1>3 DEF Once
      <4>2. Count(TB.Msg = "API") \in {0, 1} /\ Count(msg = "API") \in {0, 1} /\ Count(thr = "drain") \in {0, 1}
            /\ Count(conn.current_msg) \in {0, 1} /\ Count(cli = "asleep" /\ ~Listed(CB)) = 1
            /\ Count(cli \in {"await", "asleep"}) = 1
        BY <3>1, <3>2 DEF Count
      <4> QED
        BY <1>3, <4>1, <4>2 DEF Once
    <3>4. Shows(os', TB, cb, MailBox, Box, 0)
      <4>1. Shows(os, TB, CB, MailBox, Box, 0)
        BY <1>5, <3>3
      <4> QED
        BY <1>1, <3>1, <3>2, <4>1, CliReturns
    <3>5. cb.EventPtr = None
      BY <1>5, AwakeBlock
    <3> HIDE DEF cb
    <3>6. Count(thr = "drain") + Count(conn.current_msg) + 0 + Count(cli' = "asleep" /\ ~Listed(cb))
            = Count(cli' \in {"await", "asleep"})
      BY <3>1, <3>3 DEF Count
    <3>7. 0 \in Nat
      OBVIOUS
    <3>8. Awaits(cb, 0)
      BY <3>1, <3>4, <3>5, <3>6, <3>7 DEF Awaits
    <3> QED
      BY <3>8
  <2> QED
    BY <2>1, <2>2, <2>3
<1>12. PICK cb, n : Awaits(cb, n)
  BY <1>7
<1>13. /\ Shows(os', TB, cb, MailBox, Box, n) /\ n \in Nat
       /\ \/ cli' = "answered" /\ cb.EventPtr = None
          \/ cli' = "asleep" /\ cb.EventPtr = "op_completed" /\ cb.Dly = 0 /\ cb.StatPend = "OK" /\ cb.Msg = None
       /\ Count(thr = "drain") + Count(conn.current_msg) + n + Count(cli' = "asleep" /\ ~Listed(cb))
            = Count(cli' \in {"await", "asleep"})
  BY <1>12 DEF Awaits
<1>8. /\ Steady(os)' /\ Where' /\ Packed'
      /\ TB' = TB /\ CB' = cb /\ Box' = Box /\ Received' = Received /\ Tokens' = n
  BY <1>2, <1>13, ClientKeeps DEF Received
<1>9. Once'
  BY <1>1, <1>4, <1>13, <1>8, Nones DEF Once, Count
<1>10. (InCall' <=> InCall) /\ (Sent' <=> Sent) /\ Unread' = Unread
  BY <1>1, <1>13, <1>8 DEF InCall, Sent, Unread, Handed
<1>11. /\ cli' \in {"alloc", "call", "await", "asleep", "answered", "loop", "recv", "fetch", "fetching"}
       /\ (cli' = "alloc" <=> cli = "alloc") /\ (cli' = "fetch" => cli = "fetch")
       /\ (cli' = "fetching" /\ Listed(CB') => cli = "fetching" /\ Listed(CB))
  BY <1>1, <1>13
<1> QED
  BY <1>1, <1>6, <1>8, <1>9, <1>10, <1>11, Carries DEF Undisturbed

\* Between calls the client holds nothing.
LEMMA EmptyHands ==
    ASSUME CallInv, ~InCall
    PROVE  /\ buf = NoBuf /\ conn.pcb # "CLOSED" /\ (cli # "alloc" => conn.recvmbox) /\ Base = conn.read
<1>1. Typed /\ Held /\ Connected
  BY DEF CallInv
<1>2. buf \notin Nat \ {0} /\ buf # EOF /\ buf \in 0 .. Segments \cup {EOF}
  BY <1>1 DEF Held, Typed
<1>3. buf = NoBuf
  BY <1>2 DEF NoBuf
<1> QED
  BY <1>1, <1>2, <1>3 DEF Connected, Base

\* An error is set, and nothing else of a netconn.
SameConn(c, d) ==
    /\ c.pcb = d.pcb /\ c.state = d.state /\ c.recvmbox = d.recvmbox /\ c.current_msg = d.current_msg
    /\ c.fin = d.fin /\ c.rcvd = d.rcvd /\ c.read = d.read /\ c \in ConnType

\* NETCONN_SET_SAFE_ERR changes the last error and no more.
LEMMA SetsError ==
    ASSUME NEW c \in ConnType, NEW err \in Fatal \cup {"OK", "RTE", "VAL", "TIMEOUT"}
    PROVE  SameConn(SafeErr(c, err), c) /\ SameConn(c, c)
<1>1. [c EXCEPT !.last_err = err] \in ConnType /\ SameConn([c EXCEPT !.last_err = err], c) /\ SameConn(c, c)
  BY DEF ConnType, SameConn
<1> QED
  BY <1>1 DEF SafeErr

\* A step of the client that calls nothing of the kernel.
PlainStep ==
    /\ ClientStep /\ os' = os /\ lost' = lost /\ blocks' = blocks
    /\ cli \in {"call", "answered", "loop", "recv", "fetch"} /\ cli' \in {"call", "loop", "recv", "fetch"}
    /\ cli' = "fetch" => ~lost
    /\ SameConn(conn', conn) /\ api' \in ApiType
    /\ buf' \in {buf, NoBuf} /\ Base' = Base

\* What a step of the client's own leaves as it was.
LEMMA PlainSteps ==
    ASSUME PlainStep
    PROVE  /\ Steady(os)' /\ Where' /\ Packed' /\ Once' /\ Typed' /\ Boxed' /\ Streamed'
           /\ Box' = Box /\ Received' = Received /\ (Sent' <=> cli' = "call")
           /\ conn.state = "NONE" /\ conn.pcb # "SYN_SENT" /\ ~conn.current_msg /\ thr' # "drain"
<1>1. CallInv /\ os.Cur = Client /\ thr' = thr /\ msg' = msg /\ inpkts' = inpkts /\ ClientStep
  BY DEF PlainStep, ClientStep
<1>2. cli \notin {"await", "asleep"} /\ cli \notin {"asleep", "fetching"} /\ cli' \notin {"await", "asleep", "fetching"}
  BY DEF PlainStep
<1>3. /\ ~conn.current_msg /\ conn.state = "NONE" /\ conn.pcb # "SYN_SENT" /\ Tokens = 0
      /\ thr # "drain" /\ TB.Msg # "API" /\ msg # "API" /\ conn \in ConnType
  BY <1>1, <1>2, Quiet
<1>4. Shows(os', TB, CB, MailBox, Box, 0) /\ CB.EventPtr = None
  BY <1>1, <1>2, <1>3, Seen, CliTurn DEF PlainStep
<1>5. /\ Steady(os)' /\ Where' /\ Packed'
      /\ TB' = TB /\ CB' = CB /\ Box' = Box /\ Received' = Received /\ Tokens' = 0
  BY <1>1, <1>2, <1>4, ClientKeeps DEF Received
<1>6. conn'.current_msg = conn.current_msg /\ conn' \in ConnType /\ conn'.pcb = conn.pcb
      /\ conn'.recvmbox = conn.recvmbox /\ conn'.fin = conn.fin /\ conn'.rcvd = conn.rcvd
      /\ conn'.read = conn.read
  BY DEF PlainStep, SameConn
<1>7. Once'
  BY <1>1, <1>2, <1>3, <1>5, <1>6 DEF Once, Count
<1>8. Typed /\ Boxed /\ Streamed
  BY <1>1 DEF CallInv
<1>9. Typed'
  BY <1>1, <1>6, <1>8, Nones DEF Typed, PlainStep, NoBuf
<1>10. Boxed'
  BY <1>1, <1>2, <1>3, <1>5, <1>6, <1>8 DEF Boxed, PlainStep
<1>11. Unread' = Unread
  BY <1>2, <1>5 DEF Unread, Handed, PlainStep
<1>12. Streamed'
  <2>1. Base' = Base /\ lost' = lost
    BY DEF PlainStep
  <2>2. CASE ~conn.recvmbox
    BY <1>6, <1>8, <2>1, <2>2 DEF Streamed
  <2>3. CASE conn.recvmbox
    <3>1. /\ Unread \in Seq(SegOrEOF) /\ Base \in Nat /\ conn.rcvd \in Nat
          /\ Ends = Count(conn.fin) + Count(conn.pcb = "NULL") - Count(buf = EOF)
          /\ Stream(Base, Unread, conn.rcvd, lost, Ends)
      BY <1>1, <2>3, UnreadType
    <3>2. Count(buf' = EOF) <= Count(buf = EOF)
      BY Nones DEF PlainStep, Count
    <3>3. Ends <= Ends' /\ Ends \in Int /\ Ends' \in Int
      BY <1>6, <3>1, <3>2 DEF Ends, Count
    <3>4. Stream(Base, Unread, conn.rcvd, lost, Ends')
      BY <3>1, <3>3 DEF Stream
    <3>5. Stream(Base', Unread', conn'.rcvd, lost', Ends')
      BY <1>6, <1>11, <2>1, <3>4
    <3>6. Base' <= conn'.rcvd
      BY <3>5 DEF Stream
    <3> QED
      BY <3>5, <3>6 DEF Streamed
  <2> QED
    BY <2>2, <2>3
<1>13. Sent' <=> cli' = "call"
  BY <1>1, <1>3, <1>5 DEF Sent
<1> QED
  BY <1>1, <1>3, <1>5, <1>7, <1>9, <1>10, <1>12, <1>13

\* The loop of the client's task keeps the invariant of the calls.
LEMMA LoopKeeps ==
    ASSUME CallInv, Loop \/ netconn_recv
    PROVE  CallInv' /\ Undisturbed
<1>1. /\ os.Cur = Client /\ os' = os /\ cli \in {"loop", "recv"} /\ cli' \in {"call", "loop", "recv", "fetch"}
      /\ thr' = thr /\ msg' = msg /\ inpkts' = inpkts /\ conn' = conn /\ lost' = lost
      /\ buf' = buf /\ blocks' = blocks
      /\ cli' = "call" => api' = [fn |-> "write", err |-> "VAL"]
      /\ cli' # "call" => api' = api
      /\ cli' = "fetch" => RecvValid
  BY DEF Loop, netconn_recv, Calling, Runs
<1>2. ~InCall
  BY <1>1 DEF InCall
<1>3. buf = NoBuf /\ conn.pcb # "CLOSED" /\ conn.recvmbox /\ Connected /\ Boxed /\ Typed
  BY <1>1, <1>2, EmptyHands DEF CallInv
<1>4. PlainStep
  <2>1. api' \in ApiType
    BY <1>1, <1>3 DEF ApiType, Typed, Calls
  <2>2. cli' = "fetch" => ~lost
    BY <1>1, <1>3, ValidBox, Nones DEF Boxed
  <2>3. SameConn(conn', conn)
    <3>1. "OK" \in Fatal \cup {"OK", "RTE", "VAL", "TIMEOUT"} /\ conn \in ConnType
      BY <1>3 DEF Typed
    <3> QED
      BY <1>1, <3>1, SetsError
  <2>4. Base' = Base
    BY <1>1 DEF Base
  <2> QED
    BY <1>1, <2>1, <2>2, <2>3, <2>4 DEF PlainStep, ClientStep
<1>5. /\ Steady(os)' /\ Where' /\ Packed' /\ Once' /\ Typed' /\ Boxed' /\ Streamed'
      /\ Box' = Box /\ Received' = Received /\ (Sent' <=> cli' = "call")
      /\ conn.state = "NONE" /\ conn.pcb # "SYN_SENT" /\ ~conn.current_msg /\ thr' # "drain"
  BY <1>4, PlainSteps
<1>6. InCall' => cli' = "call" /\ api' = [fn |-> "write", err |-> "VAL"]
  BY <1>1 DEF InCall
<1>7. Connected'
  BY <1>1, <1>3, <1>5, <1>6 DEF Connected
<1>8. Ended' /\ Held'
  BY <1>1, <1>3, <1>6, Nones DEF Ended, Ending, Held, NoBuf
<1>9. TB' = TB
  BY <1>1 DEF TB
<1> QED
  BY <1>5, <1>7, <1>8, <1>9, CallInvAfter DEF Undisturbed

\* What the client does with an answer.
LEMMA ProceedKeeps ==
    ASSUME CallInv, Proceed
    PROVE  CallInv'
<1>1. /\ os.Cur = Client /\ cli = "answered" /\ InCall
      /\ thr' = thr /\ msg' = msg /\ inpkts' = inpkts /\ lost' = lost /\ blocks' = blocks
      /\ buf' = (IF api.fn = "recv" THEN buf ELSE NoBuf)
  BY DEF Proceed, Runs, InCall
<1>2. /\ ~conn.current_msg /\ conn.state = "NONE" /\ conn.pcb # "SYN_SENT" /\ Tokens = 0
      /\ thr # "drain" /\ TB.Msg # "API" /\ msg # "API" /\ ~Sent
      /\ conn \in ConnType /\ api \in ApiType
  BY <1>1, Quiet
<1>3. Typed /\ Connected /\ Ended /\ Held /\ Boxed /\ Streamed
  BY DEF CallInv
<1>4. api.fn \in Calls /\ api.err \in Fatal \cup {"OK", "RTE", "VAL", "TIMEOUT"}
      /\ "CLSD" \in Fatal \cup {"OK", "RTE", "VAL", "TIMEOUT"}
  BY <1>2 DEF ApiType, Fatal
<1>5. SameConn(SafeErr(conn, api.err), conn) /\ SameConn(SafeErr(conn, "CLSD"), conn) /\ SameConn(conn, conn)
  BY <1>2, <1>4, SetsError
<1>6. CASE api.fn = "delconn"
  <2>1. os' = OSDel(os, "op_completed") /\ conn' = NoConn /\ cli' = "alloc" /\ api' = api /\ buf' = NoBuf
    BY <1>1, <1>6 DEF Proceed
  <2>2. ~lost
    BY <1>1, <1>3, <1>6 DEF Ended, Ending
  <2>3. Shows(os, TB, CB, MailBox, Box, 0) /\ CB.EventPtr = None /\ TB.EventPtr # "op_completed"
    BY <1>1, <1>2, Seen, CliTurn
  <2>4. Shows(os', TB, CB, MailBox, Box, 0)
    BY <2>1, <2>3, Nones, TokensDeleted
  <2>5. /\ Steady(os)' /\ Where' /\ Packed'
        /\ TB' = TB /\ CB' = CB /\ Box' = Box /\ Received' = Received /\ Tokens' = 0
    BY <1>1, <2>1, <2>3, <2>4, ClientKeeps DEF ClientStep, Received
  <2>6. /\ conn'.recvmbox = FALSE /\ conn'.current_msg = FALSE /\ conn'.pcb = "NULL" /\ conn'.state = "NONE"
        /\ conn'.rcvd = 0 /\ conn'.read = 0 /\ conn'.fin = FALSE /\ conn' \in ConnType /\ conn' = NoConn
    BY <2>1, Nones, SynSnd DEF NoConn, ConnType
  <2>7. Once'
    BY <1>1, <1>2, <2>1, <2>5, <2>6 DEF Once, Count
  <2>8. Typed'
    BY <1>1, <1>3, <2>1, <2>6, Nones DEF Typed, NoBuf
  <2>9. ~InCall' /\ ~Sent'
    BY <1>1, <1>2, <2>1, <2>5 DEF InCall, Sent
  <2>10. Connected'
    BY <1>1, <1>2, <2>1, <2>6, <2>9 DEF Connected
  <2>11. Ended' /\ Held' /\ Base' = 0
    BY <2>1, <2>6, <2>9, Nones DEF Ended, Ending, Held, NoBuf, Base
  <2>12. Boxed'
    BY <1>1, <1>2, <1>3, <2>1, <2>2, <2>5, <2>6 DEF Boxed
  <2>13. Streamed'
    BY <2>6, <2>11 DEF Streamed
  <2> QED
    BY <2>5, <2>7, <2>8, <2>10, <2>11, <2>12, <2>13, CallInvAfter
<1>7. CASE api.fn # "delconn"
  <2>1. /\ os' = os /\ SameConn(conn', conn) /\ cli' \in {"call", "loop", "recv"}
        /\ cli' = "call" => /\ api'.err = "VAL"
                            /\ api'.fn = (CASE api.fn = "newconn" -> "connect"
                                            [] api.fn = "connect" -> "delconn"
                                            [] api.fn = "recv" /\ buf # EOF -> "write"
                                            [] api.fn = "recv" /\ buf = EOF -> "close"
                                            [] api.fn = "close" -> "delconn")
                            /\ api.fn = "connect" => api.err # "OK"
                            /\ api.fn # "write"
        /\ cli' # "call" => api.fn \in {"connect", "write"} /\ (api.fn = "connect" => api.err = "OK")
        /\ api' \in ApiType
    <3>1. CASE api.fn = "newconn"
      BY <1>1, <1>5, <3>1 DEF Proceed, Calling, ApiType, Calls
    <3>2. CASE api.fn = "connect"
      <4>1. os' = os /\ conn' = SafeErr(conn, api.err)
            /\ (IF api.err = "OK" THEN cli' = "loop" /\ UNCHANGED api ELSE Calling("delconn"))
        BY <3>2 DEF Proceed
      <4> QED
        BY <1>2, <1>5, <3>2, <4>1 DEF Calling, ApiType, Calls
    <3>3. CASE api.fn = "write"
      <4>1. os' = os /\ conn' = SafeErr(conn, api.err) /\ cli' \in {"recv", "loop"} /\ api' = api
        BY <3>3 DEF Proceed
      <4> QED
        BY <1>2, <1>5, <3>3, <4>1
    <3>4. CASE api.fn = "recv" /\ buf # EOF
      <4>1. os' = os /\ conn' = conn /\ Calling("write")
        BY <3>4 DEF Proceed
      <4> QED
        BY <1>5, <3>4, <4>1 DEF Calling, ApiType, Calls
    <3>5. CASE api.fn = "recv" /\ buf = EOF
      <4>1. os' = os /\ conn' = SafeErr(conn, "CLSD") /\ Calling("close")
        BY <3>5 DEF Proceed
      <4> QED
        BY <1>5, <3>5, <4>1 DEF Calling, ApiType, Calls
    <3>6. CASE api.fn = "close"
      <4>1. os' = os /\ conn' = SafeErr(conn, api.err) /\ Calling("delconn")
        BY <3>6 DEF Proceed
      <4> QED
        BY <1>5, <3>6, <4>1 DEF Calling, ApiType, Calls
    <3> QED
      BY <1>4, <1>7, <3>1, <3>2, <3>3, <3>4, <3>5, <3>6 DEF Calls
  <2>2. Base' = Base
    <3>1. conn'.read = conn.read
      BY <2>1 DEF SameConn
    <3>2. CASE api.fn = "recv"
      BY <1>1, <3>1, <3>2 DEF Base
    <3>3. CASE api.fn # "recv"
      <4>1. buf \in Nat \ {0} => buf = conn.read
        BY <1>1, <1>2, <1>3, <3>3 DEF Held
      <4>2. Base = conn.read /\ Base' = conn'.read
        BY <1>1, <3>3, <4>1 DEF Base, NoBuf
      <4> QED
        BY <3>1, <4>2
    <3> QED
      BY <3>2, <3>3
  <2>3. PlainStep
    BY <1>1, <2>1, <2>2 DEF PlainStep, ClientStep
  <2>4. /\ Steady(os)' /\ Where' /\ Packed' /\ Once' /\ Typed' /\ Boxed' /\ Streamed'
        /\ Box' = Box /\ Received' = Received /\ (Sent' <=> cli' = "call") /\ thr' # "drain"
    BY <2>3, PlainSteps
  <2>5. /\ conn'.pcb = conn.pcb /\ conn'.state = "NONE" /\ conn'.recvmbox = conn.recvmbox
        /\ ~conn'.current_msg /\ conn'.fin = conn.fin /\ conn'.rcvd = conn.rcvd /\ conn'.read = conn.read
    BY <1>2, <2>1 DEF SameConn
  <2>6. InCall' <=> cli' = "call"
    BY <2>1 DEF InCall
  <2>7. CASE cli' # "call"
    <3>1. conn.pcb # "CLOSED" /\ conn.recvmbox /\ buf' = NoBuf
      BY <1>1, <1>3, <2>1, <2>7 DEF Connected
    <3>2. Connected'
      BY <1>2, <1>3, <2>1, <2>4, <2>5, <2>6, <2>7, <3>1 DEF Connected
    <3>3. Ended' /\ Held'
      BY <2>6, <2>7, <3>1, Nones DEF Ended, Ending, Held, NoBuf
    <3> QED
      BY <2>4, <3>2, <3>3, CallInvAfter
  <2>8. CASE cli' = "call" /\ api.fn = "newconn"
    <3>1. Fresh /\ Received = <<>> /\ conn.pcb = "CLOSED" /\ conn.recvmbox
      BY <1>1, <1>2, <1>3, <2>8 DEF Connected, Fresh
    <3>2. api'.fn = "connect" /\ api'.err = "VAL" /\ buf' = NoBuf /\ Len(Received') = 0
      BY <1>1, <2>1, <2>4, <2>8, <3>1
    <3>3. Fresh'
      BY <1>1, <2>5, <3>1, <3>2 DEF Fresh, Count
    <3>4. Connected'
      BY <1>2, <2>1, <2>4, <2>5, <2>6, <2>8, <3>1, <3>2, <3>3 DEF Connected
    <3>5. Ended' /\ Held'
      BY <2>8, <3>2, Nones DEF Ended, Ending, Held, NoBuf
    <3> QED
      BY <2>4, <3>4, <3>5, CallInvAfter
  <2>9. CASE cli' = "call" /\ api.fn = "connect"
    <3>1. Fresh /\ api'.fn = "delconn" /\ buf' = NoBuf
      BY <1>1, <1>3, <2>1, <2>9 DEF Connected
    <3>2. Connected'
      BY <1>2, <1>3, <2>1, <2>4, <2>5, <2>6, <2>9, <3>1 DEF Connected, Fresh
    <3>3. Ended' /\ Held'
      BY <1>1, <2>4, <2>5, <2>9, <3>1, Nones DEF Ended, Ending, Held, NoBuf, Fresh
    <3> QED
      BY <2>4, <3>2, <3>3, CallInvAfter
  <2>10. CASE cli' = "call" /\ api.fn = "recv" /\ buf # EOF
    <3>1. api'.fn = "write" /\ buf' = buf /\ conn.pcb # "CLOSED" /\ conn.recvmbox
      BY <1>1, <1>3, <2>1, <2>10 DEF Connected
    <3>2. Connected'
      BY <1>2, <1>3, <2>1, <2>4, <2>5, <2>6, <2>10, <3>1 DEF Connected
    <3>3. Ended'
      BY <2>10, <3>1 DEF Ended, Ending
    <3>4. Held'
      BY <1>1, <1>2, <1>3, <2>5, <2>6, <2>10, <3>1 DEF Held
    <3> QED
      BY <2>4, <3>2, <3>3, <3>4, CallInvAfter
  <2>11. CASE cli' = "call" /\ api.fn = "recv" /\ buf = EOF
    <3>1. api'.fn = "close" /\ buf' = buf /\ conn.pcb # "CLOSED" /\ conn.recvmbox
      BY <1>1, <1>3, <2>1, <2>11 DEF Connected
    <3>2. Connected'
      BY <1>2, <1>3, <2>1, <2>4, <2>5, <2>6, <2>11, <3>1 DEF Connected
    <3>3. Ended'
      BY <1>1, <1>3, <2>4, <2>5, <2>11, <3>1 DEF Ended, Ending
    <3>4. Held'
      BY <2>6, <2>11, <3>1, Nones DEF Held
    <3> QED
      BY <2>4, <3>2, <3>3, <3>4, CallInvAfter
  <2>12. CASE cli' = "call" /\ api.fn = "close"
    <3>1. api'.fn = "delconn" /\ buf' = NoBuf
      BY <1>1, <2>1, <2>12
    <3>2. Connected'
      BY <1>1, <1>2, <1>3, <2>1, <2>4, <2>5, <2>6, <2>12, <3>1 DEF Connected
    <3>3. Ended'
      BY <1>1, <1>3, <2>4, <2>5, <2>12, <3>1 DEF Ended, Ending
    <3>4. Held'
      BY <2>6, <2>12, <3>1, Nones DEF Held, NoBuf
    <3> QED
      BY <2>4, <3>2, <3>3, <3>4, CallInvAfter
  <2>13. cli' = "call" => api.fn \in {"newconn", "connect", "recv", "close"}
    BY <1>4, <1>7, <2>1 DEF Calls
  <2> QED
    BY <2>7, <2>8, <2>9, <2>10, <2>11, <2>12, <2>13
<1> QED
  BY <1>6, <1>7

\* The client, going on after an answer, does not touch the timers' side.
LEMMA ProceedLeaves ==
    ASSUME CallInv, Proceed
    PROVE  Undisturbed
<1>1. os.Cur = Client /\ cli = "answered" /\ api.fn \in Calls
  <2>1. api \in ApiType
    BY DEF CallInv, Typed
  <2> QED
    BY <2>1 DEF Proceed, Runs, ApiType
<1>2. CASE api.fn = "delconn"
  <2>1. os' = OSDel(os, "op_completed")
    BY <1>2 DEF Proceed
  <2>2. Shows(os, TB, CB, MailBox, Box, Tokens) /\ CB.EventPtr = None /\ TB.EventPtr # "op_completed"
    BY <1>1, Seen, CliTurn
  <2>3. Shows(os', TB, CB, MailBox, Box, 0)
    BY <2>1, <2>2, Nones, TokensDeleted
  <2>4. TB' = TB
    BY <2>3, SeenNext
  <2> QED
    BY <2>4 DEF Undisturbed
<1>3. CASE api.fn # "delconn"
  <2>1. os' = os
    BY <1>1, <1>3 DEF Proceed, Calls
  <2> QED
    BY <2>1 DEF Undisturbed, TB
<1> QED
  BY <1>2, <1>3

\* What is read is the next of the stream.
Reading(h, s) ==
    \/ /\ h \in Nat \ {0} /\ h = conn.read + 1 /\ h <= conn.rcvd
       /\ Stream(h, s, conn.rcvd, lost, Ends)
    \/ /\ h = EOF /\ ~lost /\ conn.rcvd = conn.read /\ (conn.pcb = "ESTABLISHED" => conn.fin)
       /\ Len(s) <= Count(conn.pcb = "NULL")
       /\ Stream(conn.read, s, conn.rcvd, lost, Ends - 1)

\* The first block unread is the next of the stream.
LEMMA ReadsOne ==
    ASSUME CallInv, conn.recvmbox, buf = NoBuf, NEW h, NEW s, h = Head(Unread), s = Tail(Unread), Unread # <<>>
    PROVE  Reading(h, s) /\ s \in Seq(SegOrEOF)
<1>1. /\ Unread \in Seq(SegOrEOF) /\ conn.rcvd \in Nat /\ conn.read \in Nat /\ lost \in BOOLEAN
      /\ Ends = Count(conn.fin) + Count(conn.pcb = "NULL") - Count(buf = EOF)
      /\ Stream(Base, Unread, conn.rcvd, lost, Ends)
  BY UnreadType
<1>2. Base = conn.read
  BY Nones DEF Base, NoBuf
<1>3. /\ s \in Seq(SegOrEOF) /\ Len(Unread) \in Nat \ {0} /\ Len(s) = Len(Unread) - 1
      /\ h = Unread[1] /\ \A i \in 1 .. Len(s) : s[i] = Unread[i + 1]
  BY <1>1
<1>4. Ends \in Int /\ Ends = Count(conn.fin) + Count(conn.pcb = "NULL")
  BY <1>1, Nones DEF Count
<1>5. /\ conn.read <= conn.rcvd
      /\ \A i \in 1 .. Len(Unread) : IF conn.read + i <= conn.rcvd THEN Unread[i] = conn.read + i
                                     ELSE Unread[i] = EOF /\ ~lost
      /\ ~lost => conn.rcvd <= conn.read + Len(Unread) /\ conn.read + Len(Unread) <= conn.rcvd + Ends
  BY <1>1, <1>2 DEF Stream
<1>6. CASE conn.read + 1 <= conn.rcvd
  <2>1. h = conn.read + 1
    BY <1>3, <1>5, <1>6
  <2>2. \A i \in 1 .. Len(s) : IF h + i <= conn.rcvd THEN s[i] = h + i ELSE s[i] = EOF /\ ~lost
    <3>1. SUFFICES ASSUME NEW i \in 1 .. Len(s)
                   PROVE  IF h + i <= conn.rcvd THEN s[i] = h + i ELSE s[i] = EOF /\ ~lost
      OBVIOUS
    <3>2. i \in Nat /\ conn.read \in Nat /\ Len(Unread) \in Nat /\ i <= Len(Unread) - 1 /\ 1 <= i
      BY <1>1, <1>3
    <3>3. i + 1 \in 1 .. Len(Unread)
      BY <3>2
    <3>4. conn.read + (i + 1) = h + i
      <4>1. \A a, b \in Nat : a + (b + 1) = (a + 1) + b
        OBVIOUS
      <4> QED
        BY <2>1, <3>2, <4>1
    <3>5. s[i] = Unread[i + 1]
      BY <1>3
    <3> QED
      BY <1>5, <3>3, <3>4, <3>5
  <2>3. ~lost => conn.rcvd <= h + Len(s) /\ h + Len(s) <= conn.rcvd + Ends
    BY <1>1, <1>3, <1>4, <1>5, <2>1
  <2>4. Stream(h, s, conn.rcvd, lost, Ends)
    BY <1>6, <2>1, <2>2, <2>3 DEF Stream
  <2> QED
    BY <1>1, <1>3, <1>6, <2>1, <2>4 DEF Reading
<1>7. CASE ~(conn.read + 1 <= conn.rcvd)
  <2>1. conn.rcvd = conn.read
    BY <1>1, <1>5, <1>7
  <2>2. h = EOF /\ ~lost
    <3>1. 1 \in 1 .. Len(Unread)
      BY <1>3
    <3> QED
      BY <1>3, <1>5, <1>7, <3>1
  <2>3. Len(Unread) <= Ends
    BY <1>1, <1>3, <1>4, <1>5, <2>1, <2>2
  <2>4. (conn.pcb = "ESTABLISHED" => conn.fin) /\ Len(s) <= Count(conn.pcb = "NULL")
    BY <1>3, <1>4, <2>3 DEF Count
  <2>5. \A i \in 1 .. Len(s) : ~(conn.read + i <= conn.rcvd) /\ s[i] = EOF
    <3>1. SUFFICES ASSUME NEW i \in 1 .. Len(s) PROVE ~(conn.read + i <= conn.rcvd) /\ s[i] = EOF
      OBVIOUS
    <3>2. i \in Nat /\ conn.read \in Nat /\ Len(Unread) \in Nat /\ i <= Len(Unread) - 1 /\ 1 <= i
      BY <1>1, <1>3
    <3>3. i + 1 \in 1 .. Len(Unread)
      BY <3>2
    <3>4. ~(conn.read + (i + 1) <= conn.rcvd) /\ ~(conn.read + i <= conn.rcvd)
      BY <2>1, <3>2
    <3>5. s[i] = Unread[i + 1]
      BY <1>3
    <3> QED
      BY <1>5, <3>3, <3>4, <3>5
  <2>6. conn.rcvd <= conn.read + Len(s) /\ conn.read + Len(s) <= conn.rcvd + (Ends - 1)
    BY <1>1, <1>3, <1>4, <2>1, <2>3
  <2>7. Stream(conn.read, s, conn.rcvd, lost, Ends - 1)
    BY <1>5, <2>2, <2>5, <2>6 DEF Stream
  <2> QED
    BY <1>3, <2>1, <2>2, <2>4, <2>7 DEF Reading
<1> QED
  BY <1>6, <1>7

\* A segment or the end of the data comes into the client's hands.
LEMMA Reads ==
    ASSUME ClientStep, cli \in {"fetch", "fetching"}, conn.recvmbox, buf = NoBuf, Unread # <<>>,
           cli' = "call", api' = [fn |-> "recv", err |-> "VAL"], buf' = Head(Unread),
           conn' = conn, lost' = lost, blocks' = blocks,
           NEW cb, NEW bx, Shows(os', TB, cb, MailBox, bx, 0), cb.EventPtr = None,
           bx = [q |-> Tail(Unread), size |-> RECVMBOX_SIZE],
           lost => Len(bx.q) >= RECVMBOX_SIZE
    PROVE  CallInv' /\ Undisturbed
<1>1. CallInv /\ os.Cur = Client /\ thr' = thr /\ msg' = msg /\ inpkts' = inpkts /\ conn \in ConnType
  BY DEF ClientStep, CallInv, Typed
<1>2. cli \notin {"await", "asleep"} /\ ~InCall
  BY DEF InCall
<1>3. /\ ~conn.current_msg /\ conn.state = "NONE" /\ conn.pcb # "SYN_SENT" /\ Tokens = 0
      /\ thr # "drain" /\ TB.Msg # "API" /\ msg # "API"
  BY <1>1, <1>2, Quiet
<1>4. /\ Steady(os)' /\ Where' /\ Packed'
      /\ TB' = TB /\ CB' = cb /\ Box' = bx /\ Received' = bx.q /\ Tokens' = 0
  BY ClientKeeps
<1>5. Reading(buf', Received') /\ Received' \in Seq(SegOrEOF) /\ Received' = Tail(Unread)
  BY <1>1, <1>4, ReadsOne
<1>6. Once'
  BY <1>1, <1>2, <1>3, <1>4 DEF Once, Count
<1>7. Typed /\ Connected /\ Boxed /\ conn.pcb # "CLOSED"
  BY <1>1, <1>2, EmptyHands DEF CallInv
<1>8. buf' \in 0 .. Segments \cup {EOF}
  BY <1>1, <1>5, Nones DEF Reading, ConnType
<1>9. Typed'
  BY <1>1, <1>7, <1>8 DEF Typed, ApiType, Calls
<1>10. InCall' /\ Sent' /\ api'.fn = "recv"
  BY DEF InCall, Sent
<1>11. Connected'
  BY <1>1, <1>3, <1>7, <1>10 DEF Connected
<1>12. Ended'
  BY <1>5, <1>10, Nones DEF Ended, Ending, Reading
<1>13. Held'
  BY <1>5, <1>10, Nones DEF Held, Reading, NoBuf
<1>14. Boxed'
  BY <1>1, <1>3, <1>4, <1>5 DEF Boxed
<1>15. Unread' = Received'
  BY DEF Unread, Handed
<1>16. Streamed'
  <2>1. CASE /\ buf' \in Nat \ {0} /\ buf' = conn.read + 1 /\ buf' <= conn.rcvd
             /\ Stream(buf', Received', conn.rcvd, lost, Ends)
    <3>1. Base' = buf' /\ Ends' = Ends
      BY <2>1, Nones DEF Base, Ends, NoBuf, Count
    <3>2. Stream(Base', Unread', conn'.rcvd, lost', Ends')
      BY <1>15, <2>1, <3>1
    <3> QED
      BY <2>1, <3>1, <3>2 DEF Streamed
  <2>2. CASE /\ buf' = EOF /\ conn.rcvd = conn.read
             /\ Stream(conn.read, Received', conn.rcvd, lost, Ends - 1)
    <3>1. Base' = conn.read
      BY <2>2, Nones DEF Base
    <3>2. Ends' = Ends - 1
      <4>1. Count(buf' = EOF) = 1 /\ Count(buf = EOF) = 0
        BY <2>2, Nones DEF Count
      <4>2. Count(conn.fin) \in Int /\ Count(conn.pcb = "NULL") \in Int
        BY DEF Count
      <4> QED
        BY <4>1, <4>2 DEF Ends
    <3>3. Stream(Base', Unread', conn'.rcvd, lost', Ends')
      BY <1>15, <2>2, <3>1, <3>2
    <3>4. Base' <= conn'.rcvd
      BY <3>3 DEF Stream
    <3> QED
      BY <3>3, <3>4 DEF Streamed
  <2> QED
    BY <1>5, <2>1, <2>2 DEF Reading
<1> QED
  BY <1>4, <1>6, <1>9, <1>11, <1>12, <1>13, <1>14, <1>16, CallInvAfter DEF Undisturbed

\* The client's pend for a block keeps the invariant of the calls.
LEMMA RecvFetchKeeps ==
    ASSUME CallInv, RecvFetch
    PROVE  CallInv' /\ Undisturbed
<1>1. /\ os.Cur = Client /\ cli = "fetch" /\ os' = OSQPend(os, "recvmbox", RecvTimeout)
      /\ thr' = thr /\ msg' = msg /\ inpkts' = inpkts /\ conn' = conn /\ lost' = lost /\ blocks' = blocks
  BY DEF RecvFetch, Runs
<1>2. ClientStep /\ ~InCall
  BY <1>1 DEF ClientStep, InCall
<1>3. buf = NoBuf /\ conn.recvmbox /\ conn.pcb # "CLOSED"
  BY <1>1, <1>2, EmptyHands
<1>4. /\ Box = [q |-> Received, size |-> RECVMBOX_SIZE] /\ Received \in Seq(SegOrEOF)
      /\ Received \in Seq(Letters) /\ Len(Received) \in Nat
  BY <1>3, ValidBox
<1>5. CB.EventPtr = None /\ CB.Msg = None /\ CB \in TCB(Ptrs) /\ Unread = Received
  BY <1>1, CliTurn, Turns DEF Unread, Handed
<1>6. /\ ~conn.current_msg /\ conn.state = "NONE" /\ conn.pcb # "SYN_SENT" /\ Tokens = 0
      /\ thr # "drain" /\ TB.Msg # "API" /\ msg # "API" /\ conn \in ConnType
  BY <1>1, Quiet
<1>7. Shows(os, TB, CB, MailBox, [q |-> Received, size |-> RECVMBOX_SIZE], 0) /\ RECVMBOX_SIZE \in Nat
  BY <1>4, <1>6, Seen, Nones
<1>8. Typed /\ Connected /\ Ended /\ Held /\ Boxed /\ Streamed /\ ~lost
  BY <1>1 DEF CallInv, Boxed
<1>9. CASE OSQEntries(os, "recvmbox") > 0
  <2>1. Received # <<>>
    BY <1>9 DEF OSQEntries, Received, Box
  <2>2. buf' = Head(Unread) /\ cli' = "call" /\ api' = [fn |-> "recv", err |-> "VAL"]
    BY <1>5, <1>9 DEF RecvFetch, Calling, Oldest, Received, Box
  <2> DEFINE bx == [q |-> Tail(Unread), size |-> RECVMBOX_SIZE]
  <2>3. Shows(os', TB, CB, MailBox, bx, 0)
    BY <1>1, <1>4, <1>5, <1>7, <2>1, BoxTaken
  <2>4. bx = [q |-> Tail(Unread), size |-> RECVMBOX_SIZE]
    OBVIOUS
  <2> HIDE DEF bx
  <2> QED
    BY <1>1, <1>2, <1>3, <1>5, <1>8, <2>1, <2>2, <2>3, <2>4, Reads
<1>10. CASE ~(OSQEntries(os, "recvmbox") > 0)
  <2>1. cli' = "fetching" /\ buf' = buf /\ api' = api
    BY <1>10 DEF RecvFetch
  <2>2. Received = <<>>
    BY <1>4, <1>10, EmptySeq DEF OSQEntries, Received, Box
  <2> DEFINE cb == Waiter(CB, "recvmbox", "Q", RecvTimeout)
  <2>3. Shows(os', TB, cb, MailBox, Box, 0)
    <3>1. Shows(os, TB, CB, MailBox, Box, 0) /\ Box.q = <<>> /\ RecvTimeout \in Nat
      BY <1>4, <1>7, <2>2, Nones
    <3> QED
      BY <1>1, <1>5, <3>1, CliSleepsBox
  <2>4. cb.EventPtr = "recvmbox" /\ Listed(cb) /\ cb.Msg = None
    <3>1. "recvmbox" \in Event /\ RecvTimeout \in Nat
      BY Three, Nones
    <3> QED
      BY <1>5, <3>1, SleptBlock
  <2> HIDE DEF cb
  <2>5. /\ Steady(os)' /\ Where' /\ Packed'
        /\ TB' = TB /\ CB' = cb /\ Box' = Box /\ Received' = Received /\ Tokens' = 0
    BY <1>2, <2>1, <2>3, <2>4, ClientKeeps DEF Received
  <2>6. ~InCall' /\ ~Sent'
    BY <1>1, <1>6, <2>1, <2>5 DEF InCall, Sent
  <2>7. Once'
    BY <1>1, <1>6, <2>1, <2>5 DEF Once, Count
  <2>8. Typed' /\ Held'
    BY <1>1, <1>3, <1>8, <2>1, <2>6, Nones DEF Typed, Held, NoBuf
  <2>9. Connected'
    BY <1>1, <1>3, <1>6, <1>8, <2>1, <2>6 DEF Connected
  <2>10. Ended'
    BY <1>3, <2>1, <2>6, Nones DEF Ended, Ending
  <2>11. Boxed'
    BY <1>1, <1>3, <1>6, <1>8, <2>1, <2>2, <2>5 DEF Boxed
  <2>12. Unread' = Unread
    BY <1>5, <2>1, <2>4, <2>5 DEF Unread, Handed
  <2>13. Streamed'
    BY <1>1, <1>8, <2>1, <2>12 DEF Streamed, Base, Ends
  <2> QED
    BY <2>5, <2>7, <2>8, <2>9, <2>10, <2>11, <2>13, CallInvAfter DEF Undisturbed
<1> QED
  BY <1>9, <1>10

\* Its return with a block keeps the invariant of the calls.
LEMMA RecvReturnsKeeps ==
    ASSUME CallInv, RecvReturns
    PROVE  CallInv' /\ Undisturbed /\ Box' = Box
<1>1. /\ os.Cur = Client /\ cli = "fetching" /\ os' = PendTail(os)
      /\ thr' = thr /\ msg' = msg /\ inpkts' = inpkts /\ lost' = lost /\ blocks' = blocks
  BY DEF RecvReturns, Returns
<1>2. ClientStep /\ ~InCall
  BY <1>1 DEF ClientStep, InCall
<1>3. buf = NoBuf /\ conn.recvmbox /\ conn.pcb # "CLOSED"
  BY <1>1, <1>2, EmptyHands
<1>4. /\ Box = [q |-> Received, size |-> RECVMBOX_SIZE] /\ Received \in Seq(SegOrEOF)
  BY <1>3, ValidBox
<1>5. CB.EventPtr # None /\ CB \in TCB(Ptrs) /\ (Listed(CB) <=> CB.StatPend = "TO")
  BY <1>1, CliTurn, Turns
<1>6. /\ ~conn.current_msg /\ conn.state = "NONE" /\ conn.pcb # "SYN_SENT" /\ Tokens = 0
      /\ thr # "drain" /\ TB.Msg # "API" /\ msg # "API" /\ conn \in ConnType
  BY <1>1, Quiet
<1> DEFINE cb == Returned(CB)
<1>7. Shows(os', TB, cb, MailBox, Box, 0)
  <2>1. Shows(os, TB, CB, MailBox, Box, 0)
    BY <1>6, Seen
  <2> QED
    BY <1>1, <1>5, <2>1, CliReturns
<1>8. cb.EventPtr = None
  BY <1>5, AwakeBlock
<1> HIDE DEF cb
<1>9. Typed /\ Connected /\ Ended /\ Held /\ Boxed /\ Streamed /\ Where
  BY <1>1 DEF CallInv
<1>10. ASSUME os.tcb[Client].StatPend # "TO" PROVE CallInv' /\ Undisturbed
  <2>1. ~Listed(CB) /\ CB.Msg \in SegOrEOF
    BY <1>1, <1>5, <1>9, <1>10 DEF Where, CB
  <2>2. Unread = <<CB.Msg>> \o Received
    BY <1>1, <2>1 DEF Unread, Handed
  <2>3. Unread # <<>> /\ Head(Unread) = CB.Msg /\ Tail(Unread) = Received
    <3>1. <<CB.Msg>> \in Seq(SegOrEOF)
      BY <2>1
    <3> QED
      BY <1>4, <2>1, <2>2, <3>1
  <2>4. buf' = Head(Unread) /\ cli' = "call" /\ api' = [fn |-> "recv", err |-> "VAL"] /\ conn' = conn
    BY <1>10, <2>3 DEF RecvReturns, Calling, CB
  <2>5. Box = [q |-> Tail(Unread), size |-> RECVMBOX_SIZE]
    BY <1>4, <2>3
  <2>6. lost => Len(Box.q) >= RECVMBOX_SIZE
    BY <1>9 DEF Boxed, Received
  <2> QED
    BY <1>1, <1>2, <1>3, <1>7, <1>8, <2>3, <2>4, <2>5, <2>6, Reads
<1>11. ASSUME os.tcb[Client].StatPend = "TO" PROVE CallInv' /\ Undisturbed
  <2>1. cli' = "loop" /\ conn' = SafeErr(conn, "TIMEOUT") /\ buf' = buf /\ api' = api
    BY <1>11 DEF RecvReturns
  <2>2. SameConn(conn', conn)
    BY <1>6, <2>1, SetsError
  <2>3. /\ conn'.pcb = conn.pcb /\ conn'.state = "NONE" /\ conn'.recvmbox = conn.recvmbox
        /\ ~conn'.current_msg /\ conn'.fin = conn.fin /\ conn'.rcvd = conn.rcvd /\ conn'.read = conn.read
        /\ conn' \in ConnType
    BY <1>6, <2>2 DEF SameConn
  <2>4. /\ Steady(os)' /\ Where' /\ Packed'
        /\ TB' = TB /\ CB' = cb /\ Box' = Box /\ Received' = Received /\ Tokens' = 0
    BY <1>2, <1>7, <1>8, <2>1, ClientKeeps DEF Received
  <2>5. ~InCall' /\ ~Sent'
    BY <1>1, <1>6, <2>1, <2>4 DEF InCall, Sent
  <2>6. Once'
    BY <1>1, <1>6, <2>1, <2>3, <2>4 DEF Once, Count
  <2>7. Typed' /\ Held'
    BY <1>1, <1>3, <1>9, <2>1, <2>3, <2>5, Nones DEF Typed, Held, NoBuf
  <2>8. Connected'
    BY <1>1, <1>3, <1>6, <1>9, <2>1, <2>3, <2>5 DEF Connected
  <2>9. Ended'
    BY <1>3, <2>1, <2>5, Nones DEF Ended, Ending
  <2>10. Boxed'
    BY <1>1, <1>3, <1>6, <1>9, <2>1, <2>3, <2>4 DEF Boxed
  <2>11. Unread' = Unread
    BY <1>1, <1>5, <1>11, <2>1, <2>4 DEF Unread, Handed, CB
  <2>12. Streamed'
    BY <1>1, <1>9, <2>1, <2>3, <2>11 DEF Streamed, Base, Ends
  <2> QED
    BY <2>4, <2>6, <2>7, <2>8, <2>9, <2>10, <2>12, CallInvAfter DEF Undisturbed
<1>12. Box' = Box
  BY <1>7, SeenNext
<1> QED
  BY <1>10, <1>11, <1>12

\* netconn_alloc keeps the invariant of the calls.
LEMMA AllocKeeps ==
    ASSUME CallInv, netconn_alloc
    PROVE  CallInv' /\ Undisturbed
<1>1. /\ os.Cur = Client /\ cli = "alloc" /\ blocks > 0 /\ blocks' = blocks - 1
      /\ os' = [os EXCEPT !.ev["recvmbox"] = OSQCreate(RECVMBOX_SIZE), !.ev["op_completed"] = OSSemCreate(0)]
      /\ conn' = [NoConn EXCEPT !.recvmbox = TRUE] /\ cli' = "call" /\ api' = [fn |-> "newconn", err |-> "VAL"]
      /\ lost' = FALSE /\ thr' = thr /\ msg' = msg /\ inpkts' = inpkts /\ buf' = buf
  BY DEF netconn_alloc, Runs, Calling
<1>2. ClientStep /\ ~InCall
  BY <1>1 DEF ClientStep, InCall
<1>3. buf = NoBuf
  BY <1>2, EmptyHands
<1>4. thr # "drain" /\ TB.Msg # "API" /\ msg # "API"
  BY <1>1, Quiet
<1>5. TB.EventPtr = "mbox" /\ CB.EventPtr = None
  BY <1>1, <1>4, CliTurn
<1>6. Shows(os', TB, CB, MailBox, EmptyBox, 0)
  <2>1. Shows(os, TB, CB, MailBox, Box, Tokens)
    BY Seen
  <2>2. Shows(Created(os), TB, CB, MailBox, EmptyBox, 0)
    BY <1>5, <2>1, BothCreated
  <2> QED
    BY <1>1, <2>2 DEF Created
<1>7. /\ Steady(os)' /\ Where' /\ Packed'
      /\ TB' = TB /\ CB' = CB /\ Box' = EmptyBox /\ Received' = <<>> /\ Tokens' = 0
  BY <1>1, <1>2, <1>5, <1>6, ClientKeeps DEF EmptyBox
<1>8. /\ conn'.pcb = "NULL" /\ conn'.state = "NONE" /\ conn'.recvmbox = TRUE /\ conn'.current_msg = FALSE
      /\ conn'.fin = FALSE /\ conn'.rcvd = 0 /\ conn'.read = 0 /\ conn' \in ConnType
  <2>1. NoSnd \in Snd /\ 0 \in 0 .. Segments
    BY Nones, SynSnd
  <2>2. conn' = [last_err |-> "OK", state |-> "NONE", recvmbox |-> TRUE, current_msg |-> FALSE,
                 pcb |-> "NULL", fin |-> FALSE, snd |-> NoSnd, rcvd |-> 0, read |-> 0]
    BY <1>1 DEF NoConn
  <2> QED
    BY <2>1, <2>2 DEF ConnType
<1>9. Once'
  BY <1>1, <1>4, <1>7, <1>8 DEF Once, Count
<1>10. Typed'
  <2>1. Typed
    BY DEF CallInv
  <2>2. blocks' \in 0 .. Blocks
    BY <1>1, <2>1, Nones DEF Typed
  <2>3. api' \in ApiType
    BY <1>1 DEF ApiType, Calls
  <2>4. lost' \in BOOLEAN /\ cli' = "call"
    BY <1>1
  <2> QED
    BY <1>1, <1>8, <2>1, <2>2, <2>3, <2>4 DEF Typed
<1>11. InCall' /\ Sent' /\ api'.fn = "newconn"
  BY <1>1 DEF InCall, Sent
<1>12. Len(Received') = 0
  BY <1>7
<1>13. Connected'
  BY <1>1, <1>3, <1>4, <1>7, <1>8, <1>11, <1>12 DEF Connected, Fresh, Count
<1>14. Ended' /\ Held'
  BY <1>1, <1>3, <1>11, Nones DEF Ended, Ending, Held, NoBuf
<1>15. Boxed'
  BY <1>1, <1>4, <1>7 DEF Boxed, EmptyBox
<1>16. Streamed'
  <2>1. Unread' = <<>> /\ Base' = 0
    BY <1>1, <1>3, <1>7, <1>8, Nones DEF Unread, Handed, Base, NoBuf
  <2>2. Ends' = 1
    BY <1>1, <1>3, <1>8, Nones DEF Ends, Count
  <2> QED
    BY <1>8, <2>1, <2>2 DEF Streamed, Stream
<1> QED
  BY <1>7, <1>9, <1>10, <1>13, <1>14, <1>15, <1>16, CallInvAfter DEF Undisturbed

-----------------------------------------------------------------------------
(* A packet arrives, and the clock ticks.                                     *)

\* What a message does to the block that waits for it.
LEMMA AnsweredBlock ==
    ASSUME NEW b \in TCB(Ptrs), BlockOk(b), b.EventPtr = "mbox", NEW m \in Ptrs
    PROVE  /\ Answered(b, m, "Q", "OK").EventPtr = b.EventPtr /\ Answered(b, m, "Q", "OK").Msg = m
           /\ Answered(b, m, "Q", "OK").Stat = {} /\ Answered(b, m, "Q", "OK").Dly = 0
           /\ Answered(b, m, "Q", "OK").StatPend = "OK"
<1> DEFINE r == Answered(b, m, "Q", "OK")
<1>1. r.EventPtr = b.EventPtr /\ r.Stat = b.Stat \ {"Q"} /\ r.StatPend = "OK" /\ r.Dly = 0 /\ r.Msg = m
  BY AnsweredType
<1>2. b.Stat = {} \/ b.Stat = {"Q"}
  BY DEF BlockOk, Kind
<1> HIDE DEF r
<1>3. r.Stat = {}
  BY <1>1, <1>2
<1> QED
  BY <1>1, <1>3 DEF r

\* A packet wakes tcpip_thread, or waits for it.
Arrived(tb, mb) ==
    /\ Shows(os', tb, CB, mb, Box, Tokens) /\ mb = [q |-> mb.q, size |-> TCPIP_MBOX_SIZE]
    /\ mb.q \in Seq(Packets) /\ (thr = "wait" => mb.q = <<>>)
    /\ inpkts + 1 = Len(mb.q) + Count(tb.Msg \in Packets)
    /\ tb.EventPtr = TB.EventPtr /\ tb.Msg # "API" /\ (thr = "drain" => tb = TB)
    /\ (thr = "wait" => tb.Msg \in Msgs)
    /\ (tb = TB \/ (tb.Stat = {} /\ tb.Dly = 0 /\ tb.StatPend = "OK"))

\* A packet that arrives is in tcpip_thread's mailbox, or in its hands.
LEMMA InputArrival ==
    ASSUME CallInv, tcpip_input
    PROVE  \E tb, mb : Arrived(tb, mb)
<1>1. os.Cur = Rest /\ MboxValid
  BY DEF tcpip_input, Runs
<1>2. /\ Listed(TB) /\ TB.Msg = None /\ msg = None /\ thr \in {"wait", "drain"}
      /\ TB.EventPtr = (IF thr = "wait" THEN "mbox" ELSE "recvmbox")
      /\ CB.EventPtr \in {"op_completed", "recvmbox"} /\ Listed(CB)
  BY <1>1, RestTurn
<1>3. Packed /\ MailBox = [q |-> Mail, size |-> TCPIP_MBOX_SIZE] /\ Mail \in Seq(Packets)
  BY DEF CallInv, Packed
<1>4. Shows(os, TB, CB, MailBox, Box, Tokens) /\ TB \in TCB(Ptrs) /\ BlockOk(TB)
  BY Seen, Turns
<1>5. Len(Mail) \in Nat /\ Len(Mail) < TCPIP_MBOX_SIZE /\ inpkts = Len(Mail)
  <2>1. ~(Len(Mail) >= MailBox.size)
    BY <1>1 DEF MboxValid, sys_mbox_valid, OSQFull, OSQEntries, MailBox, Mail
  <2>2. MailBox.size = TCPIP_MBOX_SIZE /\ Len(Mail) \in Nat
    BY <1>3
  <2>3. inpkts = Len(Mail)
    BY <1>2, <1>3, Nones DEF Packed, Count
  <2> QED
    BY <2>1, <2>2, <2>3, Nones
<1>6. PICK p \in Packets : os' = OSQPost(os, "mbox", p)
  BY DEF tcpip_input
<1>7. p \in Msgs /\ p \in Ptrs /\ p # "API" /\ CB.EventPtr # "mbox"
  BY <1>2, <1>6, Nones DEF Msgs, Ptrs
<1>8. CASE thr = "wait"
  <2> DEFINE tb == Answered(TB, p, "Q", "OK")
  <2>1. Mail = <<>>
    BY <1>3, <1>8 DEF Packed
  <2>2. tb.EventPtr = TB.EventPtr /\ tb.Msg = p /\ tb.Stat = {} /\ tb.Dly = 0 /\ tb.StatPend = "OK"
    BY <1>2, <1>4, <1>7, <1>8, AnsweredBlock
  <2>3. TB.EventPtr = "mbox"
    BY <1>2, <1>8
  <2>4. Shows(os', tb, CB, MailBox, Box, Tokens)
    BY <1>2, <1>4, <1>6, <1>7, <2>3, MailWakes
  <2> HIDE DEF tb
  <2>5. inpkts + 1 = Len(MailBox.q) + Count(tb.Msg \in Packets)
    BY <1>3, <1>5, <1>6, <2>1, <2>2 DEF Count
  <2>6. Arrived(tb, MailBox)
    BY <1>3, <1>7, <1>8, <2>1, <2>2, <2>4, <2>5 DEF Arrived
  <2> QED
    BY <2>6
<1>9. CASE thr = "drain"
  <2> DEFINE mb == [q |-> Append(Mail, p), size |-> TCPIP_MBOX_SIZE]
  <2>1. Mail \in Seq(Letters) /\ TCPIP_MBOX_SIZE \in Nat
    BY <1>3, Nones DEF Letters, Msgs
  <2>2. Shows(os, TB, CB, [q |-> Mail, size |-> TCPIP_MBOX_SIZE], Box, Tokens)
    BY <1>3, <1>4
  <2>3. TB.EventPtr # "mbox"
    BY <1>2, <1>9
  <2>4. Shows(os', TB, CB, mb, Box, Tokens)
    BY <1>5, <1>6, <1>7, <2>1, <2>2, <2>3, MailAppends
  <2>5. mb.q = Append(Mail, p) /\ mb = [q |-> mb.q, size |-> TCPIP_MBOX_SIZE]
    OBVIOUS
  <2> HIDE DEF mb
  <2>6. mb.q \in Seq(Packets) /\ Len(mb.q) = Len(Mail) + 1
    BY <1>3, <1>6, <2>5
  <2>7. inpkts + 1 = Len(mb.q) + Count(TB.Msg \in Packets)
    BY <1>2, <1>5, <2>6, Nones DEF Count
  <2>8. Arrived(TB, mb)
    BY <1>2, <1>9, <2>4, <2>5, <2>6, <2>7, Nones DEF Arrived
  <2> QED
    BY <2>8
<1> QED
  BY <1>2, <1>8, <1>9

\* A packet that arrives keeps the invariant of the calls.
LEMMA InputArrives ==
    ASSUME CallInv, tcpip_input
    PROVE  CallInv' /\ Undisturbed /\ Box' = Box
<1>1. /\ os.Cur = Rest /\ inpkts < MEMP_NUM_TCPIP_MSG_INPKT /\ inpkts' = inpkts + 1
      /\ thr' = thr /\ msg' = msg /\ conn' = conn /\ api' = api /\ lost' = lost
      /\ cli' = cli /\ buf' = buf /\ blocks' = blocks
  BY DEF tcpip_input, Runs, vC
<1>2. /\ Listed(TB) /\ TB.Msg = None /\ msg = None /\ thr \in {"wait", "drain"}
      /\ CB.EventPtr \in {"op_completed", "recvmbox"}
  BY <1>1, RestTurn
<1>3. Where /\ Packed /\ Once /\ Typed
  BY DEF CallInv
<1>4. PICK tb, mb : Arrived(tb, mb)
  BY InputArrival
<1>5. /\ Shows(os', tb, CB, mb, Box, Tokens) /\ mb = [q |-> mb.q, size |-> TCPIP_MBOX_SIZE]
      /\ mb.q \in Seq(Packets) /\ (thr = "wait" => mb.q = <<>>)
      /\ inpkts + 1 = Len(mb.q) + Count(tb.Msg \in Packets)
      /\ tb.EventPtr = TB.EventPtr /\ tb.Msg # "API" /\ (thr = "drain" => tb = TB)
      /\ (thr = "wait" => tb.Msg \in Msgs)
      /\ (tb = TB \/ (tb.Stat = {} /\ tb.Dly = 0 /\ tb.StatPend = "OK"))
  BY <1>4 DEF Arrived
<1>6. /\ Steady(os)' /\ TB' = tb /\ CB' = CB /\ MailBox' = mb /\ Box' = Box /\ Tokens' = Tokens
      /\ Mail' = mb.q /\ Received' = Received
  BY <1>5, SeenNext DEF Received
<1>7. Where'
  BY <1>1, <1>2, <1>3, <1>5, <1>6 DEF Where
<1>8. Packed'
  BY <1>1, <1>2, <1>5, <1>6, Nones DEF Packed, Count
<1>9. Once'
  BY <1>1, <1>2, <1>3, <1>5, <1>6, Nones DEF Once, Count
<1>10. (InCall' <=> InCall) /\ (Sent' <=> Sent) /\ Unread' = Unread
  BY <1>1, <1>2, <1>5, <1>6, Nones DEF InCall, Sent, Unread, Handed
<1>11. inpkts' \in 0 .. MEMP_NUM_TCPIP_MSG_INPKT
  BY <1>1, <1>3, Nones DEF Typed
<1>12. /\ cli' \in {"alloc", "call", "await", "asleep", "answered", "loop", "recv", "fetch", "fetching"}
       /\ (cli' = "alloc" <=> cli = "alloc") /\ (cli' = "fetch" => cli = "fetch")
       /\ (cli' = "fetching" /\ Listed(CB') => cli = "fetching" /\ Listed(CB))
  BY <1>1, <1>3, <1>6 DEF Typed
<1>13. Undisturbed
  BY <1>5, <1>6 DEF Undisturbed
<1> QED
  BY <1>1, <1>6, <1>7, <1>8, <1>9, <1>10, <1>11, <1>12, <1>13, Carries

\* A tick changes no message, count or wait list.
LEMMA TickKeeps ==
    ASSUME CallInv, Tick
    PROVE  CallInv' /\ Box' = Box
<1>1. /\ os' = OSIntExit(OSTimeTick(OSIntEnter(os)))
      /\ thr' = thr /\ msg' = msg /\ inpkts' = inpkts /\ conn' = conn /\ api' = api /\ lost' = lost
      /\ cli' = cli /\ buf' = buf /\ blocks' = blocks
  BY DEF Tick, SysTick, Leave, vC
<1>2. Where /\ Packed /\ Once /\ Typed
  BY DEF CallInv
<1>3. /\ Shows(os, TB, CB, MailBox, Box, Tokens)
      /\ TB \in TCB(Ptrs) /\ BlockOk(TB) /\ Unanswered(TB) /\ CB \in TCB(Ptrs) /\ BlockOk(CB) /\ Unanswered(CB)
  BY Seen, Turns
<1> DEFINE tb == Ticked(TB)
           cb == Ticked(CB)
<1>4. Shows(os', tb, cb, MailBox, Box, Tokens)
  BY <1>1, <1>3, TickTurns
<1>5. tb.EventPtr = TB.EventPtr /\ (Listed(tb) <=> Listed(TB)) /\ tb.Msg = TB.Msg
  BY <1>3, TickedBlock
<1>6. /\ cb.EventPtr = CB.EventPtr /\ (Listed(cb) <=> Listed(CB)) /\ cb.Msg = CB.Msg
      /\ CB.Dly = 0 => cb.Dly = 0 /\ cb.StatPend = CB.StatPend
  BY <1>3, TickedBlock
<1> HIDE DEF tb, cb
<1>7. /\ Steady(os)' /\ TB' = tb /\ CB' = cb /\ MailBox' = MailBox /\ Box' = Box /\ Tokens' = Tokens
      /\ Mail' = Mail /\ Received' = Received
  BY <1>4, SeenNext DEF Mail, Received
<1>8. Where'
  BY <1>1, <1>2, <1>5, <1>6, <1>7 DEF Where
<1>9. Packed'
  BY <1>1, <1>2, <1>5, <1>6, <1>7 DEF Packed
<1>10. Once'
  BY <1>1, <1>2, <1>5, <1>6, <1>7 DEF Once, Count
<1>11. (InCall' <=> InCall) /\ (Sent' <=> Sent) /\ Unread' = Unread
  BY <1>1, <1>5, <1>6, <1>7 DEF InCall, Sent, Unread, Handed
<1>12. inpkts' \in 0 .. MEMP_NUM_TCPIP_MSG_INPKT
  BY <1>1, <1>2 DEF Typed
<1>13. /\ cli' \in {"alloc", "call", "await", "asleep", "answered", "loop", "recv", "fetch", "fetching"}
       /\ (cli' = "alloc" <=> cli = "alloc") /\ (cli' = "fetch" => cli = "fetch")
       /\ (cli' = "fetching" /\ Listed(CB') => cli = "fetching" /\ Listed(CB))
  BY <1>1, <1>2, <1>6, <1>7 DEF Typed
<1> QED
  BY <1>1, <1>7, <1>8, <1>9, <1>10, <1>11, <1>12, <1>13, Carries

\* CallInv is kept by every step.
LEMMA CallInvKept ==
    ASSUME IInv, [Next]_vars
    PROVE  CallInv'
<1>1. CallInv
  BY DEF IInv
<1>2. CASE Fetch
  BY <1>2, FetchKeeps
<1>3. CASE FetchReturns
  BY <1>3, FetchReturnsKeeps
<1>4. CASE PlainTimer
  BY <1>1, <1>4, PlainTimerKeeps
<1>5. CASE tcpip_tcp_timer
  BY <1>1, <1>5, TcpTimerKeeps
<1>6. CASE newconn
  BY <1>1, <1>6, NewconnKeeps
<1>7. CASE do_connect
  BY <1>1, <1>7, ConnectKeeps
<1>8. CASE do_write
  BY <1>1, <1>8, WriteKeeps
<1>9. CASE do_recv
  BY <1>1, <1>9, RecvKeeps
<1>10. CASE do_close
  BY <1>1, <1>10, CloseKeeps
<1>11. CASE DrainReturns
  BY <1>1, <1>11, DrainReturnsKeeps
<1>12. CASE ethernet_input
  BY <1>1, <1>12, InputKeeps
<1>13. CASE netconn_alloc
  BY <1>1, <1>13, AllocKeeps
<1>14. CASE Call
  BY <1>1, <1>14, CallKeeps
<1>15. CASE Await \/ AwaitReturns
  BY <1>1, <1>15, AwaitKeeps
<1>16. CASE Proceed
  BY <1>1, <1>16, ProceedKeeps
<1>17. CASE Loop \/ netconn_recv
  BY <1>1, <1>17, LoopKeeps
<1>18. CASE RecvFetch
  BY <1>1, <1>18, RecvFetchKeeps
<1>19. CASE RecvReturns
  BY <1>1, <1>19, RecvReturnsKeeps
<1>20. CASE tcpip_input
  BY <1>1, <1>20, InputArrives
<1>21. CASE Tick
  BY <1>1, <1>21, TickKeeps
<1>22. CASE UNCHANGED vars
  <2>1. /\ os' = os /\ thr' = thr /\ msg' = msg /\ inpkts' = inpkts /\ conn' = conn /\ api' = api
        /\ lost' = lost /\ cli' = cli /\ buf' = buf /\ blocks' = blocks
    BY <1>22 DEF vars, vC
  <2>2. TB' = TB /\ CB' = CB /\ MailBox' = MailBox /\ Mail' = Mail /\ Box' = Box /\ Received' = Received
        /\ Tokens' = Tokens /\ Steady(os)' = Steady(os)
    BY <2>1 DEF TB, CB, MailBox, Mail, Box, Received, Tokens
  <2>3. (InCall' <=> InCall) /\ (Sent' <=> Sent) /\ Unread' = Unread
    BY <2>1, <2>2 DEF InCall, Sent, Unread, Handed
  <2>4. Where /\ Packed /\ Once /\ Typed /\ Steady(os)
    BY <1>1 DEF CallInv
  <2>5. Where' /\ Packed' /\ Once'
    BY <2>1, <2>2, <2>4 DEF Where, Packed, Once
  <2>6. inpkts' \in 0 .. MEMP_NUM_TCPIP_MSG_INPKT /\ Steady(os)'
    BY <2>1, <2>2, <2>4 DEF Typed
  <2>7. /\ cli' \in {"alloc", "call", "await", "asleep", "answered", "loop", "recv", "fetch", "fetching"}
        /\ (cli' = "alloc" <=> cli = "alloc") /\ (cli' = "fetch" => cli = "fetch")
        /\ (cli' = "fetching" /\ Listed(CB') => cli = "fetching" /\ Listed(CB))
    BY <2>1, <2>2, <2>4 DEF Typed
  <2> QED
    BY <1>1, <2>1, <2>2, <2>3, <2>5, <2>6, <2>7, Carries
<1> QED
  BY <1>2, <1>3, <1>4, <1>5, <1>6, <1>7, <1>8, <1>9, <1>10, <1>11, <1>12, <1>13, <1>14, <1>15,
     <1>16, <1>17, <1>18, <1>19, <1>20, <1>21, <1>22 DEF Next, tcpip_thread, tcp_client

-----------------------------------------------------------------------------
(* The list of timers. Due is a recursive function; what it computes is shown *)
(* by the least index at which it would be something else.                    *)

List == Seq([h : Handlers, time : Nat])

\* A set of naturals that is not empty has a least element.
LEMMA LeastOne ==
    ASSUME NEW P \in SUBSET Nat, P # {}
    PROVE  \E m \in P : \A n \in P : m <= n
  BY HighestIs

\* An entry of a list of timers.
LEMMA TimeType ==
    ASSUME NEW list \in List, NEW i \in 1 .. Len(list)
    PROVE  list[i] \in [h : Handlers, time : Nat] /\ list[i].h \in Handlers /\ list[i].time \in Nat
<1>1. list[i] \in [h : Handlers, time : Nat]
  BY ElementOfSeq DEF List
<1> QED
  BY <1>1

\* d adds up the times of a list as far as its n-th entry.
Adds(d, list, n) == d = [j \in 0 .. n |-> IF j = 0 THEN 0 ELSE d[j - 1] + list[j].time]

\* The sums of the times up to an entry exist: a function on a range of the naturals.
LEMMA AddsExists ==
    ASSUME NEW list, NEW n \in Nat
    PROVE  \E d : Adds(d, list, n)
<1> DEFINE Bad == {m \in Nat : ~ \E d : Adds(d, list, m)}
<1>1. SUFFICES ASSUME Bad # {} PROVE FALSE
  OBVIOUS
<1>2. PICK m \in Bad : \A k \in Bad : m <= k
  BY <1>1, LeastOne
<1>3. CASE m = 0
  <2>1. Adds([j \in 0 .. m |-> 0], list, m)
    BY <1>3 DEF Adds
  <2> QED
    BY <1>2, <2>1
<1>4. CASE m # 0
  <2>1. m - 1 \in Nat /\ m - 1 \notin Bad
    BY <1>2, <1>4
  <2>2. PICK d : Adds(d, list, m - 1)
    BY <2>1
  <2> DEFINE e == [j \in 0 .. m |-> IF j = m THEN d[m - 1] + list[m].time ELSE d[j]]
  <2>3. \A j \in 0 .. m - 1 : d[j] = IF j = 0 THEN 0 ELSE d[j - 1] + list[j].time
    BY <2>2 DEF Adds
  <2>4. ASSUME NEW j \in 0 .. m PROVE e[j] = IF j = 0 THEN 0 ELSE e[j - 1] + list[j].time
    BY <1>4, <2>1, <2>3
  <2>5. Adds(e, list, m)
    BY <2>4 DEF Adds
  <2> QED
    BY <1>2, <2>5
<1> QED
  BY <1>3, <1>4

\* What Due computes.
LEMMA DueIs ==
    ASSUME NEW list \in List
    PROVE  /\ Due(list, 0) = 0
           /\ \A i \in 1 .. Len(list) : Due(list, i) = Due(list, i - 1) + list[i].time
<1>1. Len(list) \in Nat
  BY DEF List
<1>2. PICK d : d = (CHOOSE x : Adds(x, list, Len(list)))
  OBVIOUS
<1>3. Adds(d, list, Len(list))
  BY <1>1, <1>2, AddsExists
<1>4. \A i : Due(list, i) = d[i]
  BY <1>2 DEF Due, Adds
<1>5. \A j \in 0 .. Len(list) : d[j] = IF j = 0 THEN 0 ELSE d[j - 1] + list[j].time
  BY <1>3 DEF Adds
<1> QED
  BY <1>1, <1>4, <1>5

\* f adds up the times of a list.
AddsUp(f, list) == f[0] = 0 /\ \A i \in 1 .. Len(list) : f[i] = f[i - 1] + list[i].time

\* Nothing else does.
LEMMA DueUnique ==
    ASSUME NEW list \in List, NEW f, AddsUp(f, list)
    PROVE  \A i \in 0 .. Len(list) : Due(list, i) = f[i]
<1> DEFINE Bad == {i \in 0 .. Len(list) : Due(list, i) # f[i]}
<1>1. Len(list) \in Nat /\ Bad \in SUBSET Nat
  BY DEF List
<1>2. SUFFICES ASSUME Bad # {} PROVE FALSE
  OBVIOUS
<1>3. PICK m \in Bad : \A k \in Bad : m <= k
  BY <1>1, <1>2, LeastOne
<1>4. m # 0
  BY DueIs DEF AddsUp
<1>5. m - 1 \in 0 .. Len(list) /\ m \in 1 .. Len(list) /\ m - 1 \notin Bad
  BY <1>1, <1>3, <1>4
<1>6. Due(list, m - 1) = f[m - 1]
  BY <1>5
<1>7. Due(list, m) = Due(list, m - 1) + list[m].time /\ f[m] = f[m - 1] + list[m].time
  BY <1>5, DueIs DEF AddsUp
<1> QED
  BY <1>6, <1>7

\* When a timer is due is a natural number.
LEMMA DueType ==
    ASSUME NEW list \in List
    PROVE  \A i \in 0 .. Len(list) : Due(list, i) \in Nat
<1> DEFINE Bad == {i \in 0 .. Len(list) : Due(list, i) \notin Nat}
<1>1. Len(list) \in Nat /\ Bad \in SUBSET Nat
  BY DEF List
<1>2. SUFFICES ASSUME Bad # {} PROVE FALSE
  OBVIOUS
<1>3. PICK m \in Bad : \A k \in Bad : m <= k
  BY <1>1, <1>2, LeastOne
<1>4. m # 0
  BY DueIs
<1>5. m - 1 \in 0 .. Len(list) /\ m \in 1 .. Len(list) /\ m - 1 \notin Bad
  BY <1>1, <1>3, <1>4
<1>6. list[m].time \in Nat
  BY <1>5, TimeType
<1>7. Due(list, m) = Due(list, m - 1) + list[m].time
  BY <1>5, DueIs
<1> QED
  BY <1>5, <1>6, <1>7

\* A later entry is due no earlier.
LEMMA DueSorted ==
    ASSUME NEW list \in List, NEW i \in 0 .. Len(list), NEW j \in i .. Len(list)
    PROVE  Due(list, i) <= Due(list, j)
<1> DEFINE Bad == {k \in i .. Len(list) : ~(Due(list, i) <= Due(list, k))}
<1>1. Len(list) \in Nat /\ Bad \in SUBSET Nat
  BY DEF List
<1>2. SUFFICES ASSUME Bad # {} PROVE FALSE
  OBVIOUS
<1>3. PICK m \in Bad : \A k \in Bad : m <= k
  BY <1>1, <1>2, LeastOne
<1>4. \A k \in 0 .. Len(list) : Due(list, k) \in Nat
  BY DueType
<1>5. m # i
  BY <1>4
<1>6. m - 1 \in i .. Len(list) /\ m \in 1 .. Len(list) /\ m - 1 \notin Bad /\ m - 1 \in 0 .. Len(list)
  BY <1>1, <1>3, <1>5
<1>7. list[m].time \in Nat
  BY <1>6, TimeType
<1>8. Due(list, m) = Due(list, m - 1) + list[m].time /\ Due(list, m - 1) \in Nat /\ Due(list, i) \in Nat
  BY <1>4, <1>6, DueIs
<1>9. Due(list, i) <= Due(list, m - 1)
  BY <1>6
<1>10. ~(Due(list, i) <= Due(list, m))
  BY <1>3
<1> HIDE DEF Bad
<1> QED
  BY <1>7, <1>8, <1>9, <1>10

\* The entries due by some time are the first ones.
LEMMA DueBy ==
    ASSUME NEW list \in List, NEW msecs \in Nat
    PROVE  LET n == Cardinality({i \in DOMAIN list : Due(list, i) <= msecs})
           IN  n \in 0 .. Len(list) /\ \A i \in 1 .. Len(list) : Due(list, i) <= msecs <=> i <= n
<1> DEFINE S == {i \in DOMAIN list : Due(list, i) <= msecs}
           Late == {i \in 1 .. Len(list) : ~(Due(list, i) <= msecs)}
<1>1. Len(list) \in Nat /\ DOMAIN list = 1 .. Len(list) /\ Late \in SUBSET Nat
  BY DEF List
<1>2. \A i \in 1 .. Len(list) : Due(list, i) \in Nat
  BY DueType
<1>3. \E n \in 0 .. Len(list) : S = 1 .. n
  <2>1. CASE Late = {}
    <3>1. S = 1 .. Len(list)
      BY <1>1, <2>1
    <3> QED
      BY <1>1, <3>1
  <2>2. CASE Late # {}
    <3>1. PICK m \in Late : \A k \in Late : m <= k
      BY <1>1, <2>2, LeastOne
    <3>2. m \in 1 .. Len(list) /\ m - 1 \in 0 .. Len(list)
      BY <1>1, <3>1
    <3>3. \A i \in 1 .. Len(list) : m <= i => Due(list, m) <= Due(list, i)
      BY <3>2, DueSorted
    <3>4. \A i \in 1 .. Len(list) : m <= i => ~(Due(list, i) <= msecs)
      BY <1>2, <3>1, <3>2, <3>3
    <3>5. \A i \in 1 .. Len(list) : ~(m <= i) => Due(list, i) <= msecs
      BY <3>1, <3>2
    <3>6. S = 1 .. m - 1
      BY <1>1, <3>2, <3>4, <3>5
    <3> QED
      BY <3>2, <3>6
  <2> QED
    BY <2>1, <2>2
<1>4. PICK n \in 0 .. Len(list) : S = 1 .. n
  BY <1>3
<1>5. Cardinality(S) = n
  <2>1. 1 \in Int /\ n \in Int
    BY <1>1
  <2>2. Cardinality(1 .. n) = IF 1 > n THEN 0 ELSE n - 1 + 1
    BY <2>1, FS_Interval
  <2>3. n \in Nat
    BY <1>1
  <2> HIDE DEF S
  <2>4. Cardinality(1 .. n) = n
    BY <2>2, <2>3
  <2> QED
    BY <1>4, <2>4
<1>6. \A i \in 1 .. Len(list) : Due(list, i) <= msecs <=> i \in S
  BY <1>1
<1> HIDE DEF S
<1>7. \A i \in 1 .. Len(list) : Due(list, i) <= msecs <=> i <= n
  BY <1>4, <1>6
<1> QED
  BY <1>4, <1>5, <1>7 DEF S

\* An element goes into a sequence after the n-th, or the n-th is left out.
WithAt(r, S, s, n, e) ==
    /\ r \in Seq(S) /\ Len(r) = Len(s) + 1
    /\ \A i \in 1 .. Len(s) + 1 : r[i] = IF i <= n THEN s[i] ELSE IF i = n + 1 THEN e ELSE s[i - 1]

\* What InsertAt of the library returns.
LEMMA InsertedAt ==
    ASSUME NEW S, NEW s \in Seq(S), NEW n \in 0 .. Len(s), NEW e \in S
    PROVE  WithAt(InsertAt(s, n + 1, e), S, s, n, e)
<1> DEFINE a == SubSeq(s, 1, n)
           b == SubSeq(s, n + 1, Len(s))
<1>1. Len(s) \in Nat /\ 1 \in Int /\ n \in Int /\ n + 1 \in Int /\ Len(s) \in Int
  OBVIOUS
<1>2. \A i \in 1 .. Len(s) : s[i] \in S
  OBVIOUS
<1>3. (\A i \in 1 .. n : s[i] \in S) /\ (\A i \in n + 1 .. Len(s) : s[i] \in S)
  BY <1>1, <1>2
<1>4. a \in Seq(S) /\ Len(a) = n /\ \A i \in 1 .. n : a[i] = s[i]
  BY <1>1, <1>3, SubSeqProperties
<1>5. b \in Seq(S) /\ Len(b) = Len(s) - n /\ \A i \in 1 .. Len(s) - n : b[i] = s[n + i]
  <2>1. b \in Seq(S) /\ Len(b) = (IF n + 1 <= Len(s) THEN Len(s) - (n + 1) + 1 ELSE 0)
        /\ \A i \in 1 .. Len(s) - (n + 1) + 1 : b[i] = s[n + 1 + i - 1]
    BY <1>1, <1>3, SubSeqProperties
  <2> HIDE DEF b
  <2>2. Len(b) = Len(s) - n
    BY <1>1, <2>1
  <2>3. \A i \in 1 .. Len(s) - n : b[i] = s[n + i]
    <3>1. \A i \in 1 .. Len(s) - n : n + 1 + i - 1 = n + i
      BY <1>1
    <3>2. Len(s) - (n + 1) + 1 = Len(s) - n
      BY <1>1
    <3> QED
      BY <2>1, <3>1, <3>2
  <2> QED
    BY <2>1, <2>2, <2>3
<1>6. InsertAt(s, n + 1, e) = (a \o <<e>>) \o b
  <2>1. (n + 1) - 1 = n
    BY <1>1
  <2>2. InsertAt(s, n + 1, e) = (SubSeq(s, 1, (n + 1) - 1) \o <<e>>) \o SubSeq(s, n + 1, Len(s))
    BY DEF InsertAt
  <2> QED
    BY <2>1, <2>2
<1> HIDE DEF a, b
<1>7. <<e>> \in Seq(S) /\ Len(<<e>>) = 1 /\ <<e>>[1] = e
  OBVIOUS
<1> DEFINE c == a \o <<e>>
<1>8. c \in Seq(S) /\ Len(c) = n + 1
      /\ \A i \in 1 .. n + 1 : c[i] = IF i <= n THEN s[i] ELSE e
  <2>1. c \in Seq(S) /\ Len(c) = Len(a) + Len(<<e>>)
        /\ \A i \in 1 .. Len(a) + Len(<<e>>) : c[i] = IF i <= Len(a) THEN a[i] ELSE <<e>>[i - Len(a)]
    BY <1>4, <1>7, ConcatProperties
  <2> HIDE DEF c
  <2> QED
    BY <1>1, <1>4, <1>7, <2>1
<1> HIDE DEF c
<1>9. c \o b \in Seq(S) /\ Len(c \o b) = Len(s) + 1
      /\ \A i \in 1 .. Len(s) + 1 : (c \o b)[i] = IF i <= n + 1 THEN c[i] ELSE b[i - (n + 1)]
  <2>1. c \o b \in Seq(S) /\ Len(c \o b) = Len(c) + Len(b)
        /\ \A i \in 1 .. Len(c) + Len(b) : (c \o b)[i] = IF i <= Len(c) THEN c[i] ELSE b[i - Len(c)]
    BY <1>5, <1>8, ConcatProperties
  <2>2. Len(c) = n + 1 /\ Len(c) + Len(b) = Len(s) + 1
    BY <1>1, <1>5, <1>8
  <2> QED
    BY <2>1, <2>2
<1>11. InsertAt(s, n + 1, e) = c \o b
  BY <1>6 DEF c
<1>10. ASSUME NEW i \in 1 .. Len(s) + 1
       PROVE  InsertAt(s, n + 1, e)[i] = IF i <= n THEN s[i] ELSE IF i = n + 1 THEN e ELSE s[i - 1]
  <2>0. i \in Nat
    BY <1>1
  <2>1. CASE i <= n
    <3>1. InsertAt(s, n + 1, e) = c \o b /\ i <= n + 1 /\ i \in 1 .. n + 1
      BY <1>1, <1>11, <2>0, <2>1
    <3> QED
      BY <1>8, <1>9, <2>1, <3>1
  <2>2. CASE i = n + 1
    <3>1. InsertAt(s, n + 1, e) = c \o b /\ i <= n + 1 /\ i \in 1 .. n + 1 /\ ~(i <= n)
      BY <1>1, <1>11, <2>0, <2>2
    <3> QED
      BY <1>8, <1>9, <2>2, <3>1
  <2>3. CASE i > n + 1
    <3>0. InsertAt(s, n + 1, e) = c \o b /\ ~(i <= n + 1)
      BY <1>1, <1>11, <2>0, <2>3
    <3>1. InsertAt(s, n + 1, e)[i] = b[i - (n + 1)]
      BY <1>9, <3>0
    <3>2. i - (n + 1) \in 1 .. Len(s) - n /\ n + (i - (n + 1)) = i - 1
      BY <1>1, <2>0, <2>3
    <3>3. b[i - (n + 1)] = s[n + (i - (n + 1))]
      BY <1>5, <3>2
    <3> QED
      BY <1>1, <2>0, <2>3, <3>1, <3>2, <3>3
  <2> QED
    BY <1>1, <2>0, <2>1, <2>2, <2>3
<1> QED
  BY <1>9, <1>10, <1>11 DEF WithAt

\* What RemoveAt of the library returns.
LEMMA RemovedAt ==
    ASSUME NEW S, NEW s \in Seq(S), NEW n \in 1 .. Len(s)
    PROVE  /\ RemoveAt(s, n) \in Seq(S) /\ Len(RemoveAt(s, n)) = Len(s) - 1
           /\ \A i \in 1 .. Len(s) - 1 : RemoveAt(s, n)[i] = IF i < n THEN s[i] ELSE s[i + 1]
<1> DEFINE a == SubSeq(s, 1, n - 1)
           b == SubSeq(s, n + 1, Len(s))
<1>1. Len(s) \in Nat /\ 1 \in Int /\ n \in Int /\ n - 1 \in Int /\ n + 1 \in Int /\ Len(s) \in Int
  OBVIOUS
<1>2. \A i \in 1 .. Len(s) : s[i] \in S
  OBVIOUS
<1>3. (\A i \in 1 .. n - 1 : s[i] \in S) /\ (\A i \in n + 1 .. Len(s) : s[i] \in S)
  BY <1>1, <1>2
<1>4. a \in Seq(S) /\ Len(a) = n - 1 /\ \A i \in 1 .. n - 1 : a[i] = s[i]
  <2>1. a \in Seq(S) /\ Len(a) = (IF 1 <= n - 1 THEN n - 1 - 1 + 1 ELSE 0)
        /\ \A i \in 1 .. n - 1 - 1 + 1 : a[i] = s[1 + i - 1]
    BY <1>1, <1>3, SubSeqProperties
  <2> HIDE DEF a
  <2>2. Len(a) = n - 1
    BY <1>1, <2>1
  <2>3. \A i \in 1 .. n - 1 : a[i] = s[i]
    BY <1>1, <2>1
  <2> QED
    BY <2>1, <2>2, <2>3
<1>5. b \in Seq(S) /\ Len(b) = Len(s) - n /\ \A i \in 1 .. Len(s) - n : b[i] = s[n + i]
  <2>1. b \in Seq(S) /\ Len(b) = (IF n + 1 <= Len(s) THEN Len(s) - (n + 1) + 1 ELSE 0)
        /\ \A i \in 1 .. Len(s) - (n + 1) + 1 : b[i] = s[n + 1 + i - 1]
    BY <1>1, <1>3, SubSeqProperties
  <2> HIDE DEF b
  <2>2. Len(b) = Len(s) - n
    BY <1>1, <2>1
  <2>3. \A i \in 1 .. Len(s) - n : b[i] = s[n + i]
    <3>1. \A i \in 1 .. Len(s) - n : n + 1 + i - 1 = n + i
      BY <1>1
    <3>2. Len(s) - (n + 1) + 1 = Len(s) - n
      BY <1>1
    <3> QED
      BY <2>1, <3>1, <3>2
  <2> QED
    BY <2>1, <2>2, <2>3
<1>6. RemoveAt(s, n) = a \o b
  BY DEF RemoveAt
<1> HIDE DEF a, b
<1>7. a \o b \in Seq(S) /\ Len(a \o b) = Len(s) - 1
      /\ \A i \in 1 .. Len(s) - 1 : (a \o b)[i] = IF i <= n - 1 THEN a[i] ELSE b[i - (n - 1)]
  <2>1. a \o b \in Seq(S) /\ Len(a \o b) = Len(a) + Len(b)
        /\ \A i \in 1 .. Len(a) + Len(b) : (a \o b)[i] = IF i <= Len(a) THEN a[i] ELSE b[i - Len(a)]
    BY <1>4, <1>5, ConcatProperties
  <2>2. Len(a) = n - 1 /\ Len(a) + Len(b) = Len(s) - 1
    BY <1>1, <1>4, <1>5
  <2> QED
    BY <2>1, <2>2
<1>8. ASSUME NEW i \in 1 .. Len(s) - 1
      PROVE  RemoveAt(s, n)[i] = IF i < n THEN s[i] ELSE s[i + 1]
  <2>0. i \in Nat
    BY <1>1
  <2>1. CASE i < n
    BY <1>1, <1>4, <1>6, <1>7, <2>0, <2>1
  <2>2. CASE i >= n
    <3>0. ~(i <= n - 1)
      BY <1>1, <2>0, <2>2
    <3>1. RemoveAt(s, n)[i] = b[i - (n - 1)]
      BY <1>6, <1>7, <3>0
    <3>2. i - (n - 1) \in 1 .. Len(s) - n /\ n + (i - (n - 1)) = i + 1
      BY <1>1, <2>0, <2>2
    <3>3. b[i - (n - 1)] = s[n + (i - (n - 1))]
      BY <1>5, <3>2
    <3> QED
      BY <1>1, <2>0, <2>2, <3>1, <3>2, <3>3
  <2> QED
    BY <1>1, <2>0, <2>1, <2>2
<1> QED
  BY <1>1, <1>6, <1>7, <1>8

\* sys_timeout puts a timer after those due no later, and changes no time any of them
\* is due at.
Inserted(r, list, msecs, h, n) ==
    /\ r \in List /\ Len(r) = Len(list) + 1 /\ n \in 0 .. Len(list)
    /\ \A i \in 1 .. Len(list) : Due(list, i) <= msecs <=> i <= n
    /\ \A i \in 1 .. Len(list) + 1 :
            /\ r[i].h = IF i <= n THEN list[i].h ELSE IF i = n + 1 THEN h ELSE list[i - 1].h
            /\ Due(r, i) = IF i <= n THEN Due(list, i) ELSE IF i = n + 1 THEN msecs ELSE Due(list, i - 1)

\* sys_timeout puts the timer after all that are due no later, and keeps their times.
LEMMA TimeoutInserts ==
    ASSUME NEW list \in List, NEW msecs \in Nat, NEW h \in Handlers
    PROVE  \E n : Inserted(sys_timeout(list, msecs, h), list, msecs, h, n)
<1> DEFINE n == Cardinality({i \in DOMAIN list : Due(list, i) <= msecs})
           time == msecs - Due(list, n)
           rest == IF n < Len(list) THEN [list EXCEPT ![n + 1].time = @ - time] ELSE list
           e == [h |-> h, time |-> time]
           r == InsertAt(rest, n + 1, e)
<1>1. sys_timeout(list, msecs, h) = r
  BY DEF sys_timeout
<1>2. n \in 0 .. Len(list) /\ \A i \in 1 .. Len(list) : Due(list, i) <= msecs <=> i <= n
  BY DueBy
<1> HIDE DEF n
<1>3. Len(list) \in Nat /\ n \in Nat
  BY <1>2 DEF List
<1>4. \A i \in 0 .. Len(list) : Due(list, i) \in Nat
  BY DueType
<1>5. Due(list, 0) = 0 /\ \A i \in 1 .. Len(list) : Due(list, i) = Due(list, i - 1) + list[i].time
  BY DueIs
<1>6. Due(list, n) \in Nat /\ Due(list, n) <= msecs
  BY <1>2, <1>3, <1>4, <1>5
<1>7. time \in Nat /\ Due(list, n) + time = msecs
  BY <1>6
<1> HIDE DEF time
<1>8. \A i \in 1 .. Len(list) : list[i] \in [h : Handlers, time : Nat]
  BY TimeType
<1>9. /\ rest \in List /\ Len(rest) = Len(list)
      /\ \A i \in 1 .. Len(list) : /\ rest[i].h = list[i].h
                                   /\ rest[i].time = IF i = n + 1 THEN list[i].time - time ELSE list[i].time
  <2>1. CASE n < Len(list)
    <3> DEFINE x == [list[n + 1] EXCEPT !.time = list[n + 1].time - time]
    <3>1. n + 1 \in 1 .. Len(list) /\ list[n + 1] \in [h : Handlers, time : Nat] /\ (n + 1) - 1 = n
      BY <1>3, <1>8, <2>1
    <3>2. Due(list, n + 1) = Due(list, n) + list[n + 1].time /\ Due(list, n + 1) \in Nat
          /\ ~(Due(list, n + 1) <= msecs)
      BY <1>2, <1>3, <1>4, <1>5, <3>1
    <3>3. list[n + 1].time - time \in Nat
      BY <1>6, <1>7, <3>1, <3>2
    <3>4. x \in [h : Handlers, time : Nat] /\ x.h = list[n + 1].h /\ x.time = list[n + 1].time - time
      BY <3>1, <3>3
    <3>5. rest = [list EXCEPT ![n + 1] = x]
      BY <2>1
    <3> HIDE DEF x, rest
    <3>6. /\ rest \in List /\ Len(rest) = Len(list)
          /\ \A i \in 1 .. Len(list) : rest[i] = IF i = n + 1 THEN x ELSE list[i]
      BY <3>1, <3>4, <3>5, ExceptSeq DEF List
    <3> QED
      BY <3>4, <3>6
  <2>2. CASE ~(n < Len(list))
    <3>1. rest = list
      BY <2>2
    <3>2. \A i \in 1 .. Len(list) : i # n + 1
      BY <1>2, <1>3, <2>2
    <3> QED
      BY <3>1, <3>2
  <2> QED
    BY <2>1, <2>2
<1>10. e \in [h : Handlers, time : Nat] /\ e.h = h /\ e.time = time
  BY <1>7
<1> HIDE DEF rest, e
<1>11. /\ r \in List /\ Len(r) = Len(list) + 1
       /\ \A i \in 1 .. Len(list) + 1 : r[i] = IF i <= n THEN rest[i] ELSE IF i = n + 1 THEN e ELSE rest[i - 1]
  <2>1. n \in 0 .. Len(rest) /\ rest \in Seq([h : Handlers, time : Nat])
    BY <1>2, <1>9 DEF List
  <2>2. WithAt(r, [h : Handlers, time : Nat], rest, n, e)
    BY <1>10, <2>1, InsertedAt
  <2> HIDE DEF r
  <2> QED
    BY <1>9, <2>2 DEF List, WithAt
<1> HIDE DEF r
<1>12. \A i \in 1 .. Len(list) + 1 :
            r[i].h = IF i <= n THEN list[i].h ELSE IF i = n + 1 THEN h ELSE list[i - 1].h
  <2>1. SUFFICES ASSUME NEW i \in 1 .. Len(list) + 1
                 PROVE  r[i].h = IF i <= n THEN list[i].h ELSE IF i = n + 1 THEN h ELSE list[i - 1].h
    OBVIOUS
  <2>2. i <= n => i \in 1 .. Len(list)
    BY <1>2, <1>3
  <2>3. ~(i <= n) /\ i # n + 1 => i - 1 \in 1 .. Len(list)
    BY <1>2, <1>3
  <2> QED
    BY <1>9, <1>10, <1>11, <2>2, <2>3
<1> DEFINE f == [i \in 0 .. Len(list) + 1 |->
                    IF i <= n THEN Due(list, i) ELSE IF i = n + 1 THEN msecs ELSE Due(list, i - 1)]
<1>13. AddsUp(f, r)
  <2>1. f[0] = 0
    BY <1>3, <1>5
  <2>2. ASSUME NEW i \in 1 .. Len(list) + 1 PROVE f[i] = f[i - 1] + r[i].time
    <3>0. i \in Nat /\ i - 1 \in Nat /\ i \in 0 .. Len(list) + 1 /\ i - 1 \in 0 .. Len(list) + 1
      BY <1>3
    <3>1. CASE i <= n
      <4>1. i \in 1 .. Len(list) /\ i - 1 <= n /\ i # n + 1
        BY <1>2, <1>3, <3>0, <3>1
      <4>2. f[i] = Due(list, i) /\ f[i - 1] = Due(list, i - 1) /\ r[i].time = list[i].time
        BY <1>9, <1>11, <3>0, <3>1, <4>1
      <4> QED
        BY <1>5, <4>1, <4>2
    <3>2. CASE i = n + 1
      <4>1. f[i] = msecs /\ f[i - 1] = Due(list, n) /\ r[i].time = time
        BY <1>3, <1>10, <1>11, <3>0, <3>2
      <4> QED
        BY <1>7, <4>1
    <3>3. CASE i = n + 2
      <4>1. n + 1 \in 1 .. Len(list) /\ (n + 1) - 1 = n /\ ~(i <= n) /\ i # n + 1 /\ i - 1 = n + 1
            /\ ~(n + 1 <= n)
        BY <1>2, <1>3, <3>0, <3>3
      <4>2. f[i] = Due(list, n + 1) /\ f[i - 1] = msecs
        BY <3>0, <4>1
      <4>3. r[i].time = list[n + 1].time - time
        BY <1>9, <1>11, <4>1
      <4>4. Due(list, n + 1) = Due(list, n) + list[n + 1].time /\ list[n + 1].time \in Nat
        <5>1. Due(list, n + 1) = Due(list, (n + 1) - 1) + list[n + 1].time
          BY <1>5, <4>1
        <5> QED
          BY <1>8, <4>1, <5>1
      <4> HIDE DEF f
      <4> QED
        BY <1>6, <1>7, <4>2, <4>3, <4>4
    <3>4. CASE i > n + 2
      <4>1. i - 1 \in 1 .. Len(list) /\ ~(i <= n) /\ i # n + 1 /\ ~(i - 1 <= n) /\ i - 1 # n + 1
        BY <1>2, <1>3, <3>0, <3>4
      <4>2. f[i] = Due(list, i - 1) /\ f[i - 1] = Due(list, i - 1 - 1) /\ r[i].time = list[i - 1].time
        BY <1>9, <1>11, <3>0, <4>1
      <4> QED
        BY <1>5, <4>1, <4>2
    <3> QED
      BY <1>3, <3>0, <3>1, <3>2, <3>3, <3>4
  <2> HIDE DEF f
  <2> QED
    BY <1>11, <2>1, <2>2 DEF AddsUp
<1>14. \A i \in 1 .. Len(list) + 1 :
            Due(r, i) = IF i <= n THEN Due(list, i) ELSE IF i = n + 1 THEN msecs ELSE Due(list, i - 1)
  <2>1. \A i \in 0 .. Len(list) + 1 : Due(r, i) = f[i]
    <3> HIDE DEF f
    <3> QED
      BY <1>11, <1>13, DueUnique
  <2>2. \A i \in 1 .. Len(list) + 1 : i \in 0 .. Len(list) + 1
    BY <1>3
  <2> QED
    BY <2>1, <2>2
<1>15. Inserted(r, list, msecs, h, n)
  BY <1>2, <1>11, <1>12, <1>14 DEF Inserted
<1> QED
  BY <1>1, <1>15

\* What is left of a list when its first timer goes off, and when a message came.
Passed(r, list, k, d) ==
    /\ r \in List /\ k \in Nat /\ d \in Nat /\ Len(list) = Len(r) + k
    /\ \A i \in 1 .. Len(r) : /\ r[i].h = list[i + k].h
                              /\ Due(r, i) = Due(list, i + k) - d
                              /\ d <= Due(list, i + k)

\* The head of the list is due first.
LEMMA FirstDue ==
    ASSUME NEW list \in List, list # <<>>
    PROVE  /\ Len(list) \in Nat \ {0} /\ 1 \in 1 .. Len(list) /\ list[1] = Head(list)
           /\ Due(list, 1) = list[1].time /\ list[1].time \in Nat /\ list[1].h \in Handlers
           /\ \A i \in 1 .. Len(list) : list[1].time <= Due(list, i) /\ Due(list, i) \in Nat
<1>1. Len(list) \in Nat \ {0} /\ 1 \in 1 .. Len(list)
  BY EmptySeq DEF List
<1>2. Due(list, 0) = 0 /\ Due(list, 1) = Due(list, 1 - 1) + list[1].time
  BY <1>1, DueIs
<1>3. list[1].time \in Nat /\ list[1].h \in Handlers
  BY <1>1, TimeType
<1>4. Due(list, 1) = list[1].time
  BY <1>2, <1>3
<1>5. \A i \in 1 .. Len(list) : Due(list, i) \in Nat
  BY DueType
<1>6. ASSUME NEW i \in 1 .. Len(list) PROVE Due(list, 1) <= Due(list, i)
  <2>1. 1 \in 0 .. Len(list) /\ i \in 1 .. Len(list)
    BY <1>1
  <2> QED
    BY <2>1, DueSorted
<1>7. list[1] = Head(list)
  OBVIOUS
<1> QED
  BY <1>1, <1>3, <1>4, <1>5, <1>6, <1>7

\* With the head gone off, the others are due as before.
LEMMA TailPassed ==
    ASSUME NEW list \in List, list # <<>>
    PROVE  Passed(Tail(list), list, 1, Head(list).time)
<1> DEFINE r == Tail(list)
           d == list[1].time
<1>1. /\ Len(list) \in Nat \ {0} /\ list[1] = Head(list) /\ d \in Nat /\ Due(list, 1) = d
      /\ \A i \in 1 .. Len(list) : d <= Due(list, i) /\ Due(list, i) \in Nat
  BY FirstDue
<1>2. r \in List /\ Len(r) = Len(list) - 1 /\ \A i \in 1 .. Len(r) : r[i] = list[i + 1]
  BY HeadTailProperties DEF List
<1> HIDE DEF r
<1> DEFINE f == [i \in 0 .. Len(r) |-> Due(list, i + 1) - d]
<1>3. AddsUp(f, r)
  <2>1. f[0] = 0
    BY <1>1, <1>2
  <2>2. ASSUME NEW i \in 1 .. Len(r) PROVE f[i] = f[i - 1] + r[i].time
    <3>1. i \in 0 .. Len(r) /\ i - 1 \in 0 .. Len(r) /\ (i - 1) + 1 = i /\ i + 1 \in 1 .. Len(list)
          /\ (i + 1) - 1 = i /\ i \in 1 .. Len(list)
      BY <1>1, <1>2
    <3>2. Due(list, i + 1) = Due(list, i) + list[i + 1].time
      <4>1. Due(list, i + 1) = Due(list, (i + 1) - 1) + list[i + 1].time
        BY <3>1, DueIs
      <4> QED
        BY <3>1, <4>1
    <3>3. f[i] = Due(list, i + 1) - d /\ f[i - 1] = Due(list, i) - d /\ r[i].time = list[i + 1].time
      BY <1>2, <3>1
    <3>4. Due(list, i) \in Nat /\ list[i + 1].time \in Nat
      BY <1>1, <3>1, TimeType
    <3>5. d \in Nat
      BY <1>1
    <3>6. \A x, y, z \in Nat : (x + y) - z = (x - z) + y
      OBVIOUS
    <3> HIDE DEF f, d
    <3>7. f[i] = (Due(list, i) + list[i + 1].time) - d
      BY <3>2, <3>3
    <3>8. f[i] = (Due(list, i) - d) + list[i + 1].time
      BY <3>4, <3>5, <3>6, <3>7
    <3> QED
      BY <3>3, <3>8
  <2> HIDE DEF f
  <2> QED
    BY <2>1, <2>2 DEF AddsUp
<1>4. \A i \in 1 .. Len(r) : Due(r, i) = Due(list, i + 1) - d
  <2>1. \A i \in 0 .. Len(r) : Due(r, i) = f[i]
    <3> HIDE DEF f
    <3> QED
      BY <1>2, <1>3, DueUnique
  <2>2. \A i \in 1 .. Len(r) : i \in 0 .. Len(r)
    BY <1>2
  <2> QED
    BY <2>1, <2>2
<1>5. \A i \in 1 .. Len(r) : i + 1 \in 1 .. Len(list)
  BY <1>1, <1>2
<1>6. Len(list) = Len(r) + 1 /\ 1 \in Nat
  BY <1>1, <1>2
<1> HIDE DEF d
<1>7. Passed(r, list, 1, d)
  BY <1>1, <1>2, <1>4, <1>5, <1>6 DEF Passed
<1> QED
  BY <1>1, <1>7 DEF r, d

\* The time by which a wait brings the first timer nearer.
Nearer(list, t) == IF list = <<>> THEN 0 ELSE Lesser(Head(list).time, t)

\* Time taken off the head brings every timer nearer by as much.
LEMMA WaitedPassed ==
    ASSUME NEW list \in List, NEW t \in Nat
    PROVE  Passed(Waited(list, t), list, 0, Nearer(list, t))
<1>1. CASE list = <<>>
  <2>1. Len(list) = 0 /\ Waited(list, t) = list /\ Nearer(list, t) = 0
    BY <1>1 DEF Waited, Nearer
  <2>2. 0 \in Nat /\ Len(list) = Len(list) + 0 /\ \A i \in 1 .. Len(list) : FALSE
    BY <2>1
  <2> QED
    BY <2>1, <2>2 DEF Passed
<1>2. CASE list # <<>>
  <2> DEFINE d == Lesser(list[1].time, t)
             x == [list[1] EXCEPT !.time = list[1].time - d]
             r == [list EXCEPT ![1] = x]
  <2>1. /\ Len(list) \in Nat \ {0} /\ list[1] = Head(list) /\ list[1].time \in Nat
        /\ Due(list, 1) = list[1].time /\ 1 \in 1 .. Len(list)
        /\ \A i \in 1 .. Len(list) : list[1].time <= Due(list, i) /\ Due(list, i) \in Nat
    BY <1>2, FirstDue
  <2>2. Waited(list, t) = r /\ Nearer(list, t) = d
    BY <1>2, <2>1 DEF Waited, Nearer
  <2>3. d \in Nat /\ d <= list[1].time
    BY <2>1 DEF Lesser
  <2> HIDE DEF d
  <2>4. list[1] \in [h : Handlers, time : Nat]
    BY <2>1, TimeType
  <2>5. x \in [h : Handlers, time : Nat] /\ x.h = list[1].h /\ x.time = list[1].time - d
    BY <2>1, <2>3, <2>4
  <2> HIDE DEF x
  <2>6. /\ r \in List /\ Len(r) = Len(list)
        /\ \A i \in 1 .. Len(list) : r[i] = IF i = 1 THEN x ELSE list[i]
    BY <2>1, <2>5, ExceptSeq DEF List
  <2> HIDE DEF r
  <2> DEFINE f == [i \in 0 .. Len(list) |-> IF i = 0 THEN 0 ELSE Due(list, i) - d]
  <2>7. AddsUp(f, r)
    <3>1. f[0] = 0
      BY <2>1
    <3>2. ASSUME NEW i \in 1 .. Len(list) PROVE f[i] = f[i - 1] + r[i].time
      <4>1. i \in 0 .. Len(list) /\ i - 1 \in 0 .. Len(list) /\ i # 0
        BY <2>1
      <4>2. f[i] = Due(list, i) - d
        BY <4>1
      <4>3. CASE i = 1
        <5>1. f[i - 1] = 0 /\ r[i] = x
          BY <2>6, <4>1, <4>3
        <5> HIDE DEF f
        <5> QED
          BY <2>1, <2>3, <2>5, <4>2, <4>3, <5>1
      <4>4. CASE i # 1
        <5>1. i - 1 # 0 /\ i - 1 \in 1 .. Len(list)
          BY <4>1, <4>4
        <5>2. f[i - 1] = Due(list, i - 1) - d /\ r[i] = list[i]
          BY <2>6, <4>1, <4>4, <5>1
        <5>3. Due(list, i) = Due(list, i - 1) + list[i].time /\ list[i].time \in Nat
              /\ Due(list, i - 1) \in Nat
          BY <2>1, <5>1, DueIs, TimeType
        <5> HIDE DEF f
        <5> QED
          BY <2>3, <4>2, <5>2, <5>3
      <4> QED
        BY <4>3, <4>4
    <3> HIDE DEF f
    <3> QED
      BY <2>6, <3>1, <3>2 DEF AddsUp
  <2>8. \A i \in 1 .. Len(list) : Due(r, i) = Due(list, i) - d
    <3>1. \A i \in 0 .. Len(list) : Due(r, i) = f[i]
      <4> HIDE DEF f
      <4> QED
        BY <2>6, <2>7, DueUnique
    <3>2. \A i \in 1 .. Len(list) : i \in 0 .. Len(list) /\ i # 0
      BY <2>1
    <3> QED
      BY <3>1, <3>2
  <2>9. \A i \in 1 .. Len(list) : r[i].h = list[i].h /\ d <= Due(list, i)
    BY <2>1, <2>3, <2>5, <2>6
  <2>10. 0 \in Nat /\ Len(list) = Len(list) + 0 /\ \A i \in 1 .. Len(list) : i + 0 = i
    BY <2>1
  <2> QED
    BY <2>2, <2>3, <2>6, <2>8, <2>9, <2>10 DEF Passed
<1> QED
  BY <1>1, <1>2

\* The timer that goes off leaves the order, too: r is s without its k-th element.
LeftOut(r, s, h, k) ==
    /\ k \in 1 .. Len(s) /\ s[k] = h /\ r \in Seq(Handlers) /\ Len(r) = Len(s) - 1
    /\ r = RemoveAt(s, k)
    /\ \A i \in 1 .. Len(s) - 1 : r[i] = IF i < k THEN s[i] ELSE s[i + 1]

\* Without leaves out the one entry of that handler.
LEMMA WithoutOne ==
    ASSUME NEW s \in Seq(Handlers), NEW h, \E i \in DOMAIN s : s[i] = h
    PROVE  \E k : LeftOut(Without(s, h), s, h, k)
<1>1. PICK k : k = CHOOSE i \in DOMAIN s : s[i] = h
  OBVIOUS
<1>2. k \in 1 .. Len(s) /\ s[k] = h
  BY <1>1
<1>3. Without(s, h) = RemoveAt(s, k)
  BY <1>1 DEF Without
<1>4. /\ RemoveAt(s, k) \in Seq(Handlers) /\ Len(RemoveAt(s, k)) = Len(s) - 1
      /\ \A i \in 1 .. Len(s) - 1 : RemoveAt(s, k)[i] = IF i < k THEN s[i] ELSE s[i + 1]
  BY <1>2, RemovedAt
<1>5. LeftOut(Without(s, h), s, h, k)
  BY <1>2, <1>3, <1>4 DEF LeftOut
<1> QED
  BY <1>5

\* The intervals, and that each is shorter than what sys_now may count.
LEMMA Times ==
    /\ \A h \in Handlers : Interval[h] \in Nat \ {0}
    /\ Interval["tcpip_tcp_timer"] \in Nat \ {0} /\ "tcpip_tcp_timer" \in Handlers
    /\ SYS_ARCH_LONG \in Nat
    /\ \A h \in Handlers : Interval[h] < SYS_ARCH_LONG
<1>1. (\A h \in Handlers : Interval[h] \in Nat \ {0}) /\ SYS_ARCH_LONG \in Nat
      /\ \A h \in Handlers : SYS_ARCH_LONG > Interval[h]
  BY TimeoutsAssumption
<1>2. "tcpip_tcp_timer" \in Handlers
  BY DEF Handlers
<1> QED
  BY <1>1, <1>2

\* A wait of so many ticks is taken for as many milliseconds, or one more; and no wait
\* for one longer than any timer.
LEMMA NeededTime ==
    ASSUME NEW ticks \in Nat, NEW wraps \in BOOLEAN
    PROVE  /\ TimeNeeded(ticks, wraps) \in Nat
           /\ ticks # 0 => TimeNeeded(ticks, wraps) <= ticks + 1
<1>1. SYS_ARCH_LONG \in Nat
  BY Times
<1>2. CASE ticks = 0
  BY <1>1, <1>2 DEF TimeNeeded
<1>3. CASE ticks # 0 /\ wraps
  <2>1. TimeNeeded(ticks, wraps) = (ticks - 1) + 1
    BY <1>3 DEF TimeNeeded
  <2>2. (ticks - 1) + 1 = ticks
    OBVIOUS
  <2> QED
    BY <2>1, <2>2
<1>4. CASE ticks # 0 /\ ~wraps
  <2>1. TimeNeeded(ticks, wraps) = ticks + 1
    BY <1>4 DEF TimeNeeded
  <2> QED
    BY <1>4, <2>1
<1> QED
  BY <1>2, <1>3, <1>4

-----------------------------------------------------------------------------
(* The timers from step to step.                                              *)

TimedInv == Timed /\ Clocked

\* An order with at most one timer left out.
Sparser(o2, o) ==
    /\ o2 \in Seq(Handlers)
    /\ \E m \in [1 .. Len(o2) -> 1 .. Len(o)] :
            /\ \A a \in 1 .. Len(o2) : o2[a] = o[m[a]]
            /\ \A a, b \in 1 .. Len(o2) : a < b => m[a] < m[b]
\* Time d passed, and k timers went off.
GoesBy(k, d) ==
    /\ Passed(next_timeout', next_timeout, k, d) /\ Sparser(order', order)
    /\ \A h \in Handlers : (\E i \in DOMAIN order' : order'[i] = h) <=> h \in Armed(next_timeout)'

\* Time that passes, with or without the head going off, keeps the timers' invariant.
LEMMA PassesTimed ==
    ASSUME TimedInv, NEW k, NEW d, GoesBy(k, d), thr' # "wait", waited' \in Nat, owed' \in Nat,
           thr' = "timer" => msg' \notin Armed(next_timeout)',
           \A i \in DOMAIN next_timeout' : next_timeout'[i].h = "tcpip_tcp_timer" =>
                owed' <= Due(next_timeout, i + k) - d \/ owed' = 0
    PROVE  TimedInv'
<1>1. Timed /\ Clocked
  BY DEF TimedInv
<1>2. /\ next_timeout' \in List /\ k \in Nat /\ d \in Nat /\ Len(next_timeout) = Len(next_timeout') + k
      /\ \A i \in 1 .. Len(next_timeout') :
            /\ next_timeout'[i].h = next_timeout[i + k].h
            /\ Due(next_timeout', i) = Due(next_timeout, i + k) - d
            /\ d <= Due(next_timeout, i + k)
  BY DEF GoesBy, Passed
<1>3. next_timeout \in List /\ Len(next_timeout') \in Nat /\ Len(next_timeout) \in Nat /\ order \in Seq(Handlers)
  BY <1>1, <1>2 DEF Timed, List
<1>4. DOMAIN next_timeout = 1 .. Len(next_timeout) /\ DOMAIN next_timeout' = 1 .. Len(next_timeout')
  BY <1>2, <1>3 DEF List
<1>5. \A i \in 1 .. Len(next_timeout') : i + k \in 1 .. Len(next_timeout) /\ i + k \in DOMAIN next_timeout
                                         /\ Due(next_timeout, i + k) \in Nat
  <2>1. \A i \in 1 .. Len(next_timeout') : i + k \in 1 .. Len(next_timeout)
    BY <1>2, <1>3
  <2>2. \A i \in 0 .. Len(next_timeout) : Due(next_timeout, i) \in Nat
    BY <1>3, DueType
  <2>3. \A i \in 1 .. Len(next_timeout) : i \in 0 .. Len(next_timeout)
    BY <1>3
  <2> QED
    BY <1>4, <2>1, <2>2, <2>3
<1>6. PICK m \in [1 .. Len(order') -> 1 .. Len(order)] :
            /\ \A a \in 1 .. Len(order') : order'[a] = order[m[a]]
            /\ \A a, b \in 1 .. Len(order') : a < b => m[a] < m[b]
  BY DEF GoesBy, Sparser
<1>7. order' \in Seq(Handlers) /\ Len(order') \in Nat /\ DOMAIN order' = 1 .. Len(order')
      /\ DOMAIN order = 1 .. Len(order) /\ Len(order) \in Nat
  BY <1>3 DEF GoesBy, Sparser
<1>8. \A i, j \in DOMAIN next_timeout' : next_timeout'[i].h = next_timeout'[j].h => i = j
  <2>1. SUFFICES ASSUME NEW i \in 1 .. Len(next_timeout'), NEW j \in 1 .. Len(next_timeout'),
                        next_timeout'[i].h = next_timeout'[j].h
                 PROVE  i = j
    BY <1>4
  <2>2. next_timeout[i + k].h = next_timeout[j + k].h
    BY <1>2, <2>1
  <2>3. i + k = j + k
    BY <1>1, <1>5, <2>2 DEF Timed
  <2> QED
    BY <1>2, <2>3
<1>9. \A a, b \in DOMAIN order' : order'[a] = order'[b] => a = b
  <2>1. SUFFICES ASSUME NEW a \in 1 .. Len(order'), NEW b \in 1 .. Len(order'), order'[a] = order'[b]
                 PROVE  a = b
    BY <1>7
  <2>2. m[a] \in 1 .. Len(order) /\ m[b] \in 1 .. Len(order) /\ order[m[a]] = order[m[b]]
    BY <1>6, <2>1
  <2>3. m[a] = m[b]
    BY <1>1, <1>7, <2>2 DEF Timed
  <2>4. ~(a < b) /\ ~(b < a)
    BY <1>6, <2>2, <2>3
  <2> QED
    BY <1>7, <2>4
<1>10. Timed'
  BY <1>2, <1>7, <1>8, <1>9 DEF Timed, GoesBy, List
<1>11. ASSUME NEW i \in DOMAIN next_timeout'
       PROVE  /\ Due(next_timeout', i) <= Interval[next_timeout'[i].h]
              /\ next_timeout'[i].h = "tcpip_tcp_timer" => owed' <= Due(next_timeout', i) \/ owed' = 0
  <2>1. i \in 1 .. Len(next_timeout')
    BY <1>4
  <2>2. Due(next_timeout, i + k) <= Interval[next_timeout[i + k].h] /\ next_timeout[i + k].h \in Handlers
    BY <1>1, <1>3, <1>5, <2>1, TimeType DEF Clocked
  <2>3. Interval[next_timeout[i + k].h] \in Nat
    BY <2>2, Times
  <2>4. Due(next_timeout', i) = Due(next_timeout, i + k) - d /\ next_timeout'[i].h = next_timeout[i + k].h
        /\ Due(next_timeout, i + k) \in Nat
    BY <1>2, <1>5, <2>1
  <2>5. Due(next_timeout', i) <= Interval[next_timeout'[i].h]
    BY <1>2, <2>2, <2>3, <2>4
  <2> QED
    BY <2>4, <2>5
<1>12. ASSUME NEW i \in DOMAIN next_timeout', NEW j \in DOMAIN next_timeout',
              NEW a \in DOMAIN order', NEW b \in DOMAIN order',
              i < j, Due(next_timeout', i) = Due(next_timeout', j),
              order'[a] = next_timeout'[i].h, order'[b] = next_timeout'[j].h
       PROVE  a < b
  <2>1. i \in 1 .. Len(next_timeout') /\ j \in 1 .. Len(next_timeout')
        /\ a \in 1 .. Len(order') /\ b \in 1 .. Len(order')
    BY <1>4, <1>7
  <2>2. Due(next_timeout, i + k) = Due(next_timeout, j + k)
    <3>1. Due(next_timeout, i + k) \in Nat /\ Due(next_timeout, j + k) \in Nat
      BY <1>5, <2>1
    <3>2. Due(next_timeout, i + k) - d = Due(next_timeout, j + k) - d
      BY <1>2, <1>12, <2>1
    <3> QED
      BY <1>2, <3>1, <3>2
  <2>3. i + k < j + k
    BY <1>2, <1>12, <2>1
  <2>4. m[a] \in 1 .. Len(order) /\ m[b] \in 1 .. Len(order)
        /\ order[m[a]] = next_timeout[i + k].h /\ order[m[b]] = next_timeout[j + k].h
    BY <1>2, <1>6, <1>12, <2>1
  <2>5. m[a] < m[b]
    BY <1>1, <1>5, <1>7, <2>1, <2>2, <2>3, <2>4 DEF Clocked
  <2>6. a # b
    BY <2>4, <2>5
  <2>7. ~(b < a)
    <3>1. ~(m[b] < m[a])
      BY <1>7, <2>4, <2>5
    <3> QED
      BY <1>6, <2>1, <3>1
  <2> QED
    BY <1>7, <2>1, <2>6, <2>7
<1>13. Elapsed' = 0
  BY DEF Elapsed
<1>14. Clocked'
  <2>1. \A i \in DOMAIN next_timeout' :
            /\ Due(next_timeout', i) <= Interval[next_timeout'[i].h]
            /\ next_timeout'[i].h = "tcpip_tcp_timer" => owed' + Elapsed' <= Due(next_timeout', i) \/ owed' = 0
    BY <1>11, <1>13
  <2>2. \A i, j \in DOMAIN next_timeout' : \A a, b \in DOMAIN order' :
            (/\ i < j /\ Due(next_timeout', i) = Due(next_timeout', j)
             /\ order'[a] = next_timeout'[i].h /\ order'[b] = next_timeout'[j].h) => a < b
    BY <1>12
  <2> QED
    BY <2>1, <2>2 DEF Clocked
<1> QED
  BY <1>10, <1>14 DEF TimedInv

\* The types the timers' invariant gives.
LEMMA ListIs ==
    ASSUME Timed
    PROVE  /\ next_timeout \in List /\ Len(next_timeout) \in Nat /\ DOMAIN next_timeout = 1 .. Len(next_timeout)
           /\ order \in Seq(Handlers) /\ Len(order) \in Nat /\ DOMAIN order = 1 .. Len(order)
           /\ owed \in Nat /\ waited \in Nat /\ HeadTime \in Nat
           /\ \A i \in 1 .. Len(next_timeout) : Due(next_timeout, i) \in Nat
           /\ next_timeout # <<>> => HeadTime = next_timeout[1].time /\ HeadTime = Due(next_timeout, 1)
           /\ next_timeout = <<>> => HeadTime = 0
<1>1. next_timeout \in List /\ order \in Seq(Handlers) /\ owed \in Nat /\ waited \in Nat
  BY DEF Timed, List
<1>2. Len(next_timeout) \in Nat /\ DOMAIN next_timeout = 1 .. Len(next_timeout)
      /\ Len(order) \in Nat /\ DOMAIN order = 1 .. Len(order)
  BY <1>1 DEF List
<1>3. \A i \in 1 .. Len(next_timeout) : Due(next_timeout, i) \in Nat
  <2>1. \A i \in 0 .. Len(next_timeout) : Due(next_timeout, i) \in Nat
    BY <1>1, DueType
  <2>2. \A i \in 1 .. Len(next_timeout) : i \in 0 .. Len(next_timeout)
    BY <1>2
  <2> QED
    BY <2>1, <2>2
<1>4. CASE next_timeout = <<>>
  BY <1>1, <1>2, <1>3, <1>4 DEF HeadTime
<1>5. CASE next_timeout # <<>>
  <2>1. next_timeout[1] = Head(next_timeout) /\ Due(next_timeout, 1) = next_timeout[1].time
        /\ next_timeout[1].time \in Nat
    BY <1>1, <1>5, FirstDue
  <2> QED
    BY <1>1, <1>2, <1>3, <1>5, <2>1 DEF HeadTime
<1> QED
  BY <1>4, <1>5

\* A timer is armed, one that was not in the list.
LEMMA ArmTimed ==
    ASSUME TimedInv, NEW h \in Handlers, h \notin Armed(next_timeout), ArmTimer(h),
           thr # "wait", thr' \notin {"wait", "timer"}, waited' \in Nat
    PROVE  TimedInv'
<1>1. Timed /\ Clocked
  BY DEF TimedInv
<1> DEFINE L == next_timeout
           N == Len(next_timeout)
           t == Interval[h]
<1>2. /\ L \in List /\ N \in Nat /\ DOMAIN L = 1 .. N /\ \A i \in 1 .. N : Due(L, i) \in Nat
      /\ order \in Seq(Handlers) /\ Len(order) \in Nat /\ DOMAIN order = 1 .. Len(order) /\ owed \in Nat
  BY <1>1, ListIs
<1>3. t \in Nat
  BY Times
<1>4. /\ next_timeout' = sys_timeout(L, t, h) /\ order' = Append(order, h)
      /\ owed' = IF h = "tcpip_tcp_timer" THEN t ELSE owed
  BY DEF ArmTimer
<1>5. PICK n : Inserted(next_timeout', L, t, h, n)
  BY <1>2, <1>3, <1>4, TimeoutInserts
<1> DEFINE R == next_timeout'
           old(i) == IF i <= n THEN i ELSE i - 1
<1>6. R \in List /\ Len(R) = N + 1 /\ DOMAIN R = 1 .. N + 1 /\ n \in 0 .. N
      /\ \A i \in 1 .. N : Due(L, i) <= t <=> i <= n
  BY <1>5 DEF Inserted, List
<1>7. R[n + 1].h = h /\ Due(R, n + 1) = t /\ n + 1 \in 1 .. N + 1
  BY <1>2, <1>5, <1>6 DEF Inserted
<1>8. \A i \in 1 .. N + 1 : i # n + 1 => /\ old(i) \in 1 .. N /\ R[i].h = L[old(i)].h
                                         /\ Due(R, i) = Due(L, old(i)) /\ R[i].h # h
  <2>1. SUFFICES ASSUME NEW i \in 1 .. N + 1, i # n + 1
                 PROVE  /\ old(i) \in 1 .. N /\ R[i].h = L[old(i)].h
                        /\ Due(R, i) = Due(L, old(i)) /\ R[i].h # h
    OBVIOUS
  <2>2. old(i) \in 1 .. N
    BY <1>2, <1>6, <2>1
  <2>3. R[i].h = L[old(i)].h /\ Due(R, i) = Due(L, old(i))
    BY <1>5, <2>1 DEF Inserted
  <2>4. L[old(i)].h # h
    BY <1>2, <2>2 DEF Armed
  <2> QED
    BY <2>2, <2>3, <2>4
<1>9. \A i, j \in 1 .. N + 1 : i # n + 1 /\ j # n + 1 => /\ old(i) = old(j) => i = j
                                                         /\ i < j => old(i) < old(j)
  BY <1>2, <1>6
<1>10. \A i \in 1 .. N : \E j \in 1 .. N + 1 : j # n + 1 /\ old(j) = i
  <2>1. SUFFICES ASSUME NEW i \in 1 .. N PROVE \E j \in 1 .. N + 1 : j # n + 1 /\ old(j) = i
    OBVIOUS
  <2>2. CASE i <= n
    <3>1. i \in 1 .. N + 1 /\ i # n + 1 /\ old(i) = i
      BY <1>2, <1>6, <2>2
    <3> QED
      BY <3>1
  <2>3. CASE ~(i <= n)
    <3>1. i + 1 \in 1 .. N + 1 /\ i + 1 # n + 1 /\ old(i + 1) = i
      BY <1>2, <1>6, <2>3
    <3> QED
      BY <3>1
  <2> QED
    BY <2>2, <2>3
<1> HIDE DEF old
<1>11. \A i, j \in DOMAIN R : R[i].h = R[j].h => i = j
  <2>1. SUFFICES ASSUME NEW i \in 1 .. N + 1, NEW j \in 1 .. N + 1, R[i].h = R[j].h
                 PROVE  i = j
    BY <1>6
  <2>2. CASE i = n + 1 \/ j = n + 1
    BY <1>7, <1>8, <2>1, <2>2
  <2>3. CASE i # n + 1 /\ j # n + 1
    <3>1. L[old(i)].h = L[old(j)].h /\ old(i) \in 1 .. N /\ old(j) \in 1 .. N
      BY <1>8, <2>1, <2>3
    <3>2. old(i) = old(j)
      BY <1>1, <1>2, <3>1 DEF Timed
    <3> QED
      BY <1>9, <2>3, <3>2
  <2> QED
    BY <2>2, <2>3
<1> DEFINE M == Len(order)
<1>12. /\ order' \in Seq(Handlers) /\ Len(order') = M + 1 /\ DOMAIN order' = 1 .. M + 1
       /\ order'[M + 1] = h /\ \A a \in 1 .. M : order'[a] = order[a]
  BY <1>2, <1>4
<1>13. \A a \in 1 .. M : order[a] # h
  BY <1>1, <1>2 DEF Timed
<1>14. \A a, b \in DOMAIN order' : order'[a] = order'[b] => a = b
  <2>1. SUFFICES ASSUME NEW a \in 1 .. M + 1, NEW b \in 1 .. M + 1, order'[a] = order'[b]
                 PROVE  a = b
    BY <1>12
  <2>2. CASE a = M + 1 \/ b = M + 1
    <3>1. order'[a] = h /\ order'[b] = h
      BY <1>12, <2>1, <2>2
    <3>2. ~(a \in 1 .. M) /\ ~(b \in 1 .. M)
      BY <1>12, <1>13, <3>1
    <3> QED
      BY <1>2, <3>2
  <2>3. CASE a # M + 1 /\ b # M + 1
    <3>1. a \in 1 .. M /\ b \in 1 .. M
      BY <1>2, <2>3
    <3> QED
      BY <1>1, <1>2, <1>12, <2>1, <3>1 DEF Timed
  <2> QED
    BY <2>2, <2>3
<1>15. Armed(R) = Armed(L) \cup {h}
  <2>1. Armed(R) = {R[i].h : i \in 1 .. N + 1} /\ Armed(L) = {L[i].h : i \in 1 .. N}
    BY <1>2, <1>6 DEF Armed
  <2>2. \A i \in 1 .. N + 1 : R[i].h \in Armed(L) \cup {h}
    BY <1>7, <1>8, <2>1
  <2>3. \A i \in 1 .. N : L[i].h \in Armed(R)
    BY <1>8, <1>10, <2>1
  <2>4. h \in Armed(R)
    BY <1>7, <2>1
  <2> HIDE DEF L, N, R
  <2> QED
    BY <2>1, <2>2, <2>3, <2>4
<1>16. \A g \in Handlers : (\E i \in DOMAIN order' : order'[i] = g) <=> g \in Armed(R)
  <2>1. SUFFICES ASSUME NEW g \in Handlers
                 PROVE  (\E i \in 1 .. M + 1 : order'[i] = g) <=> g \in Armed(R)
    BY <1>12
  <2>2. (\E i \in 1 .. M : order[i] = g) <=> g \in Armed(L)
    BY <1>1, <1>2 DEF Timed
  <2>3. (\E i \in 1 .. M + 1 : order'[i] = g) <=> (\E i \in 1 .. M : order[i] = g) \/ g = h
    <3>1. \A i \in 1 .. M + 1 : i \in 1 .. M \/ i = M + 1
      BY <1>2
    <3>2. \A i \in 1 .. M : i \in 1 .. M + 1
      BY <1>2
    <3>3. M + 1 \in 1 .. M + 1
      BY <1>2
    <3> QED
      BY <1>12, <3>1, <3>2, <3>3
  <2> QED
    BY <1>15, <2>2, <2>3
<1>17. owed' \in Nat
  BY <1>2, <1>3, <1>4
<1>18. Timed'
  BY <1>6, <1>11, <1>12, <1>14, <1>16, <1>17 DEF Timed, List
<1>19. Elapsed = 0 /\ Elapsed' = 0
  BY DEF Elapsed
<1>20. ASSUME NEW i \in 1 .. N + 1
       PROVE  /\ Due(R, i) <= Interval[R[i].h]
              /\ R[i].h = "tcpip_tcp_timer" => owed' + Elapsed' <= Due(R, i) \/ owed' = 0
  <2>1. CASE i = n + 1
    <3>1. Due(R, i) = t /\ R[i].h = h
      BY <1>7, <2>1
    <3>2. R[i].h = "tcpip_tcp_timer" => owed' = t
      BY <1>4, <3>1
    <3> HIDE DEF R, t
    <3>3. Due(R, i) <= t
      BY <1>3, <3>1
    <3>4. R[i].h = "tcpip_tcp_timer" => owed' + Elapsed' <= Due(R, i)
      BY <1>3, <1>19, <3>1, <3>2
    <3> QED
      BY <3>1, <3>3, <3>4 DEF t
  <2>2. CASE i # n + 1
    <3>1. old(i) \in 1 .. N /\ R[i].h = L[old(i)].h /\ Due(R, i) = Due(L, old(i)) /\ R[i].h # h
      BY <1>8, <2>2
    <3>2. Due(L, old(i)) <= Interval[L[old(i)].h]
          /\ (L[old(i)].h = "tcpip_tcp_timer" => owed + Elapsed <= Due(L, old(i)) \/ owed = 0)
      BY <1>1, <1>2, <3>1 DEF Clocked
    <3>3. R[i].h = "tcpip_tcp_timer" => owed' = owed
      BY <1>4, <3>1
    <3> QED
      BY <1>19, <3>1, <3>2, <3>3
  <2> QED
    BY <2>1, <2>2
<1>21. ASSUME NEW i \in 1 .. N + 1, NEW j \in 1 .. N + 1, NEW a \in 1 .. M + 1, NEW b \in 1 .. M + 1,
              i < j, Due(R, i) = Due(R, j), order'[a] = R[i].h, order'[b] = R[j].h
       PROVE  a < b
  <2>1. CASE j = n + 1
    <3>1. i # n + 1 /\ b = M + 1
      <4>1. order'[b] = h
        BY <1>7, <1>21, <2>1
      <4>2. ~(b \in 1 .. M)
        BY <1>12, <1>13, <4>1
      <4>3. i # n + 1
        BY <1>2, <1>6, <1>21, <2>1
      <4> QED
        BY <1>2, <4>2, <4>3
    <3>2. order'[a] # h
      BY <1>8, <1>21, <3>1
    <3>3. a # M + 1
      BY <1>12, <3>2
    <3> QED
      BY <1>2, <3>1, <3>3
  <2>2. CASE i = n + 1
    <3>1. j # n + 1 /\ old(j) \in 1 .. N /\ Due(R, j) = Due(L, old(j)) /\ ~(old(j) <= n)
      <4>1. j # n + 1
        BY <1>2, <1>6, <1>21, <2>2
      <4>2. old(j) \in 1 .. N /\ Due(R, j) = Due(L, old(j))
        BY <1>8, <4>1
      <4>3. ~(old(j) <= n)
        BY <1>2, <1>6, <1>21, <2>2 DEF old
      <4> QED
        BY <4>1, <4>2, <4>3
    <3>2. ~(Due(R, j) <= t)
      BY <1>6, <3>1
    <3>3. Due(R, i) = t
      BY <1>7, <2>2
    <3> HIDE DEF R, t
    <3> QED
      BY <1>3, <1>21, <3>2, <3>3
  <2>3. CASE i # n + 1 /\ j # n + 1
    <3>1. /\ old(i) \in 1 .. N /\ R[i].h = L[old(i)].h /\ Due(R, i) = Due(L, old(i)) /\ R[i].h # h
          /\ old(j) \in 1 .. N /\ R[j].h = L[old(j)].h /\ Due(R, j) = Due(L, old(j)) /\ R[j].h # h
          /\ old(i) < old(j)
      BY <1>8, <1>9, <1>21, <2>3
    <3>2. a # M + 1 /\ b # M + 1
      BY <1>12, <1>21, <3>1
    <3>3. a \in 1 .. M /\ b \in 1 .. M
      BY <1>2, <3>2
    <3>4. order[a] = L[old(i)].h /\ order[b] = L[old(j)].h /\ Due(L, old(i)) = Due(L, old(j))
      BY <1>12, <1>21, <3>1, <3>3
    <3> QED
      BY <1>1, <1>2, <3>1, <3>3, <3>4 DEF Clocked
  <2> QED
    BY <2>1, <2>2, <2>3
<1>22. Clocked'
  <2>1. \A i \in DOMAIN R :
            /\ Due(R, i) <= Interval[R[i].h]
            /\ R[i].h = "tcpip_tcp_timer" => owed' + Elapsed' <= Due(R, i) \/ owed' = 0
    BY <1>6, <1>20
  <2>2. \A i, j \in DOMAIN R : \A a, b \in DOMAIN order' :
            (/\ i < j /\ Due(R, i) = Due(R, j) /\ order'[a] = R[i].h /\ order'[b] = R[j].h) => a < b
    BY <1>6, <1>12, <1>21
  <2> QED
    BY <2>1, <2>2 DEF Clocked
<1> QED
  BY <1>18, <1>22 DEF TimedInv

\* The first timer goes off, when the wait for it is over.
LEMMA FirePasses ==
    ASSUME Timed, next_timeout # <<>>, FireHead
    PROVE  GoesBy(1, HeadTime) /\ msg' \notin Armed(next_timeout)'
<1> DEFINE L == next_timeout
           N == Len(next_timeout)
           h == Head(next_timeout).h
           R == next_timeout'
<1>1. /\ L \in List /\ N \in Nat /\ DOMAIN L = 1 .. N
      /\ order \in Seq(Handlers) /\ Len(order) \in Nat /\ DOMAIN order = 1 .. Len(order)
  BY ListIs
<1>2. R = Tail(L) /\ order' = Without(order, h) /\ msg' = h
  BY DEF FireHead
<1>3. Head(L).time = HeadTime /\ 1 \in 1 .. N /\ L[1] = Head(L) /\ L[1].h = h /\ h \in Handlers
  BY <1>1, FirstDue DEF HeadTime
<1>4. Passed(R, L, 1, HeadTime)
  BY <1>1, <1>2, <1>3, TailPassed
<1>5. R \in List /\ N = Len(R) + 1 /\ Len(R) \in Nat /\ DOMAIN R = 1 .. Len(R)
      /\ \A i \in 1 .. Len(R) : R[i].h = L[i + 1].h
  BY <1>4 DEF Passed, List
<1>6. \E i \in DOMAIN order : order[i] = h
  <2>1. h \in Armed(L)
    BY <1>1, <1>3 DEF Armed
  <2> QED
    BY <1>3, <2>1 DEF Timed
<1>7. PICK k : LeftOut(Without(order, h), order, h, k)
  <2> HIDE DEF h
  <2> QED
    BY <1>1, <1>6, WithoutOne
<1> DEFINE M == Len(order')
           m == [a \in 1 .. M |-> IF a < k THEN a ELSE a + 1]
<1>8. /\ order' \in Seq(Handlers) /\ M \in Nat /\ Len(order) = M + 1 /\ DOMAIN order' = 1 .. M
      /\ \A a \in 1 .. M : order'[a] = IF a < k THEN order[a] ELSE order[a + 1]
      /\ k \in 1 .. Len(order) /\ order[k] = h
  <2> HIDE DEF h
  <2>1. LeftOut(order', order, h, k)
    BY <1>2, <1>7
  <2>2. /\ k \in 1 .. Len(order) /\ order[k] = h /\ order' \in Seq(Handlers) /\ M = Len(order) - 1
        /\ \A i \in 1 .. Len(order) - 1 : order'[i] = IF i < k THEN order[i] ELSE order[i + 1]
    BY <2>1 DEF LeftOut
  <2>3. Len(order) - 1 = M
    BY <2>2
  <2>4. M \in Nat /\ DOMAIN order' = 1 .. M /\ Len(order) = M + 1
    BY <1>1, <2>2
  <2> HIDE DEF M
  <2> QED
    BY <2>2, <2>3, <2>4
<1>9. /\ m \in [1 .. M -> 1 .. Len(order)] /\ \A a \in 1 .. M : order'[a] = order[m[a]] /\ m[a] # k
      /\ \A a, b \in 1 .. M : a < b => m[a] < m[b]
  <2> HIDE DEF M, h
  <2>1. \A a \in 1 .. M : m[a] = (IF a < k THEN a ELSE a + 1) /\ m[a] \in 1 .. Len(order) /\ m[a] # k
    BY <1>8
  <2>2. \A a \in 1 .. M : order'[a] = order[m[a]]
    BY <1>8, <2>1
  <2>3. \A a, b \in 1 .. M : a < b => m[a] < m[b]
    BY <1>8, <2>1
  <2>4. m \in [1 .. M -> 1 .. Len(order)]
    BY <2>1
  <2> QED
    BY <2>1, <2>2, <2>3, <2>4
<1>10. \A i \in 1 .. Len(order) : i # k => \E a \in 1 .. M : m[a] = i
  <2>1. SUFFICES ASSUME NEW i \in 1 .. Len(order), i # k PROVE \E a \in 1 .. M : m[a] = i
    OBVIOUS
  <2>2. CASE i < k
    <3>1. i \in 1 .. M
      BY <1>8, <2>1, <2>2
    <3>2. m[i] = i
      BY <2>2, <3>1
    <3> QED
      BY <3>1, <3>2
  <2>3. CASE ~(i < k)
    <3>1. i - 1 \in 1 .. M /\ ~(i - 1 < k) /\ (i - 1) + 1 = i
      BY <1>8, <2>1, <2>3
    <3>2. m[i - 1] = i
      BY <3>1
    <3> QED
      BY <3>1, <3>2
  <2> QED
    BY <2>2, <2>3
<1> HIDE DEF m
<1>11. Sparser(order', order)
  BY <1>8, <1>9 DEF Sparser
<1>12. \A g \in Handlers : g \in Armed(R) <=> g \in Armed(L) /\ g # h
  <2>1. Armed(R) = {R[i].h : i \in 1 .. Len(R)} /\ Armed(L) = {L[i].h : i \in 1 .. N}
    BY <1>1, <1>5 DEF Armed
  <2>2. \A i \in 1 .. Len(R) : R[i].h \in Armed(L) /\ R[i].h # h
    <3>1. SUFFICES ASSUME NEW i \in 1 .. Len(R) PROVE R[i].h \in Armed(L) /\ R[i].h # h
      OBVIOUS
    <3>2. i + 1 \in 1 .. N /\ i + 1 # 1
      BY <1>5
    <3>3. L[i + 1].h # L[1].h
      BY <1>1, <1>3, <3>2 DEF Timed
    <3> QED
      BY <1>3, <1>5, <2>1, <3>2, <3>3
  <2>3. \A i \in 1 .. N : L[i].h # h => L[i].h \in Armed(R)
    <3>1. SUFFICES ASSUME NEW i \in 1 .. N, L[i].h # h PROVE L[i].h \in Armed(R)
      OBVIOUS
    <3>2. i # 1 /\ i - 1 \in 1 .. Len(R) /\ (i - 1) + 1 = i
      BY <1>1, <1>3, <1>5, <3>1
    <3>3. R[i - 1].h = L[i].h
      BY <1>5, <3>2
    <3> QED
      BY <2>1, <3>2, <3>3
  <2> HIDE DEF L, R, N, h
  <2> QED
    BY <2>1, <2>2, <2>3
<1>13. \A g \in Handlers : (\E i \in DOMAIN order' : order'[i] = g) <=> g \in Armed(R)
  <2>1. SUFFICES ASSUME NEW g \in Handlers
                 PROVE  (\E i \in 1 .. M : order'[i] = g) <=> g \in Armed(R)
    BY <1>8
  <2>2. (\E i \in 1 .. Len(order) : order[i] = g) <=> g \in Armed(L)
    BY <1>1 DEF Timed
  <2>3. \A i \in 1 .. Len(order) : order[i] = h => i = k
    BY <1>1, <1>8 DEF Timed
  <2> HIDE DEF M, h
  <2>4. ASSUME NEW a \in 1 .. M, order'[a] = g
        PROVE  g \in Armed(L) /\ g # h
    <3>1. m[a] \in 1 .. Len(order) /\ order[m[a]] = g /\ m[a] # k
      BY <1>9, <2>4
    <3> QED
      BY <2>2, <2>3, <3>1
  <2>5. ASSUME g \in Armed(L), g # h
        PROVE  \E i \in 1 .. M : order'[i] = g
    <3>1. PICK i \in 1 .. Len(order) : order[i] = g
      BY <2>2, <2>5
    <3>2. i # k
      BY <1>8, <2>5, <3>1
    <3>3. PICK a \in 1 .. M : m[a] = i
      BY <1>10, <3>2
    <3> QED
      BY <1>9, <3>1, <3>3
  <2> QED
    BY <1>12, <2>4, <2>5
<1>14. msg' \notin Armed(next_timeout)'
  BY <1>2, <1>3, <1>12
<1>15. GoesBy(1, HeadTime)
  BY <1>4, <1>11, <1>13 DEF GoesBy
<1> QED
  BY <1>14, <1>15

\* The head going off, when its time is over, keeps the timers' invariant.
LEMMA FireTimed ==
    ASSUME TimedInv, next_timeout # <<>>, FireHead, Elapsed = HeadTime, waited' \in Nat
    PROVE  TimedInv'
<1>1. Timed /\ Clocked
  BY DEF TimedInv
<1>2. GoesBy(1, HeadTime) /\ msg' \notin Armed(next_timeout)' /\ thr' = "timer" /\ owed' = owed
  BY <1>1, FirePasses DEF FireHead
<1>3. /\ Len(next_timeout) = Len(next_timeout') + 1 /\ next_timeout' \in List
      /\ \A i \in 1 .. Len(next_timeout') : next_timeout'[i].h = next_timeout[i + 1].h
  BY <1>2 DEF GoesBy, Passed
<1>4. /\ next_timeout \in List /\ DOMAIN next_timeout = 1 .. Len(next_timeout)
      /\ owed \in Nat /\ HeadTime \in Nat
      /\ \A i \in 1 .. Len(next_timeout) : Due(next_timeout, i) \in Nat
  BY <1>1, ListIs
<1>5. Len(next_timeout') \in Nat /\ DOMAIN next_timeout' = 1 .. Len(next_timeout')
  BY <1>3 DEF List
<1>6. ASSUME NEW i \in DOMAIN next_timeout', next_timeout'[i].h = "tcpip_tcp_timer"
      PROVE  owed' <= Due(next_timeout, i + 1) - HeadTime \/ owed' = 0
  <2>1. i \in 1 .. Len(next_timeout') /\ i + 1 \in 1 .. Len(next_timeout)
    BY <1>3, <1>5
  <2>2. next_timeout[i + 1].h = "tcpip_tcp_timer"
    BY <1>3, <1>6, <2>1
  <2>3. owed + HeadTime <= Due(next_timeout, i + 1) \/ owed = 0
    BY <1>1, <1>4, <2>1, <2>2 DEF Clocked
  <2>4. Due(next_timeout, i + 1) \in Nat
    BY <1>4, <2>1
  <2> QED
    BY <1>2, <1>4, <2>3, <2>4
<1>7. owed' \in Nat /\ thr' # "wait"
  BY <1>2, <1>4
<1> QED
  BY <1>2, <1>6, <1>7, PassesTimed

\* A message comes, after so many ticks of waiting.
LEMMA TookTimed ==
    ASSUME TimedInv, NEW m, NEW ticks \in Nat, Took(m, ticks), Elapsed = ticks, waited' \in Nat
    PROVE  TimedInv'
<1>1. Timed /\ Clocked
  BY DEF TimedInv
<1>2. PICK wraps \in BOOLEAN : next_timeout' = Waited(next_timeout, TimeNeeded(ticks, wraps))
  BY DEF Took
<1>3. thr' = "handle" /\ owed' = (IF ticks = 0 THEN 0 ELSE Less1(owed)) /\ order' = order
  BY DEF Took
<1> DEFINE t == TimeNeeded(ticks, wraps)
           d == Nearer(next_timeout, t)
<1>4. t \in Nat /\ (ticks # 0 => t <= ticks + 1)
  BY NeededTime
<1>5. /\ next_timeout \in List /\ Len(next_timeout) \in Nat /\ DOMAIN next_timeout = 1 .. Len(next_timeout)
      /\ owed \in Nat /\ order \in Seq(Handlers) /\ Len(order) \in Nat /\ DOMAIN order = 1 .. Len(order)
      /\ \A i \in 1 .. Len(next_timeout) : Due(next_timeout, i) \in Nat
  BY <1>1, ListIs
<1>6. Passed(next_timeout', next_timeout, 0, d)
  BY <1>2, <1>4, <1>5, WaitedPassed
<1>7. d \in Nat /\ d <= t
  <2>1. CASE next_timeout = <<>>
    BY <1>4, <2>1 DEF Nearer
  <2>2. CASE next_timeout # <<>>
    <3>1. Head(next_timeout).time \in Nat
      BY <1>5, <2>2, FirstDue
    <3> HIDE DEF t
    <3> QED
      BY <1>4, <2>2, <3>1 DEF Nearer, Lesser
  <2> QED
    BY <2>1, <2>2
<1> HIDE DEF t, d
<1>8. /\ next_timeout' \in List /\ Len(next_timeout) = Len(next_timeout') + 0
      /\ \A i \in 1 .. Len(next_timeout') : next_timeout'[i].h = next_timeout[i + 0].h
  BY <1>6 DEF Passed
<1>9. /\ Len(next_timeout') = Len(next_timeout) /\ DOMAIN next_timeout' = 1 .. Len(next_timeout)
      /\ \A i \in 1 .. Len(next_timeout) : next_timeout'[i].h = next_timeout[i].h /\ i + 0 = i
  <2>1. Len(next_timeout') \in Nat /\ DOMAIN next_timeout' = 1 .. Len(next_timeout')
    BY <1>8 DEF List
  <2>2. \A i \in 1 .. Len(next_timeout) : i + 0 = i
    BY <1>5
  <2>3. Len(next_timeout') = Len(next_timeout)
    BY <1>8, <2>1
  <2> QED
    BY <1>8, <2>1, <2>2, <2>3
<1>10. Sparser(order', order)
  <2> DEFINE id == [a \in 1 .. Len(order) |-> a]
  <2>1. id \in [1 .. Len(order') -> 1 .. Len(order)] /\ \A a \in 1 .. Len(order') : order'[a] = order[id[a]]
    BY <1>3
  <2>2. \A a, b \in 1 .. Len(order') : a < b => id[a] < id[b]
    BY <1>3
  <2> HIDE DEF id
  <2> QED
    BY <1>3, <1>5, <2>1, <2>2 DEF Sparser
<1>11. Armed(next_timeout') = Armed(next_timeout)
  BY <1>5, <1>9 DEF Armed
<1>12. GoesBy(0, d)
  BY <1>1, <1>3, <1>6, <1>10, <1>11 DEF GoesBy, Timed
<1>13. owed' \in Nat /\ (ticks # 0 /\ owed # 0 => owed' = owed - 1) /\ (owed = 0 => owed' = 0)
       /\ (ticks = 0 => owed' = 0)
  BY <1>3, <1>5 DEF Less1, Lesser
<1>14. ASSUME NEW i \in DOMAIN next_timeout', next_timeout'[i].h = "tcpip_tcp_timer"
       PROVE  owed' <= Due(next_timeout, i + 0) - d \/ owed' = 0
  <2>1. i \in 1 .. Len(next_timeout) /\ i + 0 = i /\ next_timeout[i].h = "tcpip_tcp_timer"
    BY <1>9, <1>14
  <2>2. owed + ticks <= Due(next_timeout, i) \/ owed = 0
    BY <1>1, <1>5, <2>1 DEF Clocked
  <2>3. Due(next_timeout, i) \in Nat
    BY <1>5, <2>1
  <2>4. CASE ticks = 0 \/ owed = 0
    BY <1>13, <2>4
  <2>5. CASE ticks # 0 /\ owed # 0
    <3>1. owed' = owed - 1 /\ d <= ticks + 1 /\ owed + ticks <= Due(next_timeout, i)
      BY <1>4, <1>7, <1>13, <2>2, <2>5
    <3>2. Due(next_timeout, i + 0) = Due(next_timeout, i) /\ owed \in Nat /\ d \in Nat
      BY <1>5, <1>7, <2>1
    <3> QED
      BY <2>3, <3>1, <3>2
  <2> QED
    BY <2>4, <2>5
<1>15. thr' # "wait" /\ (thr' = "timer" => msg' \notin Armed(next_timeout)')
  BY <1>3
<1> QED
  BY <1>12, <1>13, <1>14, <1>15, PassesTimed

\* The part of Clocked that is about the list, not about the wait.
InTime ==
    /\ \A i \in DOMAIN next_timeout :
            /\ Due(next_timeout, i) <= Interval[next_timeout[i].h]
            /\ next_timeout[i].h = "tcpip_tcp_timer" => owed + Elapsed <= Due(next_timeout, i) \/ owed = 0
    /\ \A i, j \in DOMAIN next_timeout : \A a, b \in DOMAIN order :
            (/\ i < j /\ Due(next_timeout, i) = Due(next_timeout, j)
             /\ order[a] = next_timeout[i].h /\ order[b] = next_timeout[j].h) => a < b

\* Arithmetic: what the TCP timer is owed stays within the time it is due in.
LEMMA OwedLess ==
    ASSUME NEW o \in Nat, NEW e \in Nat, NEW o2 \in Nat, NEW e2 \in Nat, NEW d \in Nat,
           o2 + e2 <= o + e \/ o2 = 0, o + e <= d \/ o = 0, o = 0 => o2 = 0
    PROVE  o2 + e2 <= d \/ o2 = 0
  OBVIOUS

\* Arithmetic: a tick takes one from what is owed and adds at most one to the time passed.
LEMMA OneLess ==
    ASSUME NEW o \in Nat, NEW e \in Nat, NEW o2 \in Nat, NEW e2 \in Nat,
           e2 <= e + 1, o = 0 => o2 = 0, o # 0 => o2 = o - 1
    PROVE  o2 + e2 <= o + e \/ o2 = 0
  OBVIOUS

\* It holds as long as what is owed falls by as much as the wait grows.
LEMMA StaysInTime ==
    ASSUME Timed, Clocked, next_timeout' = next_timeout, order' = order,
           owed' \in Nat, Elapsed \in Nat, Elapsed' \in Nat,
           owed' + Elapsed' <= owed + Elapsed \/ owed' = 0, owed = 0 => owed' = 0
    PROVE  InTime'
<1>1. /\ owed \in Nat /\ DOMAIN next_timeout = 1 .. Len(next_timeout)
      /\ \A i \in 1 .. Len(next_timeout) : Due(next_timeout, i) \in Nat
  BY ListIs
<1>2. ASSUME NEW i \in DOMAIN next_timeout, next_timeout[i].h = "tcpip_tcp_timer"
      PROVE  owed' + Elapsed' <= Due(next_timeout, i) \/ owed' = 0
  <2>1. owed + Elapsed <= Due(next_timeout, i) \/ owed = 0
    BY <1>2 DEF Clocked
  <2>2. Due(next_timeout, i) \in Nat
    BY <1>1
  <2> QED
    BY <1>1, <2>1, <2>2, OwedLess
<1>3. \A i \in DOMAIN next_timeout : Due(next_timeout, i) <= Interval[next_timeout[i].h]
  BY DEF Clocked
<1>4. \A i, j \in DOMAIN next_timeout : \A a, b \in DOMAIN order :
            (/\ i < j /\ Due(next_timeout, i) = Due(next_timeout, j)
             /\ order[a] = next_timeout[i].h /\ order[b] = next_timeout[j].h) => a < b
  BY DEF Clocked
<1> QED
  BY <1>2, <1>3, <1>4 DEF InTime

\* The time that has passed in the pend is a natural number.
LEMMA ElapsedType ==
    ASSUME Timed
    PROVE  Elapsed \in Nat
<1>1. waited \in Nat
  BY DEF Timed
<1> QED
  BY <1>1 DEF Elapsed

\* A step that leaves the timers and the thread alone, or takes it from one place
\* where it does not wait to another.
LEMMA QuietTimed ==
    ASSUME TimedInv, next_timeout' = next_timeout, order' = order, owed' = owed, waited' = waited,
           \/ thr' = thr /\ msg' = msg /\ Undisturbed
           \/ thr # "wait" /\ thr' \notin {"wait", "timer"}
    PROVE  TimedInv'
<1>1. Timed /\ Clocked
  BY DEF TimedInv
<1>2. HeadTime' = HeadTime /\ (thr' = "wait" => thr = "wait") /\ (thr' = "timer" => thr = "timer" /\ msg' = msg)
  BY DEF HeadTime
<1>3. Elapsed' = Elapsed
  BY DEF Elapsed
<1>4. owed \in Nat /\ Elapsed \in Nat
  BY <1>1, ElapsedType DEF Timed
<1>5. InTime'
  BY <1>1, <1>3, <1>4, StaysInTime
<1>6. thr' = "wait" => TB' = TB \/ (TB'.Stat = {} /\ TB'.Dly = 0 /\ TB'.StatPend = "OK")
  BY DEF Undisturbed
<1>7. Timed'
  BY <1>1, <1>2, <1>6 DEF Timed
<1>8. Clocked'
  BY <1>1, <1>2, <1>5, <1>6 DEF Clocked, InTime
<1> QED
  BY <1>7, <1>8 DEF TimedInv

\* tcpip_thread begins to wait for the first timer, or for ever.
LEMMA SleepTimed ==
    ASSUME TimedInv, next_timeout' = next_timeout, order' = order, owed' = owed, waited' = 0,
           thr # "wait", thr' = "wait", next_timeout = <<>> \/ HeadTime > 0,
           TB'.Dly = HeadTime, TB'.StatPend = "OK"
    PROVE  TimedInv'
<1>1. Timed /\ Clocked
  BY DEF TimedInv
<1>2. HeadTime' = HeadTime /\ HeadTime \in Nat /\ (next_timeout = <<>> => HeadTime = 0)
  BY <1>1, ListIs DEF HeadTime
<1>3. Elapsed' = 0 /\ Elapsed = 0
  BY DEF Elapsed
<1>4. owed \in Nat
  BY <1>1 DEF Timed
<1>5. InTime'
  BY <1>1, <1>3, <1>4, StaysInTime
<1>6. Timed'
  BY <1>1, <1>2 DEF Timed
<1>7. /\ waited' <= HeadTime' /\ (next_timeout' # <<>> => HeadTime' > 0)
      /\ TB'.Dly = HeadTime' - waited' /\ (HeadTime' > 0 => TB'.Dly > 0)
  BY <1>2
<1>8. Clocked'
  BY <1>5, <1>7 DEF Clocked, InTime
<1> QED
  BY <1>6, <1>8 DEF TimedInv

\* A tick brings the end of the wait nearer.
LEMMA TickTimed ==
    ASSUME CallInv, TimedInv, Tick
    PROVE  TimedInv'
<1>1. Timed /\ Clocked
  BY DEF TimedInv
<1>2. /\ os' = OSIntExit(OSTimeTick(OSIntEnter(os)))
      /\ thr' = thr /\ msg' = msg /\ next_timeout' = next_timeout /\ order' = order
      /\ waited' = (IF thr = "wait" THEN Lesser(waited + 1, HeadTime) ELSE 0) /\ owed' = Less1(owed)
  BY DEF Tick, SysTick, Leave
<1>3. HeadTime' = HeadTime /\ HeadTime \in Nat /\ (next_timeout = <<>> => HeadTime = 0)
      /\ waited \in Nat /\ owed \in Nat
  BY <1>1, <1>2, ListIs DEF HeadTime
<1>4. TB' = Ticked(TB) /\ TB \in TCB(Ptrs) /\ BlockOk(TB) /\ Unanswered(TB)
  <2>1. Shows(os, TB, CB, MailBox, Box, Tokens)
    BY Seen
  <2>2. Shows(os', Ticked(TB), Ticked(CB), MailBox, Box, Tokens)
    BY <1>2, <2>1, TickTurns
  <2> QED
    BY <2>2, SeenNext, Turns
<1>5. TB.Dly \in Nat /\ TB' \in TCB(Ptrs)
  BY <1>4, TickedBlock DEF TCB
<1>6. /\ TB'.Stat # {} => TB.Stat # {} /\ TB.Dly # 1
      /\ TB.Dly = 0 => TB'.Dly = 0 /\ TB'.StatPend = TB.StatPend
      /\ TB.Dly > 1 => TB'.Dly = TB.Dly - 1
      /\ TB'.StatPend = "TO" => TB.StatPend = "TO" \/ (TB.Stat # {} /\ TB.Dly = 1)
  <2>1. /\ Ticked(TB).Stat = {} <=> TB.Stat = {} \/ TB.Dly = 1
        /\ TB.Dly = 0 => Ticked(TB).Dly = 0 /\ Ticked(TB).StatPend = TB.StatPend
    BY <1>4, TickedBlock
  <2>2. /\ TB.Dly # 1 => Ticked(TB).StatPend = TB.StatPend
    BY <1>4, TickedType
  <2>3. TB.Dly = 1 => TB.Stat # {}
    BY <1>4 DEF BlockOk
  <2>4. TB.Dly > 1 => Ticked(TB).Dly = TB.Dly - 1
    <3>1. SUFFICES ASSUME TB.Dly > 1 PROVE Ticked(TB).Dly = TB.Dly - 1
      OBVIOUS
    <3>2. Ticked(TB) = [TB EXCEPT !.Dly = @ - 1]
      BY <1>5, <3>1 DEF Ticked
    <3> QED
      BY <1>4, <3>2 DEF TCB
  <2> QED
    BY <1>4, <2>1, <2>2, <2>3, <2>4
<1>7. owed' \in Nat /\ (owed = 0 => owed' = 0) /\ (owed # 0 => owed' = owed - 1)
  BY <1>2, <1>3 DEF Less1, Lesser
<1>8. waited' \in Nat /\ (thr = "wait" => waited' <= waited + 1 /\ waited' <= HeadTime)
  BY <1>2, <1>3 DEF Lesser
<1>9. Elapsed \in Nat /\ Elapsed' \in Nat /\ Elapsed' <= Elapsed + 1
  BY <1>2, <1>3, <1>8 DEF Elapsed
<1>10. InTime'
  <2>1. owed' + Elapsed' <= owed + Elapsed \/ owed' = 0
    BY <1>3, <1>7, <1>9, OneLess
  <2> QED
    BY <1>1, <1>2, <1>7, <1>9, <2>1, StaysInTime
<1>11. Timed'
  <2>1. thr' = "wait" /\ next_timeout' = <<>> => TB'.Dly = 0 /\ TB'.StatPend = "OK"
    BY <1>1, <1>2, <1>6 DEF Timed
  <2> QED
    BY <1>1, <1>2, <1>7, <1>8, <2>1 DEF Timed
<1>12. ASSUME thr' = "wait"
       PROVE  /\ waited' <= HeadTime' /\ (next_timeout' # <<>> => HeadTime' > 0)
              /\ TB'.Stat # {} => TB'.Dly = HeadTime' - waited' /\ (HeadTime' > 0 => TB'.Dly > 0)
              /\ TB'.StatPend = "TO" => waited' = HeadTime'
  <2>1. /\ thr = "wait" /\ waited <= HeadTime /\ (next_timeout # <<>> => HeadTime > 0)
        /\ TB.Stat # {} => TB.Dly = HeadTime - waited /\ (HeadTime > 0 => TB.Dly > 0)
        /\ TB.StatPend = "TO" => waited = HeadTime
    BY <1>1, <1>2, <1>12 DEF Clocked
  <2>2. waited' = IF waited + 1 < HeadTime THEN waited + 1 ELSE HeadTime
    BY <1>2, <2>1 DEF Lesser
  <2>3. TB'.Stat # {} => TB'.Dly = HeadTime - waited' /\ (HeadTime > 0 => TB'.Dly > 0)
    BY <1>3, <1>5, <1>6, <2>1, <2>2
  <2>4. TB'.StatPend = "TO" => waited' = HeadTime
    BY <1>3, <1>5, <1>6, <2>1, <2>2
  <2> QED
    BY <1>2, <1>3, <1>8, <2>1, <2>3, <2>4
<1>13. Clocked'
  BY <1>10, <1>12 DEF Clocked, InTime
<1> QED
  BY <1>11, <1>13 DEF TimedInv

\* What the thread's block is while it sleeps.
LEMMA FetchSleeps ==
    ASSUME CallInv, Timed, os.Cur = Tcpip, thr = "fetch", os' = OSQPend(os, "mbox", HeadTime),
           ~(OSQEntries(os, "mbox") > 0)
    PROVE  TB'.Dly = HeadTime /\ TB'.StatPend = "OK"
<1> DEFINE tb == Waiter(TB, "mbox", "Q", HeadTime)
<1>1. TB.EventPtr = None /\ Packed
  BY TcpTurn DEF CallInv
<1>2. Shows(os, TB, CB, MailBox, Box, Tokens) /\ TB \in TCB(Ptrs)
  BY Seen, Turns
<1>3. Mail = <<>>
  <2>1. Mail \in Seq(Packets) /\ Len(Mail) \in Nat
    BY <1>1 DEF Packed
  <2> QED
    BY <2>1, EmptySeq DEF OSQEntries, Mail, MailBox
<1>4. HeadTime \in Nat /\ "mbox" \in Event /\ os.ev["mbox"].Ptr.q = <<>>
  BY <1>3, ListIs, Three DEF Mail, MailBox
<1>5. Shows(os', tb, CB, MailBox, Box, Tokens)
  BY <1>1, <1>2, <1>4, TcpSleeps
<1>6. tb.Dly = HeadTime /\ tb.StatPend = "OK"
  <2>1. "Q" \in Stats
    BY DEF Stats, PendAny
  <2> QED
    BY <1>2, <1>4, <2>1, WaiterType
<1> HIDE DEF tb
<1> QED
  BY <1>5, <1>6, SeenNext

\* tcpip_thread's pend keeps the timers' invariant.
LEMMA FetchTimed ==
    ASSUME CallInv, TimedInv, Fetch
    PROVE  TimedInv'
<1>1. Timed /\ os.Cur = Tcpip /\ thr = "fetch" /\ waited' = 0
  BY DEF TimedInv, Fetch, Runs
<1>2. Elapsed = 0 /\ waited' \in Nat /\ 0 \in Nat
  BY <1>1 DEF Elapsed
<1>3. CASE next_timeout # <<>> /\ HeadTime = 0 /\ FireHead
  <2>1. Elapsed = HeadTime
    BY <1>2, <1>3
  <2> QED
    BY <1>2, <1>3, <2>1, FireTimed
<1>4. CASE Took(Oldest(os, "mbox"), 0)
  BY <1>2, <1>4, TookTimed
<1>5. CASE /\ next_timeout = <<>> \/ HeadTime > 0
           /\ os' = OSQPend(os, "mbox", HeadTime) /\ ~(OSQEntries(os, "mbox") > 0)
           /\ thr' = "wait" /\ UNCHANGED <<msg, vT>>
  <2>1. TB'.Dly = HeadTime /\ TB'.StatPend = "OK"
    BY <1>1, <1>5, FetchSleeps
  <2>2. next_timeout' = next_timeout /\ order' = order /\ owed' = owed
    BY <1>5 DEF vT
  <2>3. thr # "wait" /\ thr' = "wait" /\ waited' = 0 /\ (next_timeout = <<>> \/ HeadTime > 0)
    BY <1>1, <1>5
  <2> QED
    BY <2>1, <2>2, <2>3, SleepTimed
<1> QED
  BY <1>3, <1>4, <1>5 DEF Fetch

\* Its return from the pend keeps the timers' invariant.
LEMMA FetchReturnsTimed ==
    ASSUME CallInv, TimedInv, FetchReturns
    PROVE  TimedInv'
<1>1. Timed /\ Clocked /\ thr = "wait" /\ waited' = 0
  BY DEF TimedInv, FetchReturns
<1>2. Elapsed = waited /\ waited' \in Nat /\ waited \in Nat
  BY <1>1 DEF Elapsed, Timed
<1>3. CASE TB.StatPend = "TO" /\ FireHead
  <2>1. next_timeout # <<>>
    BY <1>1, <1>3 DEF Timed
  <2>2. waited = HeadTime
    BY <1>1, <1>3 DEF Clocked
  <2>3. Elapsed = HeadTime
    BY <1>2, <2>2
  <2> QED
    BY <1>2, <1>3, <2>1, <2>3, FireTimed
<1>4. CASE Took(TB.Msg, waited)
  BY <1>2, <1>4, TookTimed
<1> QED
  BY <1>3, <1>4 DEF FetchReturns, TB

\* A timer that arms itself again keeps the timers' invariant.
LEMMA PlainTimerTimed ==
    ASSUME TimedInv, PlainTimer
    PROVE  TimedInv'
<1>1. PICK h \in Handlers : Expires(h) /\ ArmTimer(h) /\ waited' = waited
  BY DEF PlainTimer
<1>2. thr = "timer" /\ msg = h /\ thr' = "fetch" /\ Timed
  BY <1>1 DEF Expires, TimedInv
<1>3. h \notin Armed(next_timeout) /\ waited' \in Nat
  BY <1>1, <1>2 DEF Timed
<1>4. thr # "wait" /\ thr' \notin {"wait", "timer"}
  BY <1>2
<1> QED
  BY <1>1, <1>3, <1>4, ArmTimed

\* The TCP timer, armed again while a connection is active, keeps it.
LEMMA TcpTimerTimed ==
    ASSUME TimedInv, tcpip_tcp_timer
    PROVE  TimedInv'
<1>1. /\ thr = "timer" /\ msg = "tcpip_tcp_timer" /\ thr' = "fetch" /\ Timed /\ waited' = waited
      /\ ArmTimer("tcpip_tcp_timer") \/ UNCHANGED vT
  BY DEF tcpip_tcp_timer, Expires, TimedInv
<1>2. "tcpip_tcp_timer" \notin Armed(next_timeout) /\ waited' \in Nat /\ "tcpip_tcp_timer" \in Handlers
  BY <1>1, Times DEF Timed
<1>3. thr # "wait" /\ thr' \notin {"wait", "timer"}
  BY <1>1
<1>4. CASE ArmTimer("tcpip_tcp_timer")
  BY <1>2, <1>3, <1>4, ArmTimed
<1>5. CASE UNCHANGED vT
  <2>1. next_timeout' = next_timeout /\ order' = order /\ owed' = owed
    BY <1>5 DEF vT
  <2> QED
    BY <1>1, <1>3, <2>1, QuietTimed
<1> QED
  BY <1>1, <1>4, <1>5

\* do_connect, which starts the TCP timer, keeps the timers' invariant.
LEMMA ConnectTimed ==
    ASSUME TimedInv, do_connect
    PROVE  TimedInv'
<1>1. /\ thr = "handle" /\ thr' = "fetch" /\ Timed /\ waited' = waited
      /\ \/ "tcpip_tcp_timer" \notin Armed(next_timeout) /\ ArmTimer("tcpip_tcp_timer")
         \/ UNCHANGED vT
  BY DEF do_connect, Asked, Handles, TimedInv
<1>2. waited' \in Nat /\ "tcpip_tcp_timer" \in Handlers
  BY <1>1, Times DEF Timed
<1>3. thr # "wait" /\ thr' \notin {"wait", "timer"}
  BY <1>1
<1>4. CASE "tcpip_tcp_timer" \notin Armed(next_timeout) /\ ArmTimer("tcpip_tcp_timer")
  BY <1>2, <1>3, <1>4, ArmTimed
<1>5. CASE UNCHANGED vT
  <2>1. next_timeout' = next_timeout /\ order' = order /\ owed' = owed
    BY <1>5 DEF vT
  <2> QED
    BY <1>1, <1>3, <2>1, QuietTimed
<1> QED
  BY <1>1, <1>4, <1>5

\* The timers' part is kept by every step.
LEMMA TimedKept ==
    ASSUME CallInv, TimedInv, [Next]_vars
    PROVE  TimedInv'
<1>1. CASE Fetch
  BY <1>1, FetchTimed
<1>2. CASE FetchReturns
  BY <1>2, FetchReturnsTimed
<1>3. CASE PlainTimer
  BY <1>3, PlainTimerTimed
<1>4. CASE tcpip_tcp_timer
  BY <1>4, TcpTimerTimed
<1>5. CASE do_connect
  BY <1>5, ConnectTimed
<1>6. CASE newconn \/ do_write \/ do_recv \/ do_close \/ DrainReturns \/ ethernet_input
  <2>1. UNCHANGED <<waited, vT>> /\ thr \in {"handle", "drain"} /\ thr' \in {"fetch", "drain"}
    <3>1. CASE newconn \/ do_write \/ do_recv
      BY <3>1 DEF newconn, do_write, do_recv, Asked, Handles
    <3>2. CASE do_close
      BY <3>2 DEF do_close, Handles
    <3>3. CASE DrainReturns
      BY <3>3 DEF DrainReturns
    <3>4. CASE ethernet_input
      BY <3>4 DEF ethernet_input, Handles
    <3> QED
      BY <1>6, <3>1, <3>2, <3>3, <3>4
  <2>2. next_timeout' = next_timeout /\ order' = order /\ owed' = owed /\ waited' = waited
    BY <2>1 DEF vT
  <2>3. thr # "wait" /\ thr' \notin {"wait", "timer"}
    BY <2>1
  <2> QED
    BY <2>2, <2>3, QuietTimed
<1>7. CASE \/ netconn_alloc \/ Call \/ Await \/ AwaitReturns \/ Proceed
           \/ Loop \/ netconn_recv \/ RecvFetch \/ RecvReturns \/ tcpip_input \/ UNCHANGED vars
  <2>1. thr' = thr /\ msg' = msg /\ UNCHANGED <<waited, vT>>
    BY <1>7 DEF netconn_alloc, Call, Await, AwaitReturns, Proceed, Loop, netconn_recv, RecvFetch,
                RecvReturns, tcpip_input, vars
  <2>2. Undisturbed
    <3>1. CASE netconn_alloc
      BY <3>1, AllocKeeps
    <3>2. CASE Call
      BY <3>2, CallKeeps
    <3>3. CASE Await \/ AwaitReturns
      BY <3>3, AwaitKeeps
    <3>4. CASE Proceed
      BY <3>4, ProceedLeaves
    <3>5. CASE Loop \/ netconn_recv
      BY <3>5, LoopKeeps
    <3>6. CASE RecvFetch
      BY <3>6, RecvFetchKeeps
    <3>7. CASE RecvReturns
      BY <3>7, RecvReturnsKeeps
    <3>8. CASE tcpip_input
      BY <3>8, InputArrives
    <3>9. CASE UNCHANGED vars
      BY <3>9 DEF vars, Undisturbed, TB
    <3> QED
      BY <1>7, <3>1, <3>2, <3>3, <3>4, <3>5, <3>6, <3>7, <3>8, <3>9
  <2>3. next_timeout' = next_timeout /\ order' = order /\ owed' = owed /\ waited' = waited
    BY <2>1 DEF vT
  <2> QED
    BY <2>1, <2>2, <2>3, QuietTimed
<1>8. CASE Tick
  BY <1>8, TickTimed
<1> QED
  BY <1>1, <1>2, <1>3, <1>4, <1>5, <1>6, <1>7, <1>8 DEF Next, tcpip_thread, tcp_client

\* The invariant is kept by every step.
LEMMA IInvKept ==
    ASSUME IInv, [Next]_vars
    PROVE  IInv'
<1>1. CallInv /\ TimedInv
  BY DEF IInv, TimedInv
<1>2. CallInv'
  BY CallInvKept
<1>3. TimedInv'
  BY <1>1, TimedKept
<1> QED
  BY <1>2, <1>3 DEF IInv, TimedInv

-----------------------------------------------------------------------------
(* The initial state.                                                         *)

Started == OSStart([t \in Task |-> CASE t = Tcpip -> 1 [] t = Client -> 2 [] t = Rest -> 3],
                   [e \in Event |-> IF e = "mbox" THEN OSQCreate(TCPIP_MBOX_SIZE) ELSE Unused])

\* The kernel as OSStart() leaves it, with the three tasks.
LEMMA StartedSteady ==
    /\ Steady(Started) /\ Started.tcb[Tcpip] = NewTCB(1) /\ Started.tcb[Client] = NewTCB(2)
    /\ Started.ev["mbox"].Ptr = [q |-> <<>>, size |-> TCPIP_MBOX_SIZE]
    /\ Started.ev["recvmbox"].Ptr = None /\ Started.ev["op_completed"].Cnt = 0
<1> DEFINE f == [t \in Task |-> CASE t = Tcpip -> 1 [] t = Client -> 2 [] t = Rest -> 3]
           ev == [e \in Event |-> IF e = "mbox" THEN OSQCreate(TCPIP_MBOX_SIZE) ELSE Unused]
           P == {f[t] : t \in DOMAIN f}
           r == Started
<1>1. DOMAIN f = Task /\ \A t \in Task : f[t] = PrioOf(t)
  BY Three DEF PrioOf
<1>2. f[Tcpip] = 1 /\ f[Client] = 2 /\ f[Rest] = 3 /\ Tcpip \in Task /\ Client \in Task /\ Rest \in Task
  BY <1>1, Three
<1>3. P = {1, 2, 3}
  BY <1>1, <1>2, Three
<1>4. Highest(P) = 1
  <2> HIDE DEF f, P
  <2>1. 1 \in P /\ \A q \in P : 1 <= q
    BY <1>3
  <2>2. \E p \in P : \A q \in P : p <= q
    BY <2>1
  <2>3. Highest(P) \in P /\ \A q \in P : Highest(P) <= q
    BY <2>2 DEF Highest
  <2> HIDE DEF P
  <2> QED
    BY <1>3, <2>1, <2>3
<1>5. /\ r.tcb = [t \in Task |-> NewTCB(IF t \in DOMAIN f THEN f[t] ELSE OS_TASK_IDLE_PRIO)]
      /\ r.PrioTbl = [p \in Prios |-> IF \E t \in DOMAIN f : f[t] = p
                                      THEN CHOOSE t \in DOMAIN f : f[t] = p ELSE None]
      /\ r.Rdy = P /\ r.ev = ev /\ r.Cur = (CHOOSE t \in DOMAIN f : f[t] = Highest(P))
      /\ r.PrioCur = Highest(P) /\ r.IntNesting = 0 /\ r.LockNesting = 0
      /\ r = [tcb |-> r.tcb, PrioTbl |-> r.PrioTbl, Rdy |-> r.Rdy, ev |-> r.ev, Cur |-> r.Cur,
              PrioCur |-> r.PrioCur, IntNesting |-> r.IntNesting, LockNesting |-> r.LockNesting]
  <2>1. r = OSStart(f, ev)
    BY DEF Started
  <2> HIDE DEF r, f, ev
  <2> QED
    BY <2>1 DEF OSStart
<1> HIDE DEF f, ev, P, r
<1>6. r.Cur = Tcpip
  BY <1>1, <1>2, <1>4, <1>5, Three
<1>7. \A t \in Task : r.tcb[t] = NewTCB(PrioOf(t)) /\ r.PrioTbl[PrioOf(t)] = t
  <2>1. SUFFICES ASSUME NEW t \in Task PROVE r.tcb[t] = NewTCB(PrioOf(t)) /\ r.PrioTbl[PrioOf(t)] = t
    OBVIOUS
  <2>2. \A u \in Task : f[u] = PrioOf(t) => u = t
    BY <1>1, <1>2, Three
  <2> QED
    BY <1>1, <1>5, <2>2, Three
<1>8. /\ ev["mbox"] = OSQCreate(TCPIP_MBOX_SIZE) /\ ev["recvmbox"] = Unused /\ ev["op_completed"] = Unused
      /\ DOMAIN ev = Event
  BY Three DEF ev
<1>9. ev \in [Event -> ECB(Ptrs)]
  <2>1. TCPIP_MBOX_SIZE \in Nat /\ <<>> \in Seq(Msgs \cup SegOrEOF)
    BY Nones
  <2>2. [q |-> <<>>, size |-> TCPIP_MBOX_SIZE] \in Ptrs /\ None \in Ptrs
    BY <2>1 DEF Ptrs, Queues
  <2>3. OSQCreate(TCPIP_MBOX_SIZE) \in ECB(Ptrs) /\ Unused \in ECB(Ptrs)
    BY <2>2 DEF OSQCreate, Unused, ECB
  <2> QED
    BY <2>3, Three DEF ev
<1>10. \A t \in Task : /\ NewTCB(PrioOf(t)) \in TCB(Ptrs) /\ NewTCB(PrioOf(t)).Prio = PrioOf(t)
                       /\ NewTCB(PrioOf(t)).Stat = {} /\ NewTCB(PrioOf(t)).Dly = 0
                       /\ NewTCB(PrioOf(t)).StatPend = "OK" /\ NewTCB(PrioOf(t)).EventPtr = None
                       /\ NewTCB(PrioOf(t)).Msg = None
  BY Three, NoneIsPtr DEF NewTCB, TCB
<1>11. r \in KernelState(Ptrs)
  <2>1. r.tcb \in [Task -> TCB(Ptrs)]
    BY <1>1, <1>5, <1>10
  <2>2. r.PrioTbl \in [Prios -> Task \cup {None, Reserved}]
    BY <1>1, <1>5
  <2>3. r.Rdy \in SUBSET Prios /\ r.PrioCur \in Prios /\ r.Cur \in Task
    BY <1>2, <1>3, <1>4, <1>5, <1>6, Three
  <2>4. r.IntNesting \in Nat /\ r.LockNesting \in Nat
    BY <1>5
  <2> QED
    BY <1>5, <1>9, <2>1, <2>2, <2>3, <2>4 DEF KernelState
<1>12. Blocks3(r)
  <2>1. \A t \in Task : BlockOk(r.tcb[t]) /\ Unanswered(r.tcb[t])
    BY <1>7, <1>10 DEF BlockOk, Unanswered
  <2> QED
    BY <1>2, <1>7, <1>10, <2>1 DEF Blocks3
<1>13. ReadyOnes(r)
  BY <1>3, <1>5, <1>7, <1>10, Three DEF ReadyOnes
<1>14. ListedOnes(r)
  <2>1. \A e \in Event : r.ev[e].Tbl = {}
    BY <1>5, <1>8, Three DEF OSQCreate, Unused
  <2>2. \A t \in Task : ~Listed(r.tcb[t])
    BY <1>7, <1>10 DEF Listed
  <2> QED
    BY <2>1, <2>2 DEF ListedOnes
<1>15. Urgent(r) = Tcpip
  BY <1>2, <1>7, <1>10 DEF Urgent
<1>16. Steady(r)
  BY <1>4, <1>5, <1>6, <1>11, <1>12, <1>13, <1>14, <1>15, Three DEF Steady, Tables, MayPend
<1>17. r.tcb[Tcpip] = NewTCB(1) /\ r.tcb[Client] = NewTCB(2)
  BY <1>2, <1>7, Three
<1>18. /\ r.ev["mbox"].Ptr = [q |-> <<>>, size |-> TCPIP_MBOX_SIZE]
       /\ r.ev["recvmbox"].Ptr = None /\ r.ev["op_completed"].Cnt = 0
  BY <1>5, <1>8 DEF OSQCreate, Unused
<1> QED
  BY <1>16, <1>17, <1>18 DEF r

\* The list sys_timeouts_init() makes: the two timers, the later one behind.
FirstTimers(s, n) ==
    /\ s \in List /\ Len(s) = 2 /\ n \in {0, 1} /\ (IP_TMR_INTERVAL <= ARP_TMR_INTERVAL <=> n = 1)
    /\ s[n + 1].h = "arp_timer" /\ Due(s, n + 1) = ARP_TMR_INTERVAL
    /\ s[2 - n].h = "ip_reass_timer" /\ Due(s, 2 - n) = IP_TMR_INTERVAL

\* The list sys_timeouts_init makes, in whatever order its timers are due.
LEMMA FirstList == \E n : FirstTimers(sys_timeouts_init, n)
<1> DEFINE a == sys_timeout(<<>>, IP_TMR_INTERVAL, "ip_reass_timer")
           s == sys_timeout(a, ARP_TMR_INTERVAL, "arp_timer")
<1>1. /\ "ip_reass_timer" \in Handlers /\ "arp_timer" \in Handlers
      /\ IP_TMR_INTERVAL \in Nat /\ ARP_TMR_INTERVAL \in Nat
  BY Times DEF Handlers, Interval
<1>2. <<>> \in List /\ Len(<<>>) = 0
  BY DEF List
<1>3. PICK n0 : Inserted(a, <<>>, IP_TMR_INTERVAL, "ip_reass_timer", n0)
  BY <1>1, <1>2, TimeoutInserts
<1> HIDE DEF a
<1>4. a \in List /\ Len(a) = 1 /\ a[1].h = "ip_reass_timer" /\ Due(a, 1) = IP_TMR_INTERVAL
  <2>1. /\ a \in List /\ Len(a) = Len(<<>>) + 1 /\ n0 \in 0 .. Len(<<>>)
        /\ \A i \in 1 .. Len(<<>>) + 1 :
            /\ a[i].h = IF i <= n0 THEN <<>>[i].h ELSE IF i = n0 + 1 THEN "ip_reass_timer" ELSE <<>>[i - 1].h
            /\ Due(a, i) = IF i <= n0 THEN Due(<<>>, i)
                           ELSE IF i = n0 + 1 THEN IP_TMR_INTERVAL ELSE Due(<<>>, i - 1)
    BY <1>3 DEF Inserted
  <2>2. n0 = 0 /\ Len(a) = 1 /\ 1 \in 1 .. Len(<<>>) + 1
    BY <1>2, <2>1
  <2> QED
    BY <2>1, <2>2
<1>5. PICK n : Inserted(s, a, ARP_TMR_INTERVAL, "arp_timer", n)
  BY <1>1, <1>4, TimeoutInserts
<1> HIDE DEF s
<1>6. /\ s \in List /\ Len(s) = 2 /\ n \in {0, 1} /\ (IP_TMR_INTERVAL <= ARP_TMR_INTERVAL <=> 1 <= n)
      /\ \A i \in 1 .. 2 :
            /\ s[i].h = IF i <= n THEN a[i].h ELSE IF i = n + 1 THEN "arp_timer" ELSE a[i - 1].h
            /\ Due(s, i) = IF i <= n THEN Due(a, i) ELSE IF i = n + 1 THEN ARP_TMR_INTERVAL ELSE Due(a, i - 1)
  <2>1. /\ s \in List /\ Len(s) = Len(a) + 1 /\ n \in 0 .. Len(a)
        /\ \A i \in 1 .. Len(a) : Due(a, i) <= ARP_TMR_INTERVAL <=> i <= n
        /\ \A i \in 1 .. Len(a) + 1 :
            /\ s[i].h = IF i <= n THEN a[i].h ELSE IF i = n + 1 THEN "arp_timer" ELSE a[i - 1].h
            /\ Due(s, i) = IF i <= n THEN Due(a, i) ELSE IF i = n + 1 THEN ARP_TMR_INTERVAL ELSE Due(a, i - 1)
    BY <1>5 DEF Inserted
  <2>2. Len(a) + 1 = 2 /\ n \in {0, 1} /\ 1 \in 1 .. Len(a)
    BY <1>4, <2>1
  <2>3. Due(a, 1) <= ARP_TMR_INTERVAL <=> 1 <= n
    BY <2>1, <2>2
  <2> QED
    BY <1>4, <2>1, <2>2, <2>3
<1>7. CASE n = 0
  <2>1. s[1].h = "arp_timer" /\ Due(s, 1) = ARP_TMR_INTERVAL
    BY <1>6, <1>7
  <2>2. s[2].h = "ip_reass_timer" /\ Due(s, 2) = IP_TMR_INTERVAL
    <3>1. s[2].h = a[2 - 1].h /\ Due(s, 2) = Due(a, 2 - 1) /\ 2 - 1 = 1
      BY <1>6, <1>7
    <3> QED
      BY <1>4, <3>1
  <2>3. FirstTimers(s, 0)
    BY <1>6, <1>7, <2>1, <2>2 DEF FirstTimers
  <2> QED
    BY <2>3 DEF s, a, sys_timeouts_init
<1>8. CASE n = 1
  <2>1. s[1].h = "ip_reass_timer" /\ Due(s, 1) = IP_TMR_INTERVAL
    <3>1. s[1].h = a[1].h /\ Due(s, 1) = Due(a, 1)
      BY <1>6, <1>8
    <3> QED
      BY <1>4, <3>1
  <2>2. s[2].h = "arp_timer" /\ Due(s, 2) = ARP_TMR_INTERVAL
    BY <1>6, <1>8
  <2>3. FirstTimers(s, 1)
    BY <1>6, <1>8, <2>1, <2>2 DEF FirstTimers
  <2> QED
    BY <2>3 DEF s, a, sys_timeouts_init
<1> QED
  BY <1>6, <1>7, <1>8

\* The timers' invariant holds at the start.
LEMMA InitTimed == Init => TimedInv
<1> SUFFICES ASSUME Init PROVE TimedInv
  OBVIOUS
<1>1. /\ next_timeout = sys_timeouts_init /\ order = <<"ip_reass_timer", "arp_timer">>
      /\ owed = 0 /\ thr = "fetch" /\ waited = 0
  BY DEF Init
<1>2. PICK n : FirstTimers(next_timeout, n)
  BY <1>1, FirstList
<1>3. /\ next_timeout \in List /\ Len(next_timeout) = 2 /\ n \in {0, 1}
      /\ (IP_TMR_INTERVAL <= ARP_TMR_INTERVAL <=> n = 1)
      /\ next_timeout[n + 1].h = "arp_timer" /\ Due(next_timeout, n + 1) = ARP_TMR_INTERVAL
      /\ next_timeout[2 - n].h = "ip_reass_timer" /\ Due(next_timeout, 2 - n) = IP_TMR_INTERVAL
  BY <1>2 DEF FirstTimers
<1>4. DOMAIN next_timeout = {1, 2}
  <2>1. DOMAIN next_timeout = 1 .. 2
    BY <1>3 DEF List
  <2> QED
    BY <2>1
<1>5. /\ order \in Seq(Handlers) /\ DOMAIN order = {1, 2} /\ order[1] = "ip_reass_timer" /\ order[2] = "arp_timer"
  BY <1>1 DEF Handlers
<1>6. IP_TMR_INTERVAL \in Nat /\ ARP_TMR_INTERVAL \in Nat
      /\ Interval["ip_reass_timer"] = IP_TMR_INTERVAL /\ Interval["arp_timer"] = ARP_TMR_INTERVAL
  BY Times DEF Handlers, Interval
<1>7. \/ /\ n = 1 /\ next_timeout[1].h = "ip_reass_timer" /\ next_timeout[2].h = "arp_timer"
         /\ Due(next_timeout, 1) = IP_TMR_INTERVAL /\ Due(next_timeout, 2) = ARP_TMR_INTERVAL
      \/ /\ n = 0 /\ next_timeout[1].h = "arp_timer" /\ next_timeout[2].h = "ip_reass_timer"
         /\ Due(next_timeout, 1) = ARP_TMR_INTERVAL /\ Due(next_timeout, 2) = IP_TMR_INTERVAL
         /\ ~(IP_TMR_INTERVAL <= ARP_TMR_INTERVAL)
  <2>1. CASE n = 1
    <3>1. n + 1 = 2 /\ 2 - n = 1
      BY <2>1
    <3> QED
      BY <1>3, <2>1, <3>1
  <2>2. CASE n = 0
    <3>1. n + 1 = 1 /\ 2 - n = 2
      BY <2>2
    <3> QED
      BY <1>3, <2>2, <3>1
  <2> QED
    BY <1>3, <2>1, <2>2
<1>8. Armed(next_timeout) = {"ip_reass_timer", "arp_timer"}
  BY <1>4, <1>7 DEF Armed
<1>9. \A i, j \in DOMAIN next_timeout : next_timeout[i].h = next_timeout[j].h => i = j
  BY <1>4, <1>7
<1>10. /\ \A i, j \in DOMAIN order : order[i] = order[j] => i = j
       /\ \A h \in Handlers : (\E i \in DOMAIN order : order[i] = h) <=> h \in Armed(next_timeout)
  BY <1>5, <1>8
<1>11. Timed
  BY <1>1, <1>3, <1>5, <1>9, <1>10 DEF Timed, List
<1>12. \A i \in DOMAIN next_timeout :
            /\ Due(next_timeout, i) <= Interval[next_timeout[i].h]
            /\ next_timeout[i].h # "tcpip_tcp_timer"
  BY <1>4, <1>6, <1>7
<1>13. ASSUME NEW i \in DOMAIN next_timeout, NEW j \in DOMAIN next_timeout,
              NEW a \in DOMAIN order, NEW b \in DOMAIN order,
              i < j, Due(next_timeout, i) = Due(next_timeout, j),
              order[a] = next_timeout[i].h, order[b] = next_timeout[j].h
       PROVE  a < b
  <2>1. i = 1 /\ j = 2
    BY <1>4, <1>13
  <2>2. next_timeout[1].h = "ip_reass_timer" /\ next_timeout[2].h = "arp_timer"
    BY <1>6, <1>7, <1>13, <2>1
  <2>3. a = 1 /\ b = 2
    BY <1>5, <1>13, <2>1, <2>2
  <2> QED
    BY <2>3
<1>14. Clocked
  BY <1>1, <1>12, <1>13 DEF Clocked
<1> QED
  BY <1>11, <1>14 DEF TimedInv

\* The invariant of the calls holds at the start.
LEMMA InitCalls == Init => CallInv
<1> SUFFICES ASSUME Init PROVE CallInv
  OBVIOUS
<1>1. /\ os = Started /\ thr = "fetch" /\ msg = None /\ inpkts = 0
      /\ conn = NoConn /\ blocks = Blocks /\ cli = "alloc"
      /\ api = [fn |-> "newconn", err |-> "OK"] /\ buf = NoBuf /\ lost = FALSE
  BY DEF Init, Started
<1>2. /\ Steady(os) /\ TB = NewTCB(1) /\ CB = NewTCB(2)
      /\ MailBox = [q |-> <<>>, size |-> TCPIP_MBOX_SIZE] /\ Mail = <<>>
      /\ Box = None /\ Tokens = 0
  BY <1>1, StartedSteady DEF TB, CB, MailBox, Mail, Box, Tokens
<1>3. /\ TB.EventPtr = None /\ TB.Msg = None /\ ~Listed(TB)
      /\ CB.EventPtr = None /\ CB.Msg = None /\ ~Listed(CB)
  BY <1>2 DEF NewTCB, Listed
<1>4. /\ conn.last_err = "OK" /\ conn.state = "NONE" /\ conn.recvmbox = FALSE /\ conn.current_msg = FALSE
      /\ conn.pcb = "NULL" /\ conn.fin = FALSE /\ conn.snd = NoSnd /\ conn.rcvd = 0 /\ conn.read = 0
      /\ api.fn = "newconn" /\ api.err = "OK" /\ buf = 0
  BY <1>1 DEF NoConn, NoBuf
<1>5. ~InCall
  BY <1>1 DEF InCall
<1>6. Typed
  <2>1. NoSnd \in Snd /\ 0 \in 0 .. Segments /\ 0 \in 0 .. MEMP_NUM_TCPIP_MSG_INPKT /\ Blocks \in 0 .. Blocks
    BY Nones, SynSnd
  <2>2. conn \in ConnType
    BY <1>1, <2>1 DEF NoConn, ConnType
  <2>3. api \in ApiType
    BY <1>1 DEF ApiType, Calls
  <2> QED
    BY <1>1, <1>4, <2>1, <2>2, <2>3 DEF Typed
<1>7. Where
  BY <1>1, <1>3 DEF Where
<1>8. Packed
  <2>1. Mail \in Seq(Packets) /\ Len(Mail) = 0
    BY <1>2
  <2> QED
    BY <1>1, <1>2, <1>3, <2>1, Nones DEF Packed, Count
<1>9. Once
  BY <1>1, <1>2, <1>3, <1>4, Nones DEF Once, Count
<1>10. Connected
  BY <1>1, <1>4, <1>5 DEF Connected
<1>11. buf # EOF /\ ~Ending
  BY <1>4, <1>5, Nones DEF Ending, NoBuf
<1>12. Ended /\ Held
  BY <1>4, <1>5, <1>11 DEF Ended, Held
<1>13. Boxed
  BY <1>1, <1>2, <1>4 DEF Boxed
<1>14. Streamed
  BY <1>4 DEF Streamed, Base
<1> QED
  BY <1>2, <1>6, <1>7, <1>8, <1>9, <1>10, <1>12, <1>13, <1>14 DEF CallInv

\* The invariant holds in every state.
LEMMA Invariant == Spec => []IInv
<1>1. Init => IInv
  BY InitCalls, InitTimed DEF IInv, TimedInv
<1>2. IInv /\ [Next]_vars => IInv'
  BY IInvKept
<1> QED
  BY <1>1, <1>2, PTL DEF Spec

-----------------------------------------------------------------------------
(* Calls.                                                                     *)

\* The semaphore's wait list has the client in it, or nobody.
LEMMA SemList ==
    ASSUME CallInv, cli = "asleep"
    PROVE  os.ev["op_completed"].Tbl = {} <=> ~Listed(CB)
<1>1. Where /\ Tables(os)
  BY DEF CallInv, Steady
<1>2. CB.EventPtr = "op_completed" /\ TB.EventPtr # "op_completed" /\ os.tcb[Rest].EventPtr # "op_completed"
  BY <1>1, Nones, Three DEF Where, Tables, Blocks3
<1> DEFINE w == os.ev["op_completed"].Tbl
<1>3. w \subseteq 0 .. 3 /\ 0 \notin w
  <2>1. os.ev["op_completed"] \in ECB(Ptrs)
    BY <1>1, Three DEF Tables, KernelState
  <2> QED
    BY <1>1, <2>1, Three DEF ECB, Tables, ListedOnes
<1>4. (1 \in w <=> TB.EventPtr = "op_completed" /\ Listed(TB)) /\ (2 \in w <=> Listed(CB))
      /\ (3 \in w <=> os.tcb[Rest].EventPtr = "op_completed" /\ Listed(os.tcb[Rest]))
  BY <1>1, <1>2, Three DEF Tables, ListedOnes, TB, CB
<1> HIDE DEF w
<1>5. w = {} <=> ~Listed(CB)
  BY <1>2, <1>3, <1>4
<1> QED
  BY <1>5 DEF w

\* The inductive invariant gives the property of the calls.
LEMMA SoundCalls == IInv => CallsSound
<1> SUFFICES ASSUME IInv PROVE CallsSound
  OBVIOUS
<1>1. CallInv /\ Timed /\ Typed /\ Where /\ Packed /\ Once /\ Boxed /\ Tables(os)
  BY DEF IInv, CallInv, Steady
<1>2. Mail \in Seq(Packets) /\ Len(Mail) \in Nat /\ DOMAIN Mail = 1 .. Len(Mail)
  BY <1>1 DEF Packed
<1>3. \A i \in DOMAIN Mail : Mail[i] \in Packets
  BY <1>2
<1>4. TypeOK
  <2>1. os.Cur \in Task
    BY <1>1 DEF Tables, KernelState
  <2>2. Mail \in Seq(Msgs)
    BY <1>2 DEF Msgs
  <2>3. Box # None => Received \in Seq(1 .. Segments \cup {EOF})
    BY <1>1 DEF Boxed, SegOrEOF
  <2>4. Tokens \in 0 .. 1
    BY <1>1 DEF Once, Count
  <2>5. msg \in Msgs \cup Handlers \cup {None}
    BY <1>1 DEF Where
  <2> QED
    BY <1>1, <2>1, <2>2, <2>3, <2>4, <2>5
       DEF TypeOK, Typed, Timed, ConnType, ApiType, MailBox, Mail, Box, Received, Tokens
<1>5. AnsweredOnce
  <2>1. {i \in DOMAIN Mail : Mail[i] = "API"} = {}
    BY <1>3, Nones
  <2>2. Cardinality({i \in DOMAIN Mail : Mail[i] = "API"}) = 0
    BY <2>1, FS_EmptySet
  <2>3. Count(cli = "asleep" /\ os.ev["op_completed"].Tbl = {}) = Count(cli = "asleep" /\ ~Listed(CB))
    BY <1>1, SemList
  <2>4. Copies = 0 + Count(TB.Msg = "API") + Count(msg = "API") + Count(thr = "drain")
                 + Count(conn.current_msg) + Tokens + Count(cli = "asleep" /\ ~Listed(CB))
    BY <2>2, <2>3 DEF Copies, TB, Tokens, Mail, MailBox
  <2>5. \A b : Count(b) \in Nat
    BY DEF Count
  <2>6. Tokens \in Nat
    BY <1>1 DEF Once
  <2> QED
    BY <1>1, <2>4, <2>5, <2>6 DEF AnsweredOnce, Once
<1>6. RoomForCalls
  <2>0. \A b : Count(b) \in Nat
    BY DEF Count
  <2>1. Len(Mail) <= inpkts
    BY <1>1, <1>2, <2>0 DEF Packed
  <2>2. inpkts \in 0 .. MEMP_NUM_TCPIP_MSG_INPKT
    BY <1>1 DEF Typed
  <2>3. Len(Mail) < TCPIP_MBOX_SIZE
    BY <1>2, <2>1, <2>2, Nones
  <2> QED
    BY <2>3 DEF RoomForCalls, OSQEntries, Mail, MailBox
<1> QED
  BY <1>4, <1>5, <1>6 DEF CallsSound

\* Every call of the client is made once and answered once: its message is in one place
\* while the client waits, and nowhere otherwise; and tcpip_thread's mailbox has room
\* for it, whatever arrives (sys_arch.c, api_lib.c, api_msg.c, tcpip.c).
THEOREM CallsAnsweredOnce == Spec => []CallsSound
<1>1. IInv => CallsSound
  BY SoundCalls
<1> QED
  BY <1>1, Invariant, PTL

-----------------------------------------------------------------------------
(* The ways the client ends.                                                  *)

\* An answer does not touch the client's mailbox.
LEMMA SignalLeaves ==
    ASSUME CallInv, os' = Signal(os)
    PROVE  Box' = Box
<1>1. Shows(os, TB, CB, MailBox, Box, Tokens) /\ Steady(os) /\ os \in KernelState(Ptrs)
  BY Seen DEF CallInv, Steady, Tables
<1>2. TB.EventPtr # "op_completed"
  BY Nones DEF CallInv, Where
<1>3. CASE CB.EventPtr = "op_completed" /\ Listed(CB)
  <2>1. Shows(os', TB, Answered(CB, None, "SEM", "OK"), MailBox, Box, Tokens)
    BY <1>1, <1>2, <1>3, SignalWakes
  <2> QED
    BY <2>1, SeenNext
<1>4. CASE ~(CB.EventPtr = "op_completed" /\ Listed(CB))
  <2>1. "op_completed" \in Event /\ "recvmbox" \in Event /\ NoWaiter(os, "op_completed")
    BY <1>2, <1>4, Three DEF NoWaiter, TB, CB
  <2>2. os.ev["op_completed"].Tbl = {}
    BY <1>1, <2>1, NobodyListed
  <2>3. os' = os \/ os' = [os EXCEPT !.ev["op_completed"].Cnt = @ + 1]
    BY <2>2 DEF Signal, OSSemPost
  <2>4. os'.ev["recvmbox"] = os.ev["recvmbox"]
    BY <1>1, <2>1, <2>3 DEF KernelState
  <2> QED
    BY <2>4 DEF Box
<1> QED
  BY <1>3, <1>4

\* Nor does a wait of tcpip_thread.
LEMMA WaitLeaves ==
    ASSUME CallInv, Timed, Fetch \/ FetchReturns
    PROVE  Box' = Box
<1>1. Shows(os, TB, CB, MailBox, Box, Tokens)
  BY Seen
<1>2. CASE Fetch /\ os' = os
  BY <1>2 DEF Box
<1>3. CASE Fetch /\ os' = OSQPend(os, "mbox", HeadTime)
  <2>1. os.Cur = Tcpip /\ thr = "fetch" /\ Packed
    BY <1>3 DEF Fetch, Runs, CallInv
  <2>2. /\ TB.EventPtr = None /\ MailBox = [q |-> Mail, size |-> TCPIP_MBOX_SIZE]
        /\ Mail \in Seq(Packets) /\ Mail \in Seq(Letters) /\ TCPIP_MBOX_SIZE \in Nat
    BY <2>1, TcpTurn, Nones DEF Packed, Letters, Msgs
  <2>3. CASE Mail = <<>>
    <3>1. HeadTime \in Nat /\ os.ev["mbox"].Ptr.q = <<>>
      BY <2>3, ListIs DEF Mail, MailBox
    <3>2. Shows(os', Waiter(TB, "mbox", "Q", HeadTime), CB, MailBox, Box, Tokens)
      BY <1>1, <1>3, <2>1, <2>2, <3>1, TcpSleeps
    <3> QED
      BY <3>2, SeenNext
  <2>4. CASE Mail # <<>>
    <3>1. Shows(os, TB, CB, [q |-> Mail, size |-> TCPIP_MBOX_SIZE], Box, Tokens)
      BY <1>1, <2>2
    <3>2. Shows(os', TB, CB, [q |-> Tail(Mail), size |-> TCPIP_MBOX_SIZE], Box, Tokens)
      BY <1>3, <2>2, <2>4, <3>1, MailTaken
    <3> QED
      BY <3>2, SeenNext
  <2> QED
    BY <2>3, <2>4
<1>4. CASE FetchReturns
  <2>1. os.Cur = Tcpip /\ thr = "wait" /\ os' = PendTail(os)
    BY <1>4 DEF FetchReturns, Returns
  <2>2. TB.EventPtr # None
    BY <2>1, TcpTurn
  <2>3. Shows(os', Returned(TB), CB, MailBox, Box, Tokens)
    BY <1>1, <2>1, <2>2, TcpReturns
  <2> QED
    BY <2>3, SeenNext
<1> QED
  BY <1>2, <1>3, <1>4 DEF Fetch

\* The mailbox is full only while it is there, with no drain and no end under way.
LEMMA FullBox ==
    ASSUME CallInv, Clogged
    PROVE  /\ conn.recvmbox /\ ~RecvValid /\ cli \notin {"fetch", "alloc"} /\ thr # "drain" /\ ~Ending
           /\ (cli = "fetching" => ~Listed(CB))
<1>1. Boxed /\ Ended /\ Connected
  BY DEF CallInv
<1>2. conn.recvmbox /\ cli # "fetch" /\ Len(Received) >= Box.size
  BY DEF Clogged, OSQFull, OSQEntries, Received, Box
<1>3. Box = [q |-> Received, size |-> RECVMBOX_SIZE] /\ Received \in Seq(SegOrEOF)
  BY <1>1, <1>2 DEF Boxed
<1>4. Len(Received) \in Nat /\ Len(Received) >= RECVMBOX_SIZE /\ RECVMBOX_SIZE \in Nat /\ RECVMBOX_SIZE > 1
  BY <1>2, <1>3, Nones
<1>5. Len(Received) > 1 /\ Received # <<>>
  BY <1>4
<1>6. ~RecvValid
  BY DEF Clogged, RecvValid, sys_mbox_valid
<1>7. cli # "alloc"
  BY <1>1, <1>2 DEF Connected, NoConn
<1>8. thr # "drain" /\ (cli = "fetching" => ~Listed(CB))
  BY <1>1, <1>5 DEF Boxed
<1>9. ~Ending
  <2>1. SUFFICES ASSUME Ending PROVE FALSE
    OBVIOUS
  <2>2. Len(Received) <= Count(conn.pcb = "NULL")
    BY <1>1, <1>2, <2>1 DEF Ended
  <2>3. Count(conn.pcb = "NULL") \in {0, 1}
    BY DEF Count
  <2> QED
    BY <1>4, <1>5, <2>2, <2>3
<1> QED
  BY <1>2, <1>6, <1>7, <1>8, <1>9

\* What keeps it full.
LEMMA StaysFull ==
    ASSUME Clogged, Box' = Box, conn'.recvmbox = conn.recvmbox, cli' # "fetch"
    PROVE  Clogged'
  BY DEF Clogged, OSQFull, OSQEntries, Box

\* What tcpip_thread does leaves a full mailbox as it is, and a connection that failed
\* stays so.
Kept ==
    /\ conn.last_err \in Fatal => conn'.last_err \in Fatal
    /\ api'.fn = api.fn
    /\ Clogged => Box' = Box /\ conn'.recvmbox = conn.recvmbox

\* The same of a netconn to be.
Alike(c) == c.last_err = conn.last_err /\ c.recvmbox = conn.recvmbox

\* An answer keeps the client stuck.
LEMMA AckKept ==
    ASSUME CallInv, NEW err, os' = Signal(os), api' = [api EXCEPT !.err = err] \/ api' = api,
           Alike(conn')
    PROVE  Kept
<1>1. Box' = Box
  BY SignalLeaves
<1>2. api'.fn = api.fn
  <2>1. api \in ApiType
    BY DEF CallInv, Typed
  <2> QED
    BY <2>1 DEF ApiType
<1> QED
  BY <1>1, <1>2 DEF Kept, Alike

\* So does a step that leaves the kernel and the call alone.
LEMMA StillKept ==
    ASSUME os' = os, api' = api, Alike(conn')
    PROVE  Kept
  BY DEF Kept, Alike, Box

\* So does a failure of the connection.
LEMMA FailKept ==
    ASSUME CallInv, NEW err \in {"RST", "ABRT"}, err_tcp(err)
    PROVE  Kept
<1>1. conn \in ConnType /\ api \in ApiType
  BY DEF CallInv, Typed
<1>2. conn'.last_err = err /\ conn'.recvmbox = conn.recvmbox
  BY <1>1 DEF err_tcp, ConnType
<1>3. api'.fn = api.fn
  BY <1>1 DEF err_tcp, ApiType
<1>4. Clogged => Box' = Box
  <2>1. SUFFICES ASSUME Clogged PROVE Box' = Box
    OBVIOUS
  <2>2. ~RecvValid
    BY <2>1, FullBox
  <2>3. os' = os \/ os' = Signal(os)
    BY <2>2 DEF err_tcp
  <2> QED
    BY <2>3, SignalLeaves DEF Box
<1> QED
  BY <1>2, <1>3, <1>4 DEF Kept, Fatal

\* So does a segment received.
LEMMA ReceiveKept ==
    ASSUME CallInv, NEW c, NEW p, c \in ConnType, Alike(c), recv_tcp(c, p)
    PROVE  Kept
<1>1. api' = api
  BY DEF recv_tcp
<1>2. CASE RecvValid
  <2>1. ~Clogged
    BY <1>2, FullBox
  <2>2. conn' = SafeErr(c, "OK")
    BY <1>2 DEF recv_tcp
  <2>3. conn.last_err \in Fatal => conn'.last_err \in Fatal
    BY <2>2 DEF SafeErr, Alike
  <2> QED
    BY <1>1, <2>1, <2>3 DEF Kept
<1>3. CASE ~RecvValid
  BY <1>1, <1>3, StillKept DEF recv_tcp
<1> QED
  BY <1>2, <1>3

\* So does what is written on.
LEMMA MoreKept ==
    ASSUME CallInv, NEW s, do_writemore(s)
    PROVE  Kept
<1>0. conn \in ConnType
  BY DEF CallInv, Typed
<1>1. CASE Ack("OK") /\ conn' = [conn EXCEPT !.state = "NONE", !.current_msg = FALSE,
                                             !.snd = Enqueued(s)]
  <2>1. Alike(conn')
    BY <1>0, <1>1 DEF Alike, ConnType
  <2> QED
    BY <1>1, <2>1, AckKept DEF Ack
<1>2. CASE /\ conn' = [conn EXCEPT !.state = "WRITE", !.current_msg = TRUE, !.snd = s]
           /\ UNCHANGED <<os, api>>
  <2>1. Alike(conn')
    BY <1>0, <1>2 DEF Alike, ConnType
  <2> QED
    BY <1>2, <2>1, StillKept
<1> QED
  BY <1>1, <1>2 DEF do_writemore

\* So does a close that goes on.
LEMMA ClosingKept ==
    ASSUME CallInv, NEW s, NEW c, c = [conn EXCEPT !.snd = s], do_close_internal(os, c)
    PROVE  Kept
<1>0. conn \in ConnType
  BY DEF CallInv, Typed
<1>1. CASE /\ conn' = [c EXCEPT !.pcb = "NULL", !.snd = NoSnd, !.state = "NONE",
                                !.current_msg = FALSE]
           /\ os' = Signal(os) /\ api' = [api EXCEPT !.err = "OK"]
  <2>1. Alike(conn')
    BY <1>0, <1>1 DEF Alike, ConnType
  <2> QED
    BY <1>1, <2>1, AckKept
<1>2. CASE /\ conn' = [c EXCEPT !.state = "CLOSE", !.current_msg = TRUE]
           /\ os' = os /\ UNCHANGED api
  <2>1. Alike(conn')
    BY <1>0, <1>2 DEF Alike, ConnType
  <2> QED
    BY <1>2, <2>1, StillKept
<1> QED
  BY <1>1, <1>2 DEF do_close_internal

\* So does a connection that goes on with its write or its close.
LEMMA GoesOnKept ==
    ASSUME CallInv, NEW s, GoesOn(s)
    PROVE  Kept
<1>1. CASE conn.state = "WRITE"
  BY <1>1, MoreKept DEF GoesOn
<1>2. CASE conn.state = "CLOSE"
  BY <1>2, ClosingKept DEF GoesOn
<1>3. CASE conn.state # "WRITE" /\ conn.state # "CLOSE"
  <2>1. os' = os /\ conn' = [conn EXCEPT !.snd = s] /\ api' = api
    BY <1>3 DEF GoesOn
  <2>2. Alike(conn')
    <3>1. conn \in ConnType
      BY DEF CallInv, Typed
    <3> QED
      BY <2>1, <3>1 DEF Alike, ConnType
  <2> QED
    BY <2>1, <2>2, StillKept
<1> QED
  BY <1>1, <1>2, <1>3

\* The end of a connection whose mailbox is gone, or not looked at.
LEMMA EndKept ==
    ASSUME CallInv, NEW k, NEW c, EndConn(k, c), c \in ConnType, c.last_err = conn.last_err,
           (k = os /\ c = conn) \/ ~Clogged
    PROVE  Kept
<1>1. api \in ApiType
  BY DEF CallInv, Typed
<1>2. api'.fn = api.fn /\ conn'.last_err = conn.last_err
  <2>1. CASE c.pcb = "NULL"
    BY <1>1, <2>1 DEF EndConn, ApiType
  <2>2. CASE c.pcb # "NULL"
    BY <1>1, <2>2 DEF EndConn, do_close_internal, ApiType, ConnType
  <2> QED
    BY <2>1, <2>2
<1>3. CASE ~Clogged
  BY <1>2, <1>3 DEF Kept
<1>4. CASE k = os /\ c = conn
  <2>1. CASE c.pcb = "NULL"
    <3>1. os' = Signal(os) /\ conn' = conn
      BY <1>4, <2>1 DEF EndConn
    <3>2. Box' = Box
      BY <3>1, SignalLeaves
    <3> QED
      BY <1>2, <3>1, <3>2 DEF Kept
  <2>2. CASE c.pcb # "NULL"
    <3>1. do_close_internal(os, conn)
      BY <1>4, <2>2 DEF EndConn
    <3>2. conn = [conn EXCEPT !.snd = conn.snd]
      BY DEF CallInv, Typed, ConnType
    <3> QED
      BY <3>1, <3>2, ClosingKept
  <2> QED
    BY <2>1, <2>2
<1> QED
  BY <1>3, <1>4

\* The same of each action of tcpip_thread.
LEMMA ThreadKept ==
    ASSUME CallInv, Timed, tcpip_thread
    PROVE  Kept /\ cli' = cli /\ buf' = buf /\ blocks' = blocks
<1>1. cli' = cli /\ buf' = buf /\ blocks' = blocks
  BY DEF tcpip_thread, Fetch, FetchReturns, PlainTimer, tcpip_tcp_timer, newconn, do_connect,
         do_write, do_recv, do_close, DrainReturns, ethernet_input, vC
<1> SUFFICES Kept
  BY <1>1
<1>2. conn \in ConnType /\ api \in ApiType
  BY DEF CallInv, Typed
<1>3. CASE Fetch \/ FetchReturns
  <2>1. Box' = Box
    BY <1>3, WaitLeaves
  <2>2. conn' = conn /\ api' = api
    BY <1>3 DEF Fetch, FetchReturns
  <2> QED
    BY <2>1, <2>2 DEF Kept
<1>4. CASE PlainTimer
  <2>1. os' = os /\ conn' = conn /\ api' = api
    BY <1>4 DEF PlainTimer
  <2> QED
    BY <2>1, StillKept DEF Alike
<1>5. CASE tcpip_tcp_timer
  <2>1. tcp_tmr
    BY <1>5 DEF tcpip_tcp_timer
  <2>2. CASE err_tcp("ABRT")
    BY <2>2, FailKept
  <2>3. CASE conn' = [conn EXCEPT !.snd = Slow(conn.snd)] /\ UNCHANGED <<os, api, lost>>
    <3>1. Alike(conn')
      BY <1>2, <2>3 DEF Alike, ConnType
    <3> QED
      BY <2>3, <3>1, StillKept
  <2>4. CASE GoesOn(Slow(conn.snd))
    BY <2>4, GoesOnKept
  <2> QED
    BY <2>1, <2>2, <2>3, <2>4 DEF tcp_tmr
<1>6. CASE newconn
  <2>1. conn' = [conn EXCEPT !.pcb = "CLOSED"] /\ os' = Signal(os) /\ api' = [api EXCEPT !.err = "OK"]
    BY <1>6 DEF newconn, Ack
  <2>2. Alike(conn')
    BY <1>2, <2>1 DEF Alike, ConnType
  <2> QED
    BY <2>1, <2>2, AckKept
<1>7. CASE do_connect
  <2>1. CASE /\ conn' = [conn EXCEPT !.pcb = "SYN_SENT", !.state = "CONNECT", !.current_msg = TRUE,
                                     !.snd = Syn(@)]
             /\ UNCHANGED <<os, api>>
    <3>1. Alike(conn')
      BY <1>2, <2>1 DEF Alike, ConnType
    <3> QED
      BY <2>1, <3>1, StillKept
  <2>2. CASE Ack("RTE") /\ conn' = conn
    BY <2>2, AckKept DEF Ack, Alike
  <2> QED
    BY <1>7, <2>1, <2>2 DEF do_connect
<1>8. CASE do_write
  <2>1. CASE conn.last_err \in Fatal
    <3>1. Ack(conn.last_err) /\ conn' = conn
      BY <1>8, <2>1 DEF do_write
    <3> QED
      BY <3>1, AckKept DEF Ack, Alike
  <2>2. CASE conn.last_err \notin Fatal /\ conn.pcb = "NULL"
    <3>1. Ack("CONN") /\ conn' = conn
      BY <1>8, <2>2 DEF do_write
    <3> QED
      BY <3>1, AckKept DEF Ack, Alike
  <2>3. CASE conn.last_err \notin Fatal /\ conn.pcb # "NULL"
    BY <1>8, <2>3, MoreKept DEF do_write
  <2> QED
    BY <2>1, <2>2, <2>3
<1>9. CASE do_recv
  <2>1. os' = Signal(os) /\ api' = [api EXCEPT !.err = "OK"]
        /\ conn' = (IF buf = EOF THEN conn ELSE [conn EXCEPT !.read = @ + 1])
    BY <1>9 DEF do_recv, Ack
  <2>2. Alike(conn')
    BY <1>2, <2>1 DEF Alike, ConnType
  <2> QED
    BY <2>1, <2>2, AckKept
<1>10. CASE do_close
  <2>1. CASE RecvValid /\ (api.fn = "delconn" \/ conn.pcb # "NULL")
    <3>1. ~Clogged /\ conn' = conn /\ api' = api
      BY <1>10, <2>1, FullBox DEF do_close
    <3> QED
      BY <3>1 DEF Kept
  <2>2. CASE ~(RecvValid /\ (api.fn = "delconn" \/ conn.pcb # "NULL"))
    <3>1. EndConn(os, conn)
      BY <1>10, <2>2 DEF do_close
    <3> QED
      BY <1>2, <3>1, EndKept
  <2> QED
    BY <2>1, <2>2
<1>11. CASE DrainReturns
  <2>1. EndConn(OSDel(PendTail(os), "recvmbox"), [conn EXCEPT !.recvmbox = FALSE]) /\ thr = "drain"
    BY <1>11 DEF DrainReturns
  <2>2. ~Clogged
    BY <2>1, FullBox
  <2>3. [conn EXCEPT !.recvmbox = FALSE] \in ConnType /\ [conn EXCEPT !.recvmbox = FALSE].last_err = conn.last_err
    BY <1>2 DEF ConnType
  <2> QED
    BY <2>1, <2>2, <2>3, EndKept
<1>12. CASE ethernet_input
  <2>1. CASE UNCHANGED <<os, conn, api, lost>>
    BY <2>1, StillKept DEF Alike
  <2>2. ASSUME NEW w, do_connected(w) PROVE Kept
    <3>1. conn' = [conn EXCEPT !.pcb = "ESTABLISHED", !.state = "NONE", !.current_msg = FALSE,
                               !.snd = SynAcked(@, w)]
          /\ os' = Signal(os) /\ api' = [api EXCEPT !.err = "OK"]
      BY <2>2 DEF do_connected, Ack
    <3>2. Alike(conn')
      BY <1>2, <3>1 DEF Alike, ConnType
    <3> QED
      BY <3>1, <3>2, AckKept
  <2>3. CASE err_tcp("RST")
    BY <2>3, FailKept
  <2>4. CASE conn.rcvd < Segments /\ recv_tcp([conn EXCEPT !.rcvd = @ + 1], conn.rcvd + 1)
    <3>1. conn.rcvd + 1 \in 0 .. Segments
      BY <1>2, <2>4, Nones DEF ConnType
    <3>2. [conn EXCEPT !.rcvd = @ + 1] \in ConnType /\ Alike([conn EXCEPT !.rcvd = @ + 1])
      BY <1>2, <3>1 DEF Alike, ConnType
    <3> QED
      BY <2>4, <3>2, ReceiveKept
  <2>5. CASE recv_tcp([conn EXCEPT !.fin = TRUE], EOF)
    <3>1. [conn EXCEPT !.fin = TRUE] \in ConnType /\ Alike([conn EXCEPT !.fin = TRUE])
      BY <1>2 DEF Alike, ConnType
    <3> QED
      BY <2>5, <3>1, ReceiveKept
  <2>6. CASE tcp_receive
    <3>1. ASSUME NEW s, GoesOn(s) PROVE Kept
      BY <3>1, GoesOnKept
    <3>2. ASSUME NEW s, conn' = [conn EXCEPT !.snd = s], UNCHANGED <<os, api, lost>> PROVE Kept
      <4>1. Alike(conn')
        BY <1>2, <3>2 DEF Alike, ConnType
      <4> QED
        BY <3>2, <4>1, StillKept
    <3> QED
      BY <2>6, <3>1, <3>2 DEF tcp_receive
  <2>7. PICK p \in Packets : IF ~Expected(p) THEN UNCHANGED <<os, conn, api, lost>>
           ELSE CASE p = "SYNACK" -> \E w \in Windows \ {"zero"} : do_connected(w)
                  [] p = "RST" -> err_tcp("RST")
                  [] p = "DATA" -> recv_tcp([conn EXCEPT !.rcvd = @ + 1], conn.rcvd + 1)
                  [] p = "FIN" -> recv_tcp([conn EXCEPT !.fin = TRUE], EOF)
                  [] p = "ACK" -> tcp_receive
    BY <1>12 DEF ethernet_input
  <2>8. CASE ~Expected(p)
    BY <2>1, <2>7, <2>8
  <2>9. CASE Expected(p) /\ p = "SYNACK"
    BY <2>2, <2>7, <2>9
  <2>10. CASE Expected(p) /\ p = "RST"
    BY <2>3, <2>7, <2>10
  <2>11. CASE Expected(p) /\ p = "DATA"
    BY <2>4, <2>7, <2>11 DEF Expected
  <2>12. CASE Expected(p) /\ p = "FIN"
    BY <2>5, <2>7, <2>12
  <2>13. CASE Expected(p) /\ p = "ACK"
    BY <2>6, <2>7, <2>13
  <2> QED
    BY <2>8, <2>9, <2>10, <2>11, <2>12, <2>13 DEF Packets
<1> QED
  BY <1>3, <1>4, <1>5, <1>6, <1>7, <1>8, <1>9, <1>10, <1>11, <1>12 DEF tcpip_thread

\* A block is never freed: without one the client stays where it is.
LEMMA ExhaustedStays ==
    ASSUME IInv, [Next]_vars, Exhausted
    PROVE  Exhausted'
<1>1. CallInv /\ Timed /\ cli = "alloc" /\ blocks = 0
  BY DEF IInv, Exhausted
<1>2. ~tcp_client
  BY <1>1 DEF tcp_client, netconn_alloc, Call, Await, AwaitReturns, Proceed, Loop, netconn_recv,
              RecvFetch, RecvReturns
<1>3. CASE tcpip_thread
  BY <1>1, <1>3, ThreadKept DEF Exhausted
<1>4. CASE tcpip_input \/ Tick \/ UNCHANGED vars
  BY <1>1, <1>4 DEF Exhausted, tcpip_input, Tick, vars, vC
<1> QED
  BY <1>2, <1>3, <1>4 DEF Next

\* Nothing is taken from a full mailbox, nor is the netconn closed.
LEMMA CloggedStays ==
    ASSUME IInv, [Next]_vars, Clogged
    PROVE  Clogged'
<1>1. CallInv /\ Timed /\ conn \in ConnType /\ api.fn \in Calls
  <2>1. CallInv /\ Timed
    BY DEF IInv
  <2> QED
    BY <2>1 DEF CallInv, Typed, ApiType
<1>2. /\ conn.recvmbox /\ ~RecvValid /\ cli \notin {"fetch", "alloc"} /\ ~Ending
      /\ (cli = "fetching" => ~Listed(CB))
  BY <1>1, FullBox
<1>3. CASE tcpip_thread
  <2>1. Box' = Box /\ conn'.recvmbox = conn.recvmbox /\ cli' = cli
    BY <1>1, <1>3, ThreadKept DEF Kept
  <2> QED
    BY <1>2, <2>1, StaysFull
<1>4. CASE Call \/ Await \/ AwaitReturns
  <2>1. conn' = conn /\ cli' # "fetch"
    BY <1>4 DEF Call, Await, AwaitReturns
  <2>2. Box' = Box
    BY <1>1, <1>4, CallKeeps, AwaitKeeps
  <2> QED
    BY <2>1, <2>2, StaysFull
<1>5. CASE Proceed
  <2>1. api.fn # "delconn"
    BY <1>2, <1>5 DEF Ending, InCall, Proceed
  <2>2. os' = os /\ cli' # "fetch"
    BY <1>1, <1>5, <2>1 DEF Proceed, Calls, Calling
  <2>3. conn' = conn \/ \E err : conn' = SafeErr(conn, err)
    BY <1>1, <1>5, <2>1 DEF Proceed, Calls
  <2>4. conn'.recvmbox = conn.recvmbox
    BY <1>1, <2>3 DEF SafeErr, ConnType
  <2> QED
    BY <2>2, <2>4, StaysFull DEF Box
<1>6. CASE Loop \/ netconn_recv
  <2>1. os' = os /\ conn' = conn /\ cli' # "fetch"
    BY <1>2, <1>6 DEF Loop, Calling, netconn_recv
  <2> QED
    BY <2>1, StaysFull DEF Box
<1>7. CASE RecvReturns
  <2>1. Box' = Box
    BY <1>1, <1>7, RecvReturnsKeeps
  <2>2. cli' # "fetch" /\ (conn' = conn \/ conn' = SafeErr(conn, "TIMEOUT"))
    BY <1>7 DEF RecvReturns, Calling
  <2>3. conn'.recvmbox = conn.recvmbox
    BY <1>1, <2>2 DEF SafeErr, ConnType
  <2> QED
    BY <2>1, <2>2, <2>3, StaysFull
<1>8. CASE tcpip_input
  <2>1. Box' = Box
    BY <1>1, <1>8, InputArrives
  <2>2. conn' = conn /\ cli' = cli
    BY <1>8 DEF tcpip_input, vC
  <2> QED
    BY <1>2, <2>1, <2>2, StaysFull
<1>9. CASE Tick
  <2>1. Box' = Box
    BY <1>1, <1>9, TickKeeps
  <2>2. conn' = conn /\ cli' = cli
    BY <1>9 DEF Tick, vC
  <2> QED
    BY <1>2, <2>1, <2>2, StaysFull
<1>10. CASE UNCHANGED vars
  <2>1. os' = os /\ conn' = conn /\ cli' = cli
    BY <1>10 DEF vars, vC
  <2> QED
    BY <1>2, <2>1, StaysFull DEF Box
<1>11. ~netconn_alloc /\ ~RecvFetch
  BY <1>2 DEF netconn_alloc, RecvFetch
<1> QED
  BY <1>3, <1>4, <1>5, <1>6, <1>7, <1>8, <1>9, <1>10, <1>11 DEF Next, tcp_client

\* A failed connection: every call of the loop ends in the loop.
LEMMA SpurnedStays ==
    ASSUME IInv, [Next]_vars, Spurned
    PROVE  Spurned'
<1>1. CallInv /\ Timed /\ conn \in ConnType /\ api.fn \in Calls /\ conn.last_err \in Fatal
  <2>1. CallInv /\ Timed
    BY DEF IInv
  <2> QED
    BY <2>1 DEF CallInv, Typed, ApiType, Spurned
<1>2. cli \notin {"alloc", "fetch", "fetching"}
  BY DEF Spurned
<1>3. SafeErr(conn, api.err) = conn /\ SafeErr(conn, "CLSD") = conn
  BY <1>1 DEF SafeErr
<1>4. EOF # NoBuf
  BY Nones DEF NoBuf
<1>5. CASE tcpip_thread
  <2>1. conn'.last_err \in Fatal /\ api'.fn = api.fn /\ cli' = cli /\ buf' = buf
    BY <1>1, <1>5, ThreadKept DEF Kept
  <2> QED
    BY <2>1 DEF Spurned
<1>6. CASE Call \/ Await \/ AwaitReturns
  <2>1. /\ conn' = conn /\ api' = api /\ buf' = buf
        /\ cli \in {"call", "await", "asleep"} /\ cli' \in {"await", "asleep", "answered"}
    BY <1>6 DEF Call, Await, AwaitReturns
  <2> QED
    BY <2>1 DEF Spurned
<1>7. CASE Proceed
  <2>1. cli = "answered" /\ (api.fn = "write" \/ (api.fn = "recv" /\ buf # EOF))
    BY <1>7 DEF Proceed, Spurned
  <2>2. CASE api.fn = "write"
    <3>1. conn' = conn /\ cli' \in {"recv", "loop"}
      BY <1>3, <1>7, <2>2 DEF Proceed
    <3> QED
      BY <1>1, <3>1 DEF Spurned
  <2>3. CASE api.fn = "recv" /\ buf # EOF
    <3>1. conn' = conn /\ cli' = "call" /\ api' = [fn |-> "write", err |-> "VAL"]
      BY <1>7, <2>3 DEF Proceed, Calling
    <3>2. api'.fn = "write"
      BY <3>1
    <3> QED
      BY <1>1, <3>1, <3>2 DEF Spurned
  <2> QED
    BY <2>1, <2>2, <2>3
<1>8. CASE Loop \/ netconn_recv
  <2>1. conn' = conn /\ (cli' \in {"loop", "recv"} \/ (cli' = "call" /\ api' = [fn |-> "write", err |-> "VAL"]))
    BY <1>1, <1>8 DEF Loop, netconn_recv, Calling
  <2>2. cli' \in {"loop", "recv"} \/ (cli' = "call" /\ api'.fn = "write")
    BY <2>1
  <2> QED
    BY <1>1, <2>1, <2>2 DEF Spurned
<1>9. CASE tcpip_input \/ Tick \/ UNCHANGED vars
  <2>1. conn' = conn /\ api' = api /\ cli' = cli /\ buf' = buf
    BY <1>9 DEF tcpip_input, Tick, vars, vC
  <2> QED
    BY <2>1 DEF Spurned
<1>10. ~netconn_alloc /\ ~RecvFetch /\ ~RecvReturns
  BY <1>2 DEF netconn_alloc, RecvFetch, RecvReturns
<1> QED
  BY <1>5, <1>6, <1>7, <1>8, <1>9, <1>10 DEF Next, tcp_client

\* A client that is stuck stays so: without a block it tries for ever, with its mailbox
\* full it no longer reads, and a connection that failed while it did not receive is
\* never closed (tcp_client_demo.c, netconn_recv_data of api_lib.c, sys_arch.c).
THEOREM StuckStays == Spec => StuckForEver
<1>1. IInv /\ [Next]_vars => (Stuck => Stuck')
  BY ExhaustedStays, CloggedStays, SpurnedStays DEF Stuck
<1> QED
  BY <1>1, Invariant, PTL DEF Spec, StuckForEver

-----------------------------------------------------------------------------
(* The stream.                                                                *)

\* A segment lost finds the mailbox full, and it stays full.
LEMMA LostClogged == IInv => (lost => Clogged)
<1> SUFFICES ASSUME IInv, lost PROVE Clogged
  OBVIOUS
<1>1. CallInv
  BY DEF IInv
<1>2. conn.recvmbox /\ Len(Received) >= RECVMBOX_SIZE /\ cli # "fetch"
  BY <1>1 DEF CallInv, Boxed
<1>3. Box = [q |-> Received, size |-> RECVMBOX_SIZE]
  BY <1>1, <1>2, ValidBox
<1>4. Box.size = RECVMBOX_SIZE
  BY <1>3
<1> QED
  BY <1>2, <1>4 DEF Clogged, OSQFull, OSQEntries, Box, Received

NextRead == IF buf' = EOF THEN conn.read = conn.rcvd ELSE buf' = conn.read + 1

\* What a receive returns is the head of what is to be read.
LEMMA ReadInOrder ==
    ASSUME CallInv, ~InCall, cli # "alloc", Unread # <<>>, buf' = Head(Unread)
    PROVE  NextRead
<1>1. conn.recvmbox /\ buf = NoBuf
  BY EmptyHands
<1>2. Reading(Head(Unread), Tail(Unread))
  BY <1>1, ReadsOne
<1>3. Reading(buf', Tail(Unread))
  BY <1>2
<1>4. EOF \notin Nat
  BY Nones
<1> QED
  BY <1>3, <1>4 DEF Reading, NextRead

\* A block that the client takes is the next of the stream, or its end.
LEMMA OrderKept ==
    ASSUME IInv, [Next]_vars, buf' # buf, buf' # NoBuf
    PROVE  NextRead
<1>1. CallInv /\ Timed
  BY DEF IInv
<1>2. RecvFetch \/ RecvReturns
  <2>1. ~tcpip_thread
    BY <1>1, ThreadKept
  <2>2. ~(netconn_alloc \/ Call \/ Await \/ AwaitReturns \/ Loop \/ netconn_recv)
    BY DEF netconn_alloc, Call, Await, AwaitReturns, Loop, netconn_recv
  <2>3. ~Proceed
    BY DEF Proceed
  <2>4. ~(tcpip_input \/ Tick \/ UNCHANGED vars)
    BY DEF tcpip_input, Tick, vars, vC
  <2> QED
    BY <2>1, <2>2, <2>3, <2>4 DEF Next, tcp_client
<1>3. CASE RecvFetch
  <2>1. cli = "fetch" /\ ~InCall /\ Unread = Received
    BY <1>3 DEF RecvFetch, InCall, Unread, Handed
  <2>2. OSQEntries(os, "recvmbox") > 0 /\ buf' = Oldest(os, "recvmbox")
    BY <1>3 DEF RecvFetch
  <2>3. conn.recvmbox
    BY <1>1, <2>1, EmptyHands
  <2>4. Received \in Seq(SegOrEOF)
    BY <1>1, <2>3, ValidBox
  <2>5. Len(Received) > 0 /\ buf' = Head(Received)
    BY <2>2 DEF OSQEntries, Oldest, Received, Box
  <2>6. Received # <<>>
    BY <2>4, <2>5
  <2> QED
    BY <1>1, <2>1, <2>5, <2>6, ReadInOrder
<1>4. CASE RecvReturns
  <2>1. os.Cur = Client /\ cli = "fetching" /\ ~InCall
    BY <1>4 DEF RecvReturns, Returns, InCall
  <2>2. os.tcb[Client].StatPend # "TO" /\ buf' = CB.Msg
    BY <1>4 DEF RecvReturns, CB
  <2>3. ~Listed(CB)
    BY <1>1, <2>1, <2>2, CliTurn DEF CB
  <2>4. Unread = <<CB.Msg>> \o Received /\ CB.Msg \in SegOrEOF
    BY <1>1, <2>1, <2>3 DEF Unread, Handed, CallInv, Where
  <2>5. conn.recvmbox
    BY <1>1, <2>1, EmptyHands
  <2>6. Received \in Seq(SegOrEOF)
    BY <1>1, <2>5, ValidBox
  <2>7. <<CB.Msg>> \in Seq(SegOrEOF)
    BY <2>4
  <2>8. Unread # <<>> /\ Head(Unread) = CB.Msg
    BY <2>4, <2>6, <2>7
  <2> QED
    BY <1>1, <2>1, <2>2, <2>8, ReadInOrder
<1> QED
  BY <1>2, <1>3, <1>4

\* The client reads the segments in order, none left out, and the end of the data after
\* all of them; and only with its mailbox full is a segment lost that TCP took as
\* delivered (recv_tcp, err_tcp and do_recv of api_msg.c, netconn_recv_data of api_lib.c).
THEOREM StreamInOrder == Spec => StreamKept
<1>1. IInv /\ [Next]_vars =>
        ((buf' # buf /\ buf' # NoBuf) =>
            IF buf' = EOF THEN conn.read = conn.rcvd ELSE buf' = conn.read + 1)
  BY OrderKept DEF NextRead
<1>2. Spec => InOrder
  BY <1>1, Invariant, PTL DEF Spec, InOrder
<1>3. Spec => [](lost => Clogged)
  BY LostClogged, Invariant, PTL
<1> QED
  BY <1>2, <1>3 DEF StreamKept

-----------------------------------------------------------------------------
(* The list of timers as the set of timers it promises to be.                 *)

\* What the timers of a list have left, in the order o they were armed.
Remaining(o, list) == [i \in DOMAIN o |-> [h |-> o[i], left |-> Due(list, Place(list, o[i]))]]
Running == Seq([h : Handlers, left : Nat])

\* The two agree on which timers there are.
Agree(o, list) ==
    /\ o \in Seq(Handlers) /\ list \in List
    /\ \A i, j \in 1 .. Len(list) : list[i].h = list[j].h => i = j
    /\ \A a \in 1 .. Len(o) : \E i \in 1 .. Len(list) : list[i].h = o[a]

\* The list and the order in which the timers go off name the same timers.
LEMMA TimedAgree ==
    ASSUME Timed
    PROVE  Agree(order, next_timeout)
<1>1. /\ next_timeout \in List /\ DOMAIN next_timeout = 1 .. Len(next_timeout)
      /\ order \in Seq(Handlers) /\ DOMAIN order = 1 .. Len(order)
  BY ListIs
<1>2. \A a \in 1 .. Len(order) : order[a] \in Handlers
  BY <1>1
<1>3. \A a \in 1 .. Len(order) : order[a] \in Armed(next_timeout)
  BY <1>1, <1>2 DEF Timed
<1>4. \A a \in 1 .. Len(order) : \E i \in 1 .. Len(next_timeout) : next_timeout[i].h = order[a]
  BY <1>1, <1>3 DEF Armed
<1>5. \A i, j \in 1 .. Len(next_timeout) : next_timeout[i].h = next_timeout[j].h => i = j
  BY <1>1 DEF Timed
<1> QED
  BY <1>1, <1>4, <1>5 DEF Agree

\* The same of the state after the step.
LEMMA TimedAgreeNext ==
    ASSUME Timed'
    PROVE  Agree(order', next_timeout')
<1>1. /\ next_timeout' \in List /\ order' \in Seq(Handlers)
      /\ \A i, j \in DOMAIN next_timeout' : next_timeout'[i].h = next_timeout'[j].h => i = j
      /\ \A h \in Handlers : (\E i \in DOMAIN order' : order'[i] = h) <=> h \in Armed(next_timeout')
  BY DEF Timed, List
<1>2. DOMAIN next_timeout' = 1 .. Len(next_timeout') /\ DOMAIN order' = 1 .. Len(order')
  BY <1>1 DEF List
<1>3. \A a \in 1 .. Len(order') : order'[a] \in Handlers
  BY <1>1
<1>4. \A a \in 1 .. Len(order') : order'[a] \in Armed(next_timeout')
  BY <1>1, <1>2, <1>3
<1>5. \A a \in 1 .. Len(order') : \E i \in 1 .. Len(next_timeout') : next_timeout'[i].h = order'[a]
  BY <1>2, <1>4 DEF Armed
<1> QED
  BY <1>1, <1>2, <1>5 DEF Agree

\* What is left of a timer is the time it is due.
LEMMA RemainingAt ==
    ASSUME NEW o, NEW list, Agree(o, list), NEW a \in 1 .. Len(o), NEW i \in 1 .. Len(list), list[i].h = o[a]
    PROVE  Remaining(o, list)[a] = [h |-> o[a], left |-> Due(list, i)]
<1>1. DOMAIN o = 1 .. Len(o) /\ DOMAIN list = 1 .. Len(list)
  BY DEF Agree, List
<1>2. PICK p : p = CHOOSE j \in DOMAIN list : list[j].h = o[a]
  OBVIOUS
<1>3. p \in 1 .. Len(list) /\ list[p].h = o[a]
  BY <1>1, <1>2
<1>4. p = i
  BY <1>3 DEF Agree
<1>5. Place(list, o[a]) = i
  BY <1>2, <1>4 DEF Place
<1> QED
  BY <1>1, <1>5 DEF Remaining

\* The timers of the abstract specification: one for each in the order.
LEMMA RemainingType ==
    ASSUME NEW o, NEW list, Agree(o, list)
    PROVE  /\ Remaining(o, list) \in Running /\ Len(Remaining(o, list)) = Len(o) /\ Len(o) \in Nat
           /\ DOMAIN Remaining(o, list) = 1 .. Len(o)
<1>1. DOMAIN o = 1 .. Len(o) /\ Len(o) \in Nat /\ Len(list) \in Nat
  BY DEF Agree, List
<1>2. ASSUME NEW a \in 1 .. Len(o) PROVE Remaining(o, list)[a] \in [h : Handlers, left : Nat]
  <2>1. PICK i \in 1 .. Len(list) : list[i].h = o[a]
    BY DEF Agree
  <2>2. Remaining(o, list)[a] = [h |-> o[a], left |-> Due(list, i)]
    BY <2>1, RemainingAt
  <2>3. \A j \in 0 .. Len(list) : Due(list, j) \in Nat
    BY DueType DEF Agree
  <2>4. Due(list, i) \in Nat /\ o[a] \in Handlers
    BY <1>1, <2>3 DEF Agree
  <2> QED
    BY <2>2, <2>4
<1>3. DOMAIN Remaining(o, list) = 1 .. Len(o)
  BY <1>1 DEF Remaining
<1>4. Remaining(o, list) = [a \in 1 .. Len(o) |-> Remaining(o, list)[a]]
  BY <1>1 DEF Remaining
<1>5. Remaining(o, list) \in [1 .. Len(o) -> [h : Handlers, left : Nat]]
  BY <1>2, <1>4
<1>6. Remaining(o, list) \in Running
  <2> DEFINE g == [a \in 1 .. Len(o) |-> Remaining(o, list)[a]]
  <2>1. g \in Seq([h : Handlers, left : Nat])
    BY <1>1, <1>2
  <2> QED
    BY <1>4, <2>1 DEF Running
<1> QED
  BY <1>1, <1>3, <1>6 DEF Running

Clock == Remaining(order, next_timeout)

\* The refinement mapping gives a sequence of running timers.
LEMMA ClockType ==
    ASSUME Timed
    PROVE  Clock \in Running /\ Len(Clock) = Len(order) /\ DOMAIN Clock = 1 .. Len(order) /\ Len(order) \in Nat
  BY TimedAgree, RemainingType DEF Clock

\* The same of the state after the step.
LEMMA ClockTypeNext ==
    ASSUME Timed'
    PROVE  /\ Clock' \in Running /\ Len(Clock') = Len(order') /\ DOMAIN Clock' = 1 .. Len(order')
           /\ Len(order') \in Nat
<1>1. Clock' = Remaining(order', next_timeout')
  BY DEF Clock, Remaining
<1> QED
  BY <1>1, TimedAgreeNext, RemainingType

\* To arm a timer is to append it.
LEMMA ArmsOne ==
    ASSUME Timed, Timed', NEW h \in Handlers, h \notin Armed(next_timeout), ArmTimer(h)
    PROVE  A!Arm(h)
<1> DEFINE L == next_timeout
           R == next_timeout'
           e == [h |-> h, left |-> Interval[h]]
<1>1. Agree(order, L) /\ Agree(order', R) /\ L \in List /\ R \in List
  BY TimedAgree, TimedAgreeNext DEF Agree
<1>2. Interval[h] \in Nat
  BY Times
<1>3. PICK n : Inserted(R, L, Interval[h], h, n)
  BY <1>1, <1>2, TimeoutInserts DEF ArmTimer
<1>4. /\ Len(R) = Len(L) + 1 /\ n \in 0 .. Len(L) /\ Len(L) \in Nat
      /\ \A i \in 1 .. Len(L) + 1 :
            /\ R[i].h = IF i <= n THEN L[i].h ELSE IF i = n + 1 THEN h ELSE L[i - 1].h
            /\ Due(R, i) = IF i <= n THEN Due(L, i) ELSE IF i = n + 1 THEN Interval[h] ELSE Due(L, i - 1)
  BY <1>1, <1>3 DEF Inserted, List
<1>5. order' = Append(order, h) /\ order \in Seq(Handlers) /\ Len(order) \in Nat
  BY <1>1 DEF ArmTimer, Agree
<1>6. /\ Len(order') = Len(order) + 1 /\ order'[Len(order) + 1] = h
      /\ \A a \in 1 .. Len(order) : order'[a] = order[a]
  BY <1>5, AppendProperties
<1>7. \A a \in 1 .. Len(order) : order[a] # h
  <2>1. SUFFICES ASSUME NEW a \in 1 .. Len(order), order[a] = h PROVE FALSE
    OBVIOUS
  <2>2. DOMAIN order = 1 .. Len(order)
    BY <1>5
  <2>3. h \in Armed(next_timeout)
    BY <2>1, <2>2 DEF Timed
  <2> QED
    BY <2>3
<1>8. /\ Clock \in Running /\ Len(Clock) = Len(order) /\ DOMAIN Clock = 1 .. Len(order)
      /\ Clock' \in Running /\ Len(Clock') = Len(order) + 1
  BY <1>6, ClockType, ClockTypeNext
<1>9. e \in [h : Handlers, left : Nat]
  BY <1>2
<1>10. /\ Append(Clock, e) \in Running /\ Len(Append(Clock, e)) = Len(order) + 1
       /\ Append(Clock, e)[Len(order) + 1] = e
       /\ \A a \in 1 .. Len(order) : Append(Clock, e)[a] = Clock[a]
  <2> HIDE DEF e
  <2> QED
    BY <1>8, <1>9, AppendProperties DEF Running
<1>11. Clock' = Remaining(order', R) /\ Clock = Remaining(order, L)
  BY DEF Clock, Remaining
<1> HIDE DEF L, R, e
<1>12. ASSUME NEW a \in 1 .. Len(order) PROVE Clock'[a] = Append(Clock, e)[a]
  <2>1. PICK i \in 1 .. Len(L) : L[i].h = order[a]
    BY <1>1 DEF Agree
  <2>2. Clock[a] = [h |-> order[a], left |-> Due(L, i)]
    BY <1>1, <1>11, <2>1, RemainingAt
  <2>3. PICK j \in 1 .. Len(R) : R[j].h = L[i].h /\ Due(R, j) = Due(L, i)
    <3>1. CASE i <= n
      <4>1. i \in 1 .. Len(L) + 1 /\ i \in 1 .. Len(R)
        BY <1>4
      <4> QED
        BY <1>4, <3>1, <4>1
    <3>2. CASE ~(i <= n)
      <4>1. i + 1 \in 1 .. Len(L) + 1 /\ i + 1 \in 1 .. Len(R) /\ ~(i + 1 <= n) /\ i + 1 # n + 1
            /\ (i + 1) - 1 = i
        BY <1>4, <3>2
      <4>2. R[i + 1].h = L[(i + 1) - 1].h /\ Due(R, i + 1) = Due(L, (i + 1) - 1)
        BY <1>4, <4>1
      <4> QED
        BY <4>1, <4>2
    <3> QED
      BY <3>1, <3>2
  <2>4. a \in 1 .. Len(order') /\ R[j].h = order'[a] /\ order'[a] = order[a]
    BY <1>5, <1>6, <2>1, <2>3
  <2>5. Clock'[a] = [h |-> order'[a], left |-> Due(R, j)]
    BY <1>1, <1>11, <2>4, RemainingAt
  <2> QED
    BY <1>10, <2>2, <2>3, <2>4, <2>5
<1>13. Clock'[Len(order) + 1] = e
  <2>1. n + 1 \in 1 .. Len(L) + 1 /\ n + 1 \in 1 .. Len(R) /\ ~(n + 1 <= n)
    BY <1>4
  <2>2. R[n + 1].h = h /\ Due(R, n + 1) = Interval[h]
    BY <1>4, <2>1
  <2>3. Len(order) + 1 \in 1 .. Len(order') /\ order'[Len(order) + 1] = h
    BY <1>5, <1>6
  <2>4. Clock'[Len(order) + 1] = [h |-> order'[Len(order) + 1], left |-> Due(R, n + 1)]
    BY <1>1, <1>11, <2>1, <2>2, <2>3, RemainingAt
  <2> QED
    BY <2>2, <2>3, <2>4 DEF e
<1>14. Clock' = Append(Clock, e)
  <2>1. \A a \in 1 .. Len(Clock') : Clock'[a] = Append(Clock, e)[a]
    <3>1. SUFFICES ASSUME NEW a \in 1 .. Len(Clock') PROVE Clock'[a] = Append(Clock, e)[a]
      OBVIOUS
    <3>2. a \in 1 .. Len(order) \/ a = Len(order) + 1
      BY <1>5, <1>8
    <3> QED
      BY <1>10, <1>12, <1>13, <3>2
  <2>2. Len(Clock') = Len(Append(Clock, e))
    BY <1>8, <1>10
  <2> QED
    BY <1>8, <1>10, <2>1, <2>2, SeqEqual DEF Running
<1>15. \A a \in DOMAIN Clock : Clock[a].h # h
  <2>1. SUFFICES ASSUME NEW a \in 1 .. Len(order) PROVE Clock[a].h # h
    BY <1>8
  <2>2. Clock[a].h = order[a]
    BY <1>5 DEF Clock, Remaining
  <2> QED
    BY <1>7, <2>2
<1> QED
  BY <1>14, <1>15 DEF A!Arm, Clock, Remaining, e

\* A list that agrees, seen from its order.
LEMMA ClockAt ==
    ASSUME Timed, NEW a \in 1 .. Len(order)
    PROVE  \E i \in 1 .. Len(next_timeout) : /\ next_timeout[i].h = order[a]
                                             /\ Clock[a] = [h |-> order[a], left |-> Due(next_timeout, i)]
<1>1. Agree(order, next_timeout)
  BY TimedAgree
<1>2. PICK i \in 1 .. Len(next_timeout) : next_timeout[i].h = order[a]
  BY <1>1 DEF Agree
<1>3. Clock[a] = [h |-> order[a], left |-> Due(next_timeout, i)]
  BY <1>1, <1>2, RemainingAt DEF Clock
<1> QED
  BY <1>2, <1>3

\* The same of the state after the step.
LEMMA ClockAtNext ==
    ASSUME Timed', NEW a \in 1 .. Len(order'), NEW i \in 1 .. Len(next_timeout'), next_timeout'[i].h = order'[a]
    PROVE  Clock'[a] = [h |-> order'[a], left |-> Due(next_timeout', i)]
<1>1. Clock' = Remaining(order', next_timeout')
  BY DEF Clock, Remaining
<1> QED
  BY <1>1, TimedAgreeNext, RemainingAt

\* The longest of the intervals.
Longest == Interval[CHOOSE h \in Handlers : \A g \in Handlers : Interval[g] <= Interval[h]]

\* The longest interval bounds every interval.
LEMMA LongestIs == Longest \in Nat /\ \A h \in Handlers : Interval[h] <= Longest
<1>1. \A h \in Handlers : Interval[h] \in Nat
  BY Times
<1>2. \E h \in Handlers : \A g \in Handlers : Interval[g] <= Interval[h]
  BY <1>1 DEF Handlers
<1>3. PICK m : m = CHOOSE h \in Handlers : \A g \in Handlers : Interval[g] <= Interval[h]
  OBVIOUS
<1>4. m \in Handlers /\ \A g \in Handlers : Interval[g] <= Interval[m]
  BY <1>2, <1>3
<1> QED
  BY <1>1, <1>3, <1>4 DEF Longest

\* Time passes for all of them.
LEMMA ClockPasses ==
    ASSUME Timed, Timed', NEW d \in Nat, Passed(next_timeout', next_timeout, 0, d), order' = order
    PROVE  /\ Clock' = A!Less(Clock, d)
           /\ \A a \in DOMAIN Clock : d <= Clock[a].left
           /\ d = 0 => Clock' = Clock
<1>1. /\ Len(next_timeout) = Len(next_timeout') + 0 /\ next_timeout' \in List /\ next_timeout \in List
      /\ \A i \in 1 .. Len(next_timeout') : /\ next_timeout'[i].h = next_timeout[i + 0].h
                                            /\ Due(next_timeout', i) = Due(next_timeout, i + 0) - d
                                            /\ d <= Due(next_timeout, i + 0)
  BY ListIs DEF Passed
<1>2. Len(next_timeout) \in Nat /\ Len(next_timeout') \in Nat
  BY <1>1 DEF List
<1>3. Len(next_timeout) = Len(next_timeout') /\ \A i \in 1 .. Len(next_timeout) : i + 0 = i
  BY <1>1, <1>2
<1>4. \A i \in 1 .. Len(next_timeout) : /\ next_timeout'[i].h = next_timeout[i].h
                                        /\ Due(next_timeout', i) = Due(next_timeout, i) - d
                                        /\ d <= Due(next_timeout, i) /\ Due(next_timeout, i) \in Nat
  BY <1>1, <1>3, ListIs
<1>5. /\ Clock \in Running /\ DOMAIN Clock = 1 .. Len(order)
      /\ Clock' \in Running /\ DOMAIN Clock' = 1 .. Len(order) /\ Len(order) \in Nat
  <2>1. Len(order') = Len(order)
    OBVIOUS
  <2> QED
    BY <2>1, ClockType, ClockTypeNext
<1>6. ASSUME NEW a \in 1 .. Len(order)
      PROVE  /\ Clock'[a] = [Clock[a] EXCEPT !.left = @ - d] /\ d <= Clock[a].left
             /\ d = 0 => Clock'[a] = Clock[a]
  <2>1. PICK i \in 1 .. Len(next_timeout) : /\ next_timeout[i].h = order[a]
                                            /\ Clock[a] = [h |-> order[a], left |-> Due(next_timeout, i)]
    BY ClockAt
  <2>2. i \in 1 .. Len(next_timeout') /\ next_timeout'[i].h = order'[a] /\ a \in 1 .. Len(order')
    BY <1>3, <1>4, <2>1
  <2>3. Clock'[a] = [h |-> order[a], left |-> Due(next_timeout', i)]
    BY <2>2, ClockAtNext
  <2>4. Due(next_timeout', i) = Due(next_timeout, i) - d /\ d <= Due(next_timeout, i)
        /\ Due(next_timeout, i) \in Nat
    BY <1>4
  <2>5. [Clock[a] EXCEPT !.left = @ - d] = [h |-> order[a], left |-> Due(next_timeout, i) - d]
    BY <2>1
  <2>6. d = 0 => Due(next_timeout', i) = Due(next_timeout, i)
    BY <2>4
  <2> QED
    BY <2>1, <2>3, <2>4, <2>5, <2>6
<1>7. Clock' = [a \in 1 .. Len(order) |-> Clock'[a]] /\ Clock = [a \in 1 .. Len(order) |-> Clock[a]]
  BY <1>5 DEF Clock, Remaining
<1>8. Clock' = A!Less(Clock, d)
  <2>1. A!Less(Clock, d) = [a \in 1 .. Len(order) |-> [Clock[a] EXCEPT !.left = @ - d]]
    BY <1>5 DEF A!Less
  <2> QED
    BY <1>6, <1>7, <2>1
<1>9. d = 0 => Clock' = Clock
  BY <1>6, <1>7
<1> QED
  BY <1>5, <1>6, <1>8, <1>9

\* The time a pend took passes for every timer of the abstract specification.
LEMMA TookPasses ==
    ASSUME TimedInv, Timed', NEW m, NEW ticks \in Nat, Took(m, ticks)
    PROVE  A!Pass \/ Clock' = Clock
<1>1. Timed /\ Clocked
  BY DEF TimedInv
<1>2. PICK wraps \in BOOLEAN : next_timeout' = Waited(next_timeout, TimeNeeded(ticks, wraps))
  BY DEF Took
<1>3. PICK t : t = TimeNeeded(ticks, wraps)
  OBVIOUS
<1>4. PICK d : d = Nearer(next_timeout, t)
  OBVIOUS
<1>5. t \in Nat /\ next_timeout \in List /\ order' = order
  BY <1>1, <1>3, NeededTime, ListIs DEF Took
<1>6. Passed(next_timeout', next_timeout, 0, d) /\ d \in Nat
  BY <1>2, <1>3, <1>4, <1>5, WaitedPassed DEF Passed
<1>7. /\ Clock' = A!Less(Clock, d) /\ \A a \in DOMAIN Clock : d <= Clock[a].left
      /\ d = 0 => Clock' = Clock
  BY <1>1, <1>5, <1>6, ClockPasses
<1>8. CASE d = 0
  BY <1>7, <1>8
<1>9. CASE d # 0
  <2>1. next_timeout # <<>>
    BY <1>4, <1>9 DEF Nearer
  <2>2. /\ 1 \in 1 .. Len(next_timeout) /\ next_timeout[1] = Head(next_timeout)
        /\ Due(next_timeout, 1) = next_timeout[1].time /\ next_timeout[1].time \in Nat
        /\ next_timeout[1].h \in Handlers
    BY <1>5, <2>1, FirstDue
  <2>3. d <= next_timeout[1].time
    BY <1>4, <1>5, <2>1, <2>2 DEF Nearer, Lesser
  <2>4. 1 \in DOMAIN next_timeout
    BY <1>1, <2>2, ListIs
  <2>5. Due(next_timeout, 1) <= Interval[next_timeout[1].h] /\ next_timeout[1].h \in Armed(next_timeout)
    BY <1>1, <2>4 DEF Clocked, Armed
  <2>6. Interval[next_timeout[1].h] <= Longest /\ Longest \in Nat /\ Interval[next_timeout[1].h] \in Nat
    BY <2>2, LongestIs, Times
  <2>7. d \in 1 .. Longest
    BY <1>6, <1>9, <2>2, <2>3, <2>5, <2>6
  <2>8. Clock # <<>>
    <3>1. \E i \in DOMAIN order : order[i] = next_timeout[1].h
      BY <1>1, <2>2, <2>5 DEF Timed
    <3>2. DOMAIN Clock # {}
      BY <3>1 DEF Clock, Remaining
    <3>3. DOMAIN <<>> = {}
      OBVIOUS
    <3> QED
      BY <3>2, <3>3
  <2>9. /\ d \in 1 .. Longest /\ Clock # <<>> /\ (\A a \in DOMAIN Clock : d <= Clock[a].left)
        /\ Clock' = A!Less(Clock, d)
    BY <1>7, <2>7, <2>8
  <2> QED
    BY <2>9 DEF A!Pass, Clock, Remaining, Longest
<1> QED
  BY <1>8, <1>9

\* What goes off is the first due, and of two due together the one armed first.
LEMMA FiresFirst ==
    ASSUME TimedInv, Timed', next_timeout # <<>>, FireHead
    PROVE  A!GoOff
<1>1. Timed /\ Clocked
  BY DEF TimedInv
<1> DEFINE L == next_timeout
           R == next_timeout'
           h == L[1].h
           D == L[1].time
<1>2. /\ L \in List /\ DOMAIN L = 1 .. Len(L) /\ order \in Seq(Handlers) /\ DOMAIN order = 1 .. Len(order)
      /\ Len(order) \in Nat
  BY <1>1, ListIs
<1>3. /\ Len(L) \in Nat \ {0} /\ 1 \in 1 .. Len(L) /\ h = Head(L).h /\ D = Head(L).time
      /\ Due(L, 1) = D /\ D \in Nat
      /\ \A i \in 1 .. Len(L) : D <= Due(L, i) /\ Due(L, i) \in Nat
  BY <1>2, FirstDue
<1>4. Passed(R, L, 1, D)
  BY <1>2, <1>3, TailPassed DEF FireHead
<1>5. /\ Len(L) = Len(R) + 1 /\ R \in List /\ Len(R) \in Nat
      /\ \A i \in 1 .. Len(R) : R[i].h = L[i + 1].h /\ Due(R, i) = Due(L, i + 1) - D
  BY <1>4 DEF Passed, List
<1>6. PICK k : LeftOut(order', order, h, k)
  <2>1. h \in Armed(L) /\ h \in Handlers
    BY <1>2, <1>3, FirstDue DEF Armed
  <2>2. \E i \in DOMAIN order : order[i] = h
    BY <1>1, <2>1 DEF Timed
  <2>3. order' = Without(order, h)
    BY <1>3 DEF FireHead
  <2> HIDE DEF h
  <2> QED
    BY <1>2, <2>2, <2>3, WithoutOne
<1>7. /\ k \in 1 .. Len(order) /\ order[k] = h /\ order' \in Seq(Handlers) /\ Len(order') = Len(order) - 1
      /\ \A a \in 1 .. Len(order) - 1 : order'[a] = IF a < k THEN order[a] ELSE order[a + 1]
  BY <1>6 DEF LeftOut
<1>8. /\ Clock \in Running /\ Len(Clock) = Len(order) /\ DOMAIN Clock = 1 .. Len(order)
      /\ Clock' \in Running /\ Len(Clock') = Len(order) - 1
  BY <1>1, <1>7, ClockType, ClockTypeNext
<1> HIDE DEF L, R, h, D
<1>9. Clock[k] = [h |-> h, left |-> D]
  <2>1. L[1].h = order[k] /\ Agree(order, L)
    BY <1>1, <1>7, TimedAgree DEF L, h
  <2>2. Clock = Remaining(order, L)
    BY DEF Clock, L
  <2> QED
    BY <1>3, <1>7, <2>1, <2>2, RemainingAt
<1>10. ASSUME NEW a \in 1 .. Len(order)
       PROVE  \E i \in 1 .. Len(L) : L[i].h = order[a] /\ Clock[a] = [h |-> order[a], left |-> Due(L, i)]
  BY <1>1, ClockAt DEF L
<1>11. ASSUME NEW a \in DOMAIN Clock
       PROVE  Clock[k].left < Clock[a].left \/ (Clock[k].left = Clock[a].left /\ k <= a)
  <2>1. a \in 1 .. Len(order)
    BY <1>8
  <2>2. PICK i \in 1 .. Len(L) : L[i].h = order[a] /\ Clock[a] = [h |-> order[a], left |-> Due(L, i)]
    BY <1>10, <2>1
  <2>3. Clock[k].left = D /\ Clock[a].left = Due(L, i) /\ D <= Due(L, i) /\ Due(L, i) \in Nat /\ D \in Nat
    BY <1>3, <1>9, <2>2
  <2>4. CASE D # Due(L, i)
    BY <2>3, <2>4
  <2>5. CASE D = Due(L, i) /\ i = 1
    <3>1. order[a] = order[k]
      BY <1>7, <2>2, <2>5 DEF h
    <3>2. a = k
      BY <1>1, <1>2, <1>7, <2>1, <3>1 DEF Timed
    <3> QED
      BY <1>2, <2>1, <2>3, <2>5, <3>2
  <2>6. CASE D = Due(L, i) /\ i # 1
    <3>1. 1 < i /\ Due(L, 1) = Due(L, i) /\ order[k] = L[1].h /\ order[a] = L[i].h
      BY <1>3, <1>7, <2>2, <2>6 DEF h
    <3>2. 1 \in DOMAIN next_timeout /\ i \in DOMAIN next_timeout /\ k \in DOMAIN order /\ a \in DOMAIN order
      BY <1>2, <1>3, <1>7, <2>1 DEF L
    <3>3. k < a
      BY <1>1, <3>1, <3>2 DEF Clocked, L
    <3> QED
      BY <1>2, <1>7, <2>1, <2>3, <2>6, <3>3
  <2> QED
    BY <2>4, <2>5, <2>6
<1> DEFINE U == A!Less(Clock, D)
<1>12. U = [a \in 1 .. Len(order) |-> [Clock[a] EXCEPT !.left = @ - D]]
  BY <1>8 DEF A!Less
<1>13. ASSUME NEW a \in 1 .. Len(order)
       PROVE  \E i \in 1 .. Len(L) : /\ L[i].h = order[a] /\ U[a] = [h |-> order[a], left |-> Due(L, i) - D]
                                     /\ U[a] \in [h : Handlers, left : Nat]
  <2>1. PICK i \in 1 .. Len(L) : L[i].h = order[a] /\ Clock[a] = [h |-> order[a], left |-> Due(L, i)]
    BY <1>10
  <2>2. U[a] = [Clock[a] EXCEPT !.left = @ - D]
    BY <1>12
  <2> HIDE DEF U
  <2>3. U[a] = [h |-> order[a], left |-> Due(L, i) - D]
    BY <2>1, <2>2
  <2>4. Due(L, i) - D \in Nat /\ order[a] \in Handlers
    BY <1>2, <1>3
  <2> QED
    BY <2>1, <2>3, <2>4
<1> HIDE DEF U
<1>14. U \in Running /\ Len(U) = Len(order)
  <2> DEFINE g == [a \in 1 .. Len(order) |-> U[a]]
  <2>1. \A a \in 1 .. Len(order) : U[a] \in [h : Handlers, left : Nat]
    BY <1>13
  <2>2. g \in Seq([h : Handlers, left : Nat]) /\ DOMAIN g = 1 .. Len(order)
    BY <1>2, <2>1
  <2>3. U = g
    BY <1>12
  <2> HIDE DEF g
  <2> QED
    BY <1>2, <2>2, <2>3 DEF Running
<1>15. /\ RemoveAt(U, k) \in Running /\ Len(RemoveAt(U, k)) = Len(order) - 1
       /\ \A a \in 1 .. Len(order) - 1 : RemoveAt(U, k)[a] = IF a < k THEN U[a] ELSE U[a + 1]
  <2>1. k \in 1 .. Len(U) /\ U \in Seq([h : Handlers, left : Nat])
    BY <1>7, <1>14 DEF Running
  <2> QED
    BY <1>14, <2>1, RemovedAt DEF Running
<1>16. ASSUME NEW a \in 1 .. Len(order) - 1 PROVE Clock'[a] = RemoveAt(U, k)[a]
  <2>1. PICK b : b = IF a < k THEN a ELSE a + 1
    OBVIOUS
  <2>2. b \in 1 .. Len(order) /\ b # k /\ order'[a] = order[b] /\ RemoveAt(U, k)[a] = U[b]
    <3>1. CASE a < k
      BY <1>2, <1>7, <1>15, <2>1, <3>1
    <3>2. CASE ~(a < k)
      BY <1>2, <1>7, <1>15, <2>1, <3>2
    <3> QED
      BY <3>1, <3>2
  <2>3. PICK i \in 1 .. Len(L) : L[i].h = order[b] /\ U[b] = [h |-> order[b], left |-> Due(L, i) - D]
    BY <1>13, <2>2
  <2>4. i # 1
    <3>1. SUFFICES ASSUME i = 1 PROVE FALSE
      OBVIOUS
    <3>2. order[b] = order[k]
      BY <1>7, <2>3, <3>1 DEF h
    <3> QED
      BY <1>1, <1>2, <1>7, <2>2, <3>2 DEF Timed
  <2>5. i - 1 \in 1 .. Len(R) /\ (i - 1) + 1 = i
    BY <1>3, <1>5, <2>4
  <2>6. R[i - 1].h = L[i].h /\ Due(R, i - 1) = Due(L, i) - D
    BY <1>5, <2>5
  <2>7. a \in 1 .. Len(order') /\ R[i - 1].h = order'[a]
    BY <1>7, <2>2, <2>3, <2>6
  <2>8. Clock'[a] = [h |-> order'[a], left |-> Due(R, i - 1)]
    BY <2>5, <2>7, ClockAtNext DEF R
  <2> QED
    BY <2>2, <2>3, <2>6, <2>8
<1>17. Clock' = RemoveAt(U, k)
  <2>1. Clock' \in Seq([h : Handlers, left : Nat]) /\ RemoveAt(U, k) \in Seq([h : Handlers, left : Nat])
        /\ Len(Clock') = Len(RemoveAt(U, k)) /\ \A a \in 1 .. Len(Clock') : Clock'[a] = RemoveAt(U, k)[a]
    BY <1>8, <1>15, <1>16 DEF Running
  <2> QED
    BY <2>1, SeqEqual
<1>18. /\ k \in DOMAIN Clock /\ Clock' = RemoveAt(A!Less(Clock, Clock[k].left), k)
       /\ \A a \in DOMAIN Clock : Clock[k].left < Clock[a].left \/ (Clock[k].left = Clock[a].left /\ k <= a)
  BY <1>7, <1>8, <1>9, <1>11, <1>17 DEF U
<1>19. A!First(k)
  BY <1>18 DEF A!First, Clock, Remaining
<1>20. \A s, i : A!RemoveAt(s, i) = RemoveAt(s, i)
  BY DEF A!RemoveAt, RemoveAt
<1>21. (\E i \in DOMAIN Clock : A!First(i) /\ Clock' = RemoveAt(A!Less(Clock, Clock[i].left), i)) => A!GoOff
  BY <1>20 DEF A!GoOff, Clock, Remaining
<1> QED
  BY <1>18, <1>19, <1>21

\* A step of the model is one of the list of timers, or leaves it alone.
LEMMA SameClock ==
    ASSUME next_timeout' = next_timeout, order' = order
    PROVE  Clock' = Clock
  BY DEF Clock, Remaining

\* A step of the network side is a step of the abstract timers, or none.
LEMMA TimersStep ==
    ASSUME IInv, [Next]_vars
    PROVE  A!ANext \/ Clock' = Clock
<1>1. CallInv /\ TimedInv /\ Timed /\ Clocked
  BY DEF IInv, TimedInv
<1>2. Timed'
  BY <1>1, TimedKept DEF TimedInv
<1>3. CASE Fetch
  <2>1. CASE next_timeout # <<>> /\ FireHead
    BY <1>1, <1>2, <2>1, FiresFirst DEF A!ANext
  <2>2. CASE Took(Oldest(os, "mbox"), 0)
    <3>1. 0 \in Nat
      OBVIOUS
    <3> QED
      BY <1>1, <1>2, <2>2, <3>1, TookPasses DEF A!ANext
  <2>3. CASE UNCHANGED <<msg, vT>>
    BY <2>3, SameClock DEF vT
  <2> QED
    BY <1>3, <2>1, <2>2, <2>3 DEF Fetch
<1>4. CASE FetchReturns
  <2>1. thr = "wait" /\ waited \in Nat
    BY <1>1, <1>4 DEF FetchReturns, Timed
  <2>2. CASE TB.StatPend = "TO" /\ FireHead
    <3>1. next_timeout # <<>>
      BY <1>1, <2>1, <2>2 DEF Timed
    <3> QED
      BY <1>1, <1>2, <2>2, <3>1, FiresFirst DEF A!ANext
  <2>3. CASE Took(TB.Msg, waited)
    BY <1>1, <1>2, <2>1, <2>3, TookPasses DEF A!ANext
  <2> QED
    BY <1>4, <2>2, <2>3 DEF FetchReturns, TB
<1>5. ASSUME NEW h \in Handlers, h \notin Armed(next_timeout), ArmTimer(h)
      PROVE  A!ANext
  BY <1>1, <1>2, <1>5, ArmsOne DEF A!ANext
<1>6. CASE PlainTimer
  <2>1. PICK h \in Handlers : Expires(h) /\ ArmTimer(h)
    BY <1>6 DEF PlainTimer
  <2>2. h \notin Armed(next_timeout)
    BY <1>1, <2>1 DEF Timed, Expires
  <2> QED
    BY <1>5, <2>1, <2>2
<1>7. CASE tcpip_tcp_timer
  <2>1. "tcpip_tcp_timer" \notin Armed(next_timeout) /\ "tcpip_tcp_timer" \in Handlers
    BY <1>1, <1>7, Times DEF Timed, tcpip_tcp_timer, Expires
  <2>2. CASE ArmTimer("tcpip_tcp_timer")
    BY <1>5, <2>1, <2>2
  <2>3. CASE UNCHANGED vT
    BY <2>3, SameClock DEF vT
  <2> QED
    BY <1>7, <2>2, <2>3 DEF tcpip_tcp_timer
<1>8. CASE do_connect
  <2>1. CASE "tcpip_tcp_timer" \notin Armed(next_timeout) /\ ArmTimer("tcpip_tcp_timer")
    BY <1>5, <2>1, Times
  <2>2. CASE UNCHANGED vT
    BY <2>2, SameClock DEF vT
  <2> QED
    BY <1>8, <2>1, <2>2 DEF do_connect
<1>9. CASE \/ newconn \/ do_write \/ do_recv \/ do_close \/ DrainReturns \/ ethernet_input
           \/ tcp_client \/ tcpip_input \/ Tick \/ UNCHANGED vars
  <2>1. next_timeout' = next_timeout /\ order' = order
    BY <1>9 DEF newconn, do_write, do_recv, do_close, DrainReturns, ethernet_input, tcp_client,
                netconn_alloc, Call, Await, AwaitReturns, Proceed, Loop, netconn_recv, RecvFetch,
                RecvReturns, tcpip_input, Tick, vars, vT
  <2> QED
    BY <2>1, SameClock
<1> QED
  BY <1>3, <1>4, <1>6, <1>7, <1>8, <1>9 DEF Next, tcpip_thread

\* The list starts with two timers, each with its interval before it.
LEMMA TimersStart == Init => A!AInit
<1> SUFFICES ASSUME Init PROVE A!AInit
  OBVIOUS
<1>1. next_timeout = sys_timeouts_init /\ order = <<"ip_reass_timer", "arp_timer">>
  BY DEF Init
<1>2. Timed
  BY InitTimed DEF TimedInv
<1>3. Clock \in Running /\ DOMAIN Clock = 1 .. 2
  <2>1. Len(order) = 2
    BY <1>1
  <2> QED
    BY <1>2, <2>1, ClockType
<1>4. PICK n : FirstTimers(next_timeout, n)
  BY <1>1, FirstList
<1>5. /\ n \in {0, 1} /\ Len(next_timeout) = 2
      /\ next_timeout[n + 1].h = "arp_timer" /\ Due(next_timeout, n + 1) = ARP_TMR_INTERVAL
      /\ next_timeout[2 - n].h = "ip_reass_timer" /\ Due(next_timeout, 2 - n) = IP_TMR_INTERVAL
  BY <1>4 DEF FirstTimers
<1>6. n + 1 \in 1 .. Len(next_timeout) /\ 2 - n \in 1 .. Len(next_timeout)
  BY <1>5
<1>7. Agree(order, next_timeout)
  BY <1>2, TimedAgree
<1>8. order[1] = "ip_reass_timer" /\ order[2] = "arp_timer" /\ 1 \in 1 .. Len(order) /\ 2 \in 1 .. Len(order)
  BY <1>1
<1>9. Clock[1] = [h |-> "ip_reass_timer", left |-> IP_TMR_INTERVAL]
  <2>1. next_timeout[2 - n].h = order[1]
    BY <1>5, <1>8
  <2>2. Clock[1] = [h |-> order[1], left |-> Due(next_timeout, 2 - n)]
    BY <1>6, <1>7, <1>8, <2>1, RemainingAt DEF Clock
  <2> QED
    BY <1>5, <1>8, <2>2
<1>10. Clock[2] = [h |-> "arp_timer", left |-> ARP_TMR_INTERVAL]
  <2>1. next_timeout[n + 1].h = order[2]
    BY <1>5, <1>8
  <2>2. Clock[2] = [h |-> order[2], left |-> Due(next_timeout, n + 1)]
    BY <1>6, <1>7, <1>8, <2>1, RemainingAt DEF Clock
  <2> QED
    BY <1>5, <1>8, <2>2
<1>11. Interval["ip_reass_timer"] = IP_TMR_INTERVAL /\ Interval["arp_timer"] = ARP_TMR_INTERVAL
  BY DEF Interval, Handlers
<1>12. ASSUME NEW i \in DOMAIN Clock PROVE Clock[i].left = Interval[Clock[i].h]
  <2>1. i = 1 \/ i = 2
    BY <1>3
  <2> QED
    BY <1>9, <1>10, <1>11, <2>1
<1>13. Clock \in Seq([h : Handlers, left : Nat]) /\ \A i \in DOMAIN Clock : Clock[i].left = Interval[Clock[i].h]
  BY <1>3, <1>12 DEF Running
<1> QED
  BY <1>13 DEF A!AInit, Clock, Remaining

\* The TCP timer goes off with nothing owed.
LEMMA FiresInTime ==
    ASSUME IInv, [Next]_vars, thr' = "timer", thr # "timer", msg' = "tcpip_tcp_timer"
    PROVE  owed = 0
<1>1. CallInv /\ Timed /\ Clocked
  BY DEF IInv
<1>2. /\ next_timeout \in List /\ DOMAIN next_timeout = 1 .. Len(next_timeout)
      /\ owed \in Nat /\ waited \in Nat /\ HeadTime \in Nat
      /\ next_timeout # <<>> => HeadTime = Due(next_timeout, 1)
  BY <1>1, ListIs
<1>3. next_timeout # <<>> /\ FireHead /\ Elapsed = HeadTime
  <2>1. Fetch \/ FetchReturns
    <3>1. ~(PlainTimer \/ tcpip_tcp_timer)
      BY DEF PlainTimer, tcpip_tcp_timer, Expires
    <3>2. ~(newconn \/ do_connect \/ do_write \/ do_recv \/ do_close \/ DrainReturns \/ ethernet_input)
      BY DEF newconn, do_connect, do_write, do_recv, do_close, DrainReturns, ethernet_input
    <3>3. ~(tcp_client \/ tcpip_input \/ Tick \/ UNCHANGED vars)
      BY DEF tcp_client, netconn_alloc, Call, Await, AwaitReturns, Proceed, Loop, netconn_recv,
             RecvFetch, RecvReturns, tcpip_input, Tick, vars
    <3> QED
      BY <3>1, <3>2, <3>3 DEF Next, tcpip_thread
  <2>2. CASE Fetch
    <3>1. next_timeout # <<>> /\ HeadTime = 0 /\ FireHead
      BY <2>2 DEF Fetch, Took
    <3> QED
      BY <2>2, <3>1 DEF Fetch, Elapsed
  <2>3. CASE FetchReturns
    <3>1. TB.StatPend = "TO" /\ FireHead /\ thr = "wait"
      BY <2>3 DEF FetchReturns, Took, TB
    <3> QED
      BY <1>1, <3>1 DEF Timed, Clocked, Elapsed
  <2> QED
    BY <2>1, <2>2, <2>3
<1>4. 1 \in 1 .. Len(next_timeout) /\ next_timeout[1] = Head(next_timeout)
  BY <1>2, <1>3, FirstDue
<1>5. 1 \in DOMAIN next_timeout /\ next_timeout[1].h = "tcpip_tcp_timer"
  BY <1>2, <1>3, <1>4 DEF FireHead
<1>6. owed + Elapsed <= Due(next_timeout, 1) \/ owed = 0
  BY <1>1, <1>5 DEF Clocked
<1>7. owed + HeadTime <= HeadTime \/ owed = 0
  BY <1>2, <1>3, <1>6
<1> QED
  BY <1>2, <1>7

\* The list of timers is a set of timers that go off in the order they are due, of two
\* due together the one armed first; and the TCP timer does not go off before its
\* interval is over (sys_timeout and sys_timeouts_mbox_fetch of timers.c, sys_arch.c).
THEOREM TimersGoOffInTurn == Spec => TimersRight
<1>1. IInv /\ [Next]_vars => (A!ANext \/ Clock' = Clock)
  BY TimersStep
<1>2. IInv /\ [Next]_vars => ((thr' = "timer" /\ thr # "timer" /\ msg' = "tcpip_tcp_timer") => owed = 0)
  BY FiresInTime
<1>3. Spec => NotEarly
  BY <1>2, Invariant, PTL DEF Spec, NotEarly
<1>4. Spec => ImplementsTimers
  <2>1. Clock' = Clock => UNCHANGED [i \in DOMAIN order |->
                    [h |-> order[i], left |-> Due(next_timeout, Place(next_timeout, order[i]))]]
    BY DEF Clock, Remaining
  <2> QED
    BY <1>1, <2>1, TimersStart, Invariant, PTL DEF Spec, ImplementsTimers, A!ASpec
<1> QED
  BY <1>3, <1>4 DEF TimersRight
================================================================================
