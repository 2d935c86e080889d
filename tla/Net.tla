----------------------------------- MODULE Net -----------------------------------
(* The network side: lwIP's thread with its mailbox and its timers            *)
(* (tcpip.c, timers.c), one TCP connection behind the netconn interface       *)
(* (api_lib.c, api_msg.c), the client task that uses it (tcp_client_demo.c),  *)
(* and the port of lwIP to the kernel (sys_arch.c), over uC/OS-II.            *)
(*                                                                            *)
(* Three tasks, by priority: Tcpip runs tcpip_thread, Client runs             *)
(* tcp_client_thread_netconn, Rest is everything below, which hands in the    *)
(* packets the chip received and never sleeps. Of TCP itself (tcp.c, tcp_in.c, *)
(* tcp_out.c) there are the callbacks it makes, what becomes of the data to   *)
(* send (the other side's window, acknowledgements, retransmissions and their *)
(* count) and nothing of sequence numbers: data comes in order and our window *)
(* holds it, and a segment that brings data and acknowledges is two packets.  *)
EXTENDS Rtos, OSQ, OSSem, SysTimeouts

CONSTANTS
    Tcpip, Client, Rest,
    TCPIP_MBOX_SIZE, RECVMBOX_SIZE,     \* MAX_QUEUE_ENTRIES, 20, both
    MEMP_NUM_TCPIP_MSG_INPKT,           \* 8
    Blocks,     \* blocks of CoMboxBuffer left when tcpip_thread has its mailbox
    Segments,   \* bound: segments of data in a connection
    TCP_SND_QUEUELEN,                   \* 8, of which a write takes 1, at most 2
    TCP_SYNMAXRTX, TCP_MAXRTX,          \* 6, 12
    NrtxValues, \* of an u8: 256
    RecvTimeout,\* ticks a receive waits: 10
    EOF         \* the null message: sys_mbox_post turns it into a pointer, the fetch back

Packets == {"SYNACK", "RST", "DATA", "FIN", "ACK"}
Msgs == Packets \cup {"API"}

ASSUME NetAssumption ==
    /\ Task = {Tcpip, Client, Rest} /\ Idle = Rest
    /\ Tcpip # Client /\ Tcpip # Rest /\ Client # Rest
    /\ Event = {"mbox", "recvmbox", "op_completed"}
    /\ OS_TASK_IDLE_PRIO = 3
    /\ {Blocks, Segments, TCPIP_MBOX_SIZE, MEMP_NUM_TCPIP_MSG_INPKT} \subseteq Nat
    /\ TCP_SND_QUEUELEN \in Nat \ {0}
    /\ {TCP_SYNMAXRTX, TCP_MAXRTX, NrtxValues} \subseteq Nat
    /\ TCP_SYNMAXRTX < TCP_MAXRTX /\ TCP_MAXRTX < NrtxValues
    /\ RECVMBOX_SIZE \in Nat \ {0, 1} /\ TCPIP_MBOX_SIZE > MEMP_NUM_TCPIP_MSG_INPKT
    /\ SemMax > 0 /\ RecvTimeout \in Nat \ {0}
    /\ EOF \notin Nat /\ None \notin Nat \cup Msgs \cup Handlers \cup {EOF}

VARIABLES
    next_timeout,   \* the list of timers
    thr,            \* where tcpip_thread is
    msg,            \* the message or the timer it handles
    inpkts,         \* blocks of MEMP_TCPIP_MSG_INPKT in use
    conn,           \* the netconn and its pcb
    blocks,         \* free blocks of CoMboxBuffer
    cli,            \* where the client is
    api,            \* its struct api_msg: the function called, and the error it ends with
    buf,            \* what its receive returned, until it is dealt with
    \* History, for the properties only.
    waited,         \* ticks since tcpip_thread began to wait
    owed,           \* of the TCP timer: its interval less the ticks and messages since
    order,          \* the timers in the list in the order they were armed
    lost            \* a segment TCP took as delivered did not reach the mailbox

vT == <<next_timeout, owed, order>>
vC == <<cli, buf, blocks>>
vars == <<os, thr, msg, inpkts, conn, api, waited, lost, vT, vC>>

Calls == {"newconn", "connect", "write", "recv", "close", "delconn"}

\* ERR_IS_FATAL.
Fatal == {"ABRT", "RST", "CLSD", "CONN"}

\* NETCONN_SET_SAFE_ERR: a fatal error stays.
SafeErr(c, err) == IF c.last_err \in Fatal THEN c ELSE [c EXCEPT !.last_err = err]

\* What a pcb sends: segments queued; whether none of them went out, some wait
\* unacked, or all that went out are back among the unsent; the other side's window,
\* which lets the next segment out or not ("zero": and the persist timer runs);
\* retransmissions, and whether it is in a fast one (TF_INFR).
NoSnd == [queue |-> 0, out |-> "unsent", wnd |-> "open", nrtx |-> 0, infr |-> FALSE]

Windows == {"open", "small", "zero"}
Snd == [queue : 0 .. TCP_SND_QUEUELEN, out : {"unsent", "unacked", "resend"}, wnd : Windows,
        nrtx : 0 .. NrtxValues - 1, infr : BOOLEAN]

\* A netconn: its error and state, whether it has its mailbox, whether current_msg
\* is set; of its pcb the state, the end of the other side's data, what it sends;
\* segments received and segments read.
NoConn == [last_err |-> "OK", state |-> "NONE", recvmbox |-> FALSE, current_msg |-> FALSE,
           pcb |-> "NULL", fin |-> FALSE, snd |-> NoSnd, rcvd |-> 0, read |-> 0]

NoBuf == 0      \* segments are numbered from 1

Init ==
    /\ os = OSStart([t \in Task |-> CASE t = Tcpip -> 1 [] t = Client -> 2 [] t = Rest -> 3],
                    [e \in Event |-> IF e = "mbox" THEN OSQCreate(TCPIP_MBOX_SIZE) ELSE Unused])
    /\ next_timeout = sys_timeouts_init
    /\ order = <<"ip_reass_timer", "arp_timer">>
    /\ owed = 0
    /\ thr = "fetch" /\ msg = None /\ inpkts = 0
    /\ conn = NoConn /\ blocks = Blocks /\ cli = "alloc"
    /\ api = [fn |-> "newconn", err |-> "OK"] /\ buf = NoBuf
    /\ waited = 0 /\ lost = FALSE

-----------------------------------------------------------------------------
(* sys_arch.c.                                                                *)

\* Mutant: a mailbox is valid as long as it exists.
ValidIfThere(there, e) == there

\* sys_mbox_valid: a full mailbox counts as invalid, as one that was deleted does.
sys_mbox_valid(there, e) == there /\ ~OSQFull(os, e)

RecvValid == sys_mbox_valid(conn.recvmbox, "recvmbox")
MboxValid == sys_mbox_valid(TRUE, "mbox")

-----------------------------------------------------------------------------
(* Timers.                                                                    *)

\* sys_timeout from tcpip_thread, of a timer that is not in the list.
ArmTimer(h) ==
    /\ next_timeout' = sys_timeout(next_timeout, Interval[h], h)
    /\ owed' = IF h = "tcpip_tcp_timer" THEN Interval[h] ELSE owed
    /\ order' = Append(order, h)

HeadTime == IF next_timeout = <<>> THEN 0 ELSE Head(next_timeout).time

Without(s, h) == RemoveAt(s, CHOOSE i \in DOMAIN s : s[i] = h)

\* The first timer leaves the list; its handler comes next.
FireHead ==
    /\ msg' = Head(next_timeout).h /\ thr' = "timer"
    /\ next_timeout' = Tail(next_timeout)
    /\ order' = Without(order, Head(next_timeout).h)
    /\ UNCHANGED owed

Less1(n) == n - Lesser(n, 1)

\* Message m came after so many ticks of waiting.
Took(m, ticks) ==
    /\ msg' = m /\ thr' = "handle"
    /\ \E wraps \in BOOLEAN : next_timeout' = Waited(next_timeout, TimeNeeded(ticks, wraps))
    /\ owed' = IF ticks = 0 THEN 0 ELSE Less1(owed)
    /\ UNCHANGED order

\* One pass of sys_timeouts_mbox_fetch up to its wait.
Fetch ==
    /\ Runs(Tcpip) /\ thr = "fetch" /\ waited' = 0
    /\ \/ /\ next_timeout # <<>> /\ HeadTime = 0
          /\ FireHead /\ UNCHANGED os
       \/ /\ next_timeout = <<>> \/ HeadTime > 0
          /\ os' = OSQPend(os, "mbox", HeadTime)
          /\ IF OSQEntries(os, "mbox") > 0 THEN Took(Oldest(os, "mbox"), 0)
             ELSE thr' = "wait" /\ UNCHANGED <<msg, vT>>
    /\ UNCHANGED <<inpkts, conn, api, lost, vC>>

\* The end of the wait.
FetchReturns ==
    /\ Returns(Tcpip) /\ thr = "wait" /\ os' = PendTail(os)
    /\ IF os.tcb[Tcpip].StatPend = "TO" THEN FireHead ELSE Took(os.tcb[Tcpip].Msg, waited)
    /\ waited' = 0
    /\ UNCHANGED <<inpkts, conn, api, lost, vC>>

Expires(h) == Runs(Tcpip) /\ thr = "timer" /\ msg = h /\ thr' = "fetch" /\ msg' = None

\* ip_reass_timer and arp_timer arm themselves again.
PlainTimer ==
    \E h \in Handlers \ {"tcpip_tcp_timer"} :
        Expires(h) /\ ArmTimer(h) /\ UNCHANGED <<os, inpkts, conn, api, waited, lost, vC>>

-----------------------------------------------------------------------------
(* What TCP sends (tcp.c, tcp_in.c, tcp_out.c).                               *)

\* tcp_output; the congestion window and Nagle hold back nothing while no segment is
\* unacked.
tcp_output(s) == IF s.queue > 0 /\ s.wnd = "open" THEN [s EXCEPT !.out = "unacked"] ELSE s

\* tcp_rexmit and tcp_rexmit_rto.
Rexmit(s) == [s EXCEPT !.nrtx = (@ + 1) % NrtxValues, !.out = "resend"]

\* The SYN is queued and goes out; it is acknowledged, its retransmissions stay counted,
\* and a window of 0 does not start the persist timer yet.
Syn(s) == [s EXCEPT !.queue = 1, !.out = "unacked"]
SynAcked(s, w) == [s EXCEPT !.queue = 0, !.out = "unsent", !.wnd = w]

\* A segment is queued.
Enqueued(s) == tcp_output([s EXCEPT !.queue = @ + 1])

\* The retransmission time-out, which a period of the timer stands for, unless the
\* persist timer runs instead: its probes are not counted.
Slow(s) == IF s.out = "unacked" /\ s.wnd # "zero" THEN tcp_output(Rexmit(s)) ELSE s

\* An acknowledgement of n segments, and of all that went out or not.
Acked(s, n, o, w) ==
    tcp_output([s EXCEPT !.queue = @ - n, !.out = IF n = s.queue THEN "unsent" ELSE o,
                         !.wnd = w, !.nrtx = 0, !.infr = FALSE])
Acks(s) == {Acked(s, n, o, w) : n \in 1 .. (IF s.out = "unsent" THEN 0 ELSE s.queue),
                                o \in {"unsent", "resend", s.out}, w \in Windows}

\* One of none: a new window, or the third time the same, tcp_rexmit_fast, with
\* which the other segments stay unacked.
DupAcks(s) ==
    {tcp_output([s EXCEPT !.wnd = w]) : w \in Windows} \cup
    {tcp_output([Rexmit(s) EXCEPT !.infr = TRUE, !.out = o])
        : o \in (IF s.out = "unacked" /\ ~s.infr THEN {"unacked", "resend"} ELSE {})}

-----------------------------------------------------------------------------
(* The netconn interface in tcpip_thread (api_msg.c).                         *)

Signal(k) == OSSemPost(k, "op_completed")

\* TCPIP_APIMSG_ACK.
Ack(err) == os' = Signal(os) /\ api' = [api EXCEPT !.err = err]

\* recv_tcp: a segment, or the end of the data. One that finds the mailbox full
\* is taken as delivered all the same.
recv_tcp(c, p) ==
    /\ UNCHANGED api
    /\ IF RecvValid THEN /\ os' = OSQPost(os, "recvmbox", p)
                         /\ conn' = SafeErr(c, "OK") /\ UNCHANGED lost
                    ELSE conn' = c /\ lost' = TRUE /\ UNCHANGED os

\* Mutant: the call in progress keeps its message.
err_tcp_keeps(err) ==
    LET pending == conn.state \in {"WRITE", "CLOSE", "CONNECT"}
        k       == IF RecvValid THEN OSQPost(os, "recvmbox", EOF) ELSE os
    IN  /\ conn' = [conn EXCEPT !.pcb = "NULL", !.snd = NoSnd, !.last_err = err, !.state = "NONE"]
        /\ os' = (IF pending THEN Signal(k) ELSE k)
        /\ api' = (IF pending THEN [api EXCEPT !.err = err] ELSE api)
        /\ UNCHANGED lost

\* Mutant: the call in progress is not answered.
err_tcp_silent(err) ==
    /\ conn' = [conn EXCEPT !.pcb = "NULL", !.snd = NoSnd, !.last_err = err, !.state = "NONE",
                            !.current_msg = FALSE]
    /\ os' = (IF RecvValid THEN OSQPost(os, "recvmbox", EOF) ELSE os)
    /\ UNCHANGED <<api, lost>>

\* err_tcp: the pcb is gone; a receive is woken, a call in progress answered.
err_tcp(err) ==
    LET pending == conn.state \in {"WRITE", "CLOSE", "CONNECT"}
        k       == IF RecvValid THEN OSQPost(os, "recvmbox", EOF) ELSE os
    IN  /\ conn' = [conn EXCEPT !.pcb = "NULL", !.snd = NoSnd, !.last_err = err, !.state = "NONE",
                                !.current_msg = FALSE]
        /\ os' = (IF pending THEN Signal(k) ELSE k)
        /\ api' = (IF pending THEN [api EXCEPT !.err = err] ELSE api)
        /\ UNCHANGED lost

do_connected(w) ==
    /\ conn' = [conn EXCEPT !.pcb = "ESTABLISHED", !.state = "NONE", !.current_msg = FALSE,
                            !.snd = SynAcked(@, w)]
    /\ Ack("OK") /\ UNCHANGED lost

\* Everything is queued for sending, or the call waits for room or for memory; s is
\* what the pcb sends so far.
do_writemore(s) ==
    /\ \/ /\ s.queue < TCP_SND_QUEUELEN
          /\ conn' = [conn EXCEPT !.state = "NONE", !.current_msg = FALSE,
                                  !.snd = Enqueued(s)]
          /\ Ack("OK")
       \/ /\ conn' = [conn EXCEPT !.state = "WRITE", !.current_msg = TRUE, !.snd = s]
          /\ UNCHANGED <<os, api>>
    /\ UNCHANGED lost

\* The pcb is closed, or tcp_close found no memory for the FIN of an open
\* connection; k and c are the kernel and the netconn so far.
do_close_internal(k, c) ==
    /\ \/ /\ conn' = [c EXCEPT !.pcb = "NULL", !.snd = NoSnd, !.state = "NONE",
                               !.current_msg = FALSE]
          /\ os' = Signal(k) /\ api' = [api EXCEPT !.err = "OK"]
       \/ /\ c.pcb = "ESTABLISHED"
          /\ conn' = [c EXCEPT !.state = "CLOSE", !.current_msg = TRUE]
          /\ os' = k /\ UNCHANGED api
    /\ UNCHANGED lost

\* poll_tcp and sent_tcp go on with the call in progress.
GoesOn(s) == CASE conn.state = "WRITE" -> do_writemore(s)
               [] conn.state = "CLOSE" -> do_close_internal(os, [conn EXCEPT !.snd = s])
               [] OTHER -> conn' = [conn EXCEPT !.snd = s] /\ UNCHANGED <<os, api, lost>>

\* do_close and do_delconn once the mailbox is drained.
EndConn(k, c) ==
    IF c.pcb = "NULL" THEN /\ conn' = c /\ os' = Signal(k) /\ UNCHANGED lost
                           /\ api' = [api EXCEPT !.err = IF api.fn = "close" THEN "VAL" ELSE @]
    ELSE do_close_internal(k, c)

-----------------------------------------------------------------------------
(* What tcpip_thread does with a message.                                     *)

Handles(m) == Runs(Tcpip) /\ thr = "handle" /\ msg = m /\ msg' = None
Asked(fn) == Handles("API") /\ api.fn = fn

newconn ==
    /\ Asked("newconn") /\ thr' = "fetch"
    /\ conn' = [conn EXCEPT !.pcb = "CLOSED"] /\ Ack("OK")
    /\ UNCHANGED <<inpkts, waited, lost, vT, vC>>

\* tcp_connect sends a SYN and needs the TCP timer, or finds no route; the
\* netconn is new, its state NONE.
do_connect ==
    /\ Asked("connect") /\ thr' = "fetch"
    /\ \/ /\ conn' = [conn EXCEPT !.pcb = "SYN_SENT", !.state = "CONNECT", !.current_msg = TRUE,
                                  !.snd = Syn(@)]
          /\ IF "tcpip_tcp_timer" \in Armed(next_timeout) THEN UNCHANGED vT
             ELSE ArmTimer("tcpip_tcp_timer")
          /\ UNCHANGED <<os, api>>
       \/ Ack("RTE") /\ UNCHANGED <<conn, vT>>
    /\ UNCHANGED <<inpkts, waited, lost, vC>>

do_write ==
    /\ Asked("write") /\ thr' = "fetch"
    /\ IF conn.last_err \in Fatal THEN Ack(conn.last_err) /\ UNCHANGED <<conn, lost>>
       ELSE IF conn.pcb = "NULL" THEN Ack("CONN") /\ UNCHANGED <<conn, lost>>
       ELSE do_writemore(conn.snd)
    /\ UNCHANGED <<inpkts, waited, vT, vC>>

\* The segment counts as read: its room in the window is given back.
do_recv ==
    /\ Asked("recv") /\ thr' = "fetch" /\ Ack("OK")
    /\ conn' = IF buf = EOF THEN conn ELSE [conn EXCEPT !.read = @ + 1]
    /\ UNCHANGED <<inpkts, waited, lost, vT, vC>>

\* do_close and do_delconn up to the last sys_mbox_tryfetch of netconn_drain, which
\* finds the mailbox empty and waits a tick; a mailbox that is not valid is left.
do_close ==
    /\ Handles("API") /\ api.fn \in {"close", "delconn"}
    /\ IF RecvValid /\ (api.fn = "delconn" \/ conn.pcb # "NULL")
       THEN /\ thr' = "drain" /\ UNCHANGED <<conn, api, lost>>
            /\ os' = OSQPend([os EXCEPT !.ev["recvmbox"].Ptr.q = <<>>], "recvmbox", 1)
       ELSE thr' = "fetch" /\ EndConn(os, conn)
    /\ UNCHANGED <<inpkts, waited, vT, vC>>

DrainReturns ==
    /\ Returns(Tcpip) /\ thr = "drain" /\ thr' = "fetch"
    /\ EndConn(OSDel(PendTail(os), "recvmbox"), [conn EXCEPT !.recvmbox = FALSE])
    /\ UNCHANGED <<msg, inpkts, waited, vT, vC>>

\* A packet: what TCP makes of it, if it expects it.
Open == conn.pcb = "ESTABLISHED" /\ ~conn.fin /\ conn.state # "CLOSE"
Expected(p) ==
    CASE p = "SYNACK" -> conn.pcb = "SYN_SENT"
      [] p = "RST" -> conn.pcb \in {"SYN_SENT", "ESTABLISHED"}
      [] p = "DATA" -> Open /\ conn.rcvd < Segments
      [] p = "FIN" -> Open
      [] p = "ACK" -> conn.pcb = "ESTABLISHED"

tcp_receive ==
    \/ \E s \in Acks(conn.snd) : GoesOn(s)
    \/ \E s \in DupAcks(conn.snd) : conn' = [conn EXCEPT !.snd = s] /\ UNCHANGED <<os, api, lost>>

ethernet_input ==
    \E p \in Packets :
        /\ Handles(p) /\ thr' = "fetch" /\ inpkts' = inpkts - 1
        /\ IF ~Expected(p) THEN UNCHANGED <<os, conn, api, lost>>
           ELSE CASE p = "SYNACK" -> \E w \in Windows \ {"zero"} : do_connected(w)
                  [] p = "RST" -> err_tcp("RST")
                  [] p = "DATA" -> recv_tcp([conn EXCEPT !.rcvd = @ + 1], conn.rcvd + 1)
                  [] p = "FIN" -> recv_tcp([conn EXCEPT !.fin = TRUE], EOF)
                  [] p = "ACK" -> tcp_receive
        /\ UNCHANGED <<waited, vT, vC>>

\* tcp_slowtmr: the connection is given up at that many retransmissions exactly, or
\* goes on and may be polled.
GivesUp ==
    \/ conn.pcb = "SYN_SENT" /\ conn.snd.nrtx = TCP_SYNMAXRTX
    \/ conn.pcb \in {"SYN_SENT", "ESTABLISHED"} /\ conn.snd.nrtx = TCP_MAXRTX

tcp_tmr ==
    \/ GivesUp /\ err_tcp("ABRT")
    \/ ~GivesUp /\ GoesOn(Slow(conn.snd))
    \/ /\ ~GivesUp /\ conn' = [conn EXCEPT !.snd = Slow(conn.snd)]
       /\ UNCHANGED <<os, api, lost>>

\* The timer goes on while a connection is there; one that was closed may still be.
tcpip_tcp_timer ==
    /\ Expires("tcpip_tcp_timer") /\ tcp_tmr
    /\ \/ ArmTimer("tcpip_tcp_timer")
       \/ conn'.pcb \in {"NULL", "CLOSED"} /\ UNCHANGED vT
    /\ UNCHANGED <<inpkts, waited, vC>>

-----------------------------------------------------------------------------
(* The client (tcp_client_thread_netconn) and its side of the calls.          *)

\* tcpip_apimsg is called next.
Calling(fn) == cli' = "call" /\ api' = [fn |-> fn, err |-> "VAL"]

\* netconn_new: without a block it fails, and the client tries again, at once and for
\* ever. The netconn, the semaphore and the queue are always to be had.
netconn_alloc ==
    /\ Runs(Client) /\ cli = "alloc" /\ blocks > 0
    /\ blocks' = blocks - 1
    /\ os' = [os EXCEPT !.ev["recvmbox"] = OSQCreate(RECVMBOX_SIZE),
                        !.ev["op_completed"] = OSSemCreate(0)]
    /\ conn' = [NoConn EXCEPT !.recvmbox = TRUE] /\ Calling("newconn")
    /\ lost' = FALSE
    /\ UNCHANGED <<thr, msg, inpkts, waited, vT, buf>>

\* tcpip_apimsg: the message is posted, then its answer awaited.
Call ==
    /\ Runs(Client) /\ cli = "call"
    /\ IF MboxValid THEN os' = OSQPost(os, "mbox", "API") /\ cli' = "await"
       ELSE cli' = "answered" /\ UNCHANGED os
    /\ UNCHANGED <<thr, msg, inpkts, conn, api, waited, lost, vT, buf, blocks>>

Await ==
    /\ Runs(Client) /\ cli = "await"
    /\ os' = OSSemPend(os, "op_completed", 0)
    /\ cli' = IF os.ev["op_completed"].Cnt > 0 THEN "answered" ELSE "asleep"
    /\ UNCHANGED <<thr, msg, inpkts, conn, api, waited, lost, vT, buf, blocks>>

AwaitReturns ==
    /\ Returns(Client) /\ cli = "asleep" /\ os' = PendTail(os) /\ cli' = "answered"
    /\ UNCHANGED <<thr, msg, inpkts, conn, api, waited, lost, vT, buf, blocks>>

\* What the client does with the answer: data received is written back, and after a
\* write of its own it receives. netconn_free ends a netconn.
Proceed ==
    /\ Runs(Client) /\ cli = "answered"
    /\ CASE api.fn = "newconn" -> Calling("connect") /\ UNCHANGED <<os, conn>>
         [] api.fn = "connect" ->
                /\ conn' = SafeErr(conn, api.err) /\ UNCHANGED os
                /\ IF api.err = "OK" THEN cli' = "loop" /\ UNCHANGED api
                   ELSE Calling("delconn")
         [] api.fn = "write" -> /\ cli' = IF buf = NoBuf THEN "recv" ELSE "loop"
                                /\ conn' = SafeErr(conn, api.err) /\ UNCHANGED <<os, api>>
         [] api.fn = "recv" /\ buf # EOF -> Calling("write") /\ UNCHANGED <<os, conn>>
         [] api.fn = "recv" /\ buf = EOF ->
                conn' = SafeErr(conn, "CLSD") /\ Calling("close") /\ UNCHANGED os
         [] api.fn = "close" -> conn' = SafeErr(conn, api.err) /\ Calling("delconn")
                                /\ UNCHANGED os
         [] api.fn = "delconn" -> os' = OSDel(os, "op_completed") /\ conn' = NoConn
                                  /\ cli' = "alloc" /\ UNCHANGED api
    /\ buf' = IF api.fn = "recv" THEN buf ELSE NoBuf
    /\ UNCHANGED <<thr, msg, inpkts, blocks, waited, lost, vT>>

\* The client sends its text if it was told to, and receives.
Loop ==
    /\ Runs(Client) /\ cli = "loop"
    /\ \/ Calling("write")
       \/ cli' = "recv" /\ UNCHANGED api
    /\ UNCHANGED <<os, thr, msg, inpkts, conn, waited, lost, vT, buf, blocks>>

\* Mutant: the mailbox is not looked at before the fetch.
netconn_recv_anyway ==
    /\ Runs(Client) /\ cli = "recv"
    /\ cli' = IF conn.recvmbox /\ conn.last_err \notin Fatal THEN "fetch" ELSE "loop"
    /\ UNCHANGED <<os, thr, msg, inpkts, conn, api, waited, lost, vT, buf, blocks>>

\* netconn_recv fails without a wait when the mailbox is not valid or a fatal error
\* is on record; the client goes on with its loop, whatever the error.
netconn_recv ==
    /\ Runs(Client) /\ cli = "recv"
    /\ cli' = IF RecvValid /\ conn.last_err \notin Fatal THEN "fetch" ELSE "loop"
    /\ UNCHANGED <<os, thr, msg, inpkts, conn, api, waited, lost, vT, buf, blocks>>

RecvFetch ==
    /\ Runs(Client) /\ cli = "fetch"
    /\ os' = OSQPend(os, "recvmbox", RecvTimeout)
    /\ IF OSQEntries(os, "recvmbox") > 0 THEN buf' = Oldest(os, "recvmbox") /\ Calling("recv")
       ELSE cli' = "fetching" /\ UNCHANGED <<buf, api>>
    /\ UNCHANGED <<thr, msg, inpkts, conn, waited, lost, vT, blocks>>

RecvReturns ==
    /\ Returns(Client) /\ cli = "fetching" /\ os' = PendTail(os)
    /\ IF os.tcb[Client].StatPend = "TO"
       THEN cli' = "loop" /\ conn' = SafeErr(conn, "TIMEOUT") /\ UNCHANGED <<buf, api>>
       ELSE buf' = os.tcb[Client].Msg /\ Calling("recv") /\ UNCHANGED conn
    /\ UNCHANGED <<thr, msg, inpkts, waited, lost, vT, blocks>>

-----------------------------------------------------------------------------
(* The rest.                                                                  *)

\* ethernetif_input and tcpip_input: a packet without a block is dropped, and the
\* other side may send it again.
tcpip_input ==
    /\ Runs(Rest) /\ MboxValid /\ inpkts < MEMP_NUM_TCPIP_MSG_INPKT
    /\ \E p \in Packets : os' = OSQPost(os, "mbox", p)
    /\ inpkts' = inpkts + 1
    /\ UNCHANGED <<thr, msg, conn, api, waited, lost, vT, vC>>

Tick ==
    /\ SysTick
    /\ waited' = IF thr = "wait" THEN Lesser(waited + 1, HeadTime) ELSE 0
    /\ owed' = Less1(owed)
    /\ UNCHANGED <<thr, msg, inpkts, conn, api, lost, next_timeout, order, vC>>

tcpip_thread ==
    \/ Fetch \/ FetchReturns \/ PlainTimer \/ tcpip_tcp_timer
    \/ newconn \/ do_connect \/ do_write \/ do_recv \/ do_close \/ DrainReturns
    \/ ethernet_input

tcp_client ==
    \/ netconn_alloc \/ Call \/ Await \/ AwaitReturns \/ Proceed
    \/ Loop \/ netconn_recv \/ RecvFetch \/ RecvReturns

Next == tcpip_thread \/ tcp_client \/ tcpip_input \/ Tick

\* The clock ticks, and a task that is given the processor again and again, for as
\* short a time as it may be, gets on.
Fairness == WF_vars(tcpip_thread) /\ SF_vars(tcp_client) /\ WF_vars(Tick)

Spec == Init /\ [][Next]_vars /\ Fairness

-----------------------------------------------------------------------------
(* Properties.                                                                *)

\* The type of every variable: the kernel's own is in Kernel.
TypeOK ==
    /\ os.Cur \in Task
    /\ os.ev["mbox"].Ptr.q \in Seq(Msgs)
    /\ os.ev["recvmbox"].Ptr # None => os.ev["recvmbox"].Ptr.q \in Seq(1 .. Segments \cup {EOF})
    /\ os.ev["op_completed"].Cnt \in 0 .. 1
    /\ next_timeout \in Seq([h : Handlers, time : Nat])
    /\ order \in Seq(Handlers) /\ owed \in Nat /\ waited \in Nat
    /\ thr \in {"fetch", "wait", "handle", "timer", "drain"}
    /\ msg \in Msgs \cup Handlers \cup {None}
    /\ inpkts \in 0 .. MEMP_NUM_TCPIP_MSG_INPKT
    /\ conn \in [last_err : Fatal \cup {"OK", "RTE", "VAL", "TIMEOUT"},
                 state : {"NONE", "CONNECT", "WRITE", "CLOSE"},
                 recvmbox : BOOLEAN, current_msg : BOOLEAN,
                 pcb : {"NULL", "CLOSED", "SYN_SENT", "ESTABLISHED"}, fin : BOOLEAN,
                 snd : Snd, rcvd : 0 .. Segments, read : 0 .. Segments]
    /\ blocks \in 0 .. Blocks /\ lost \in BOOLEAN
    /\ cli \in {"alloc", "call", "await", "asleep", "answered", "loop", "recv", "fetch", "fetching"}
    /\ api \in [fn : Calls, err : Fatal \cup {"OK", "RTE", "VAL"}]
    /\ buf \in 0 .. Segments \cup {EOF}

Count(b) == IF b THEN 1 ELSE 0

\* Where the call the client makes may be: on its way to tcpip_thread, with it, kept
\* as current_msg, or answered.
Copies ==
    LET q == os.ev["mbox"].Ptr.q
    IN  Cardinality({i \in DOMAIN q : q[i] = "API"})
        + Count(os.tcb[Tcpip].Msg = "API") + Count(msg = "API") + Count(thr = "drain")
        + Count(conn.current_msg) + os.ev["op_completed"].Cnt
        + Count(cli = "asleep" /\ os.ev["op_completed"].Tbl = {})

\* The message of a call lives on the client's stack, and op_completed is all that
\* says it is done with: exactly one of the two is about while the client waits, and
\* neither at any other time.
AnsweredOnce == Copies = Count(cli \in {"await", "asleep"})

\* tcpip_thread's mailbox never fills: no post to it fails or is repeated, and no
\* call is refused because the full mailbox counts as invalid.
RoomForCalls == OSQEntries(os, "mbox") < TCPIP_MBOX_SIZE

\* The three ways the client ends: no block is left, its mailbox is full (and it does
\* not take from it yet), or the connection failed while it was not receiving.
Exhausted == cli = "alloc" /\ blocks = 0
Clogged == conn.recvmbox /\ OSQFull(os, "recvmbox") /\ cli # "fetch"
Spurned == /\ conn.last_err \in Fatal
           /\ \/ cli \in {"loop", "recv"}
              \/ cli \in {"call", "await", "asleep", "answered"} /\ api.fn = "write"
              \/ cli \in {"call", "await", "asleep", "answered"} /\ api.fn = "recv" /\ buf # EOF
Stuck == Exhausted \/ Clogged \/ Spurned

\* Once stuck the client stays so: it neither reads what fills its mailbox, nor
\* closes the failed connection, nor gets a block again.
StuckForEver == [][Stuck => Stuck']_vars

\* The client reads the segments in order, none left out, and the end of the data
\* after all of them.
InOrder ==
    [][(buf' # buf /\ buf' # NoBuf) =>
            IF buf' = EOF THEN conn.read = conn.rcvd ELSE buf' = conn.read + 1]_vars

\* The TCP timer does not go off before its interval is over, but for a millisecond
\* with each message tcpip_thread took, and for a message it took within a tick.
NotEarly == [][(thr' = "timer" /\ thr # "timer" /\ msg' = "tcpip_tcp_timer") => owed = 0]_vars

\* The list is a set of timers that go off in the order they are due.
A == INSTANCE Timers WITH
        timers <- [i \in DOMAIN order |->
                    [h |-> order[i], left |-> Due(next_timeout, Place(next_timeout, order[i]))]]
ImplementsTimers == A!ASpec

\* A write or a close for which no retransmission is counted: the other side keeps its
\* window shut, or nothing it should acknowledge is out and memory or room is short.
Stalled ==
    /\ conn.state \in {"WRITE", "CLOSE"}
    /\ conn.snd.wnd = "zero" \/ conn.snd.out # "unacked"

\* Every call of the client returns or stalls, if handling timers leaves time for the
\* others: nothing else can keep it waiting.
TimersLeaveTime == []<>(os.Cur # Tcpip)
Waiting == cli \in {"await", "asleep"}
CallsReturn == TimersLeaveTime => (Waiting ~> (cli = "answered" \/ Stalled))

\* A call of the client is made once and answered once, and there is always room
\* for it.
CallsSound == TypeOK /\ AnsweredOnce /\ RoomForCalls

\* A connection is a stream, and what TCP took as delivered is lost only with the
\* mailbox full.
StreamKept == InOrder /\ [](lost => Clogged)

\* Timers go off in the order they are due, and not early.
TimersRight == ImplementsTimers /\ NotEarly
================================================================================
