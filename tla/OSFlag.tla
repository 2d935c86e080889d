--------------------------------- MODULE OSFlag ---------------------------------
(* The event-flag calls of uC/OS-II (os_flag.c) that the application makes:    *)
(* a pend for any flag of a mask that consumes what it got, and a post that    *)
(* sets flags. A group g is a record:                                          *)
(*   Flags    the flags set                                                    *)
(*   Wait[t]  the mask t waits for, or {}: the nodes of the wait list          *)
(*   Rdy[t]   OSTCBFlagsRdy, the flags that ended the wait of t                *)
(* An operator that changes both the kernel and the group returns a record.    *)
EXTENDS OSCore

OSFlagCreate == [Flags |-> {}, Wait |-> [t \in Task |-> {}], Rdy |-> [t \in Task |-> {}]]

\* The flags t would get now.
FlagsFor(g, t) == g.Flags \cap g.Wait[t]

\* Consume flags as the running task's.
FlagsTaken(k, g, flags) ==
    [os |-> k, grp |-> [g EXCEPT !.Flags = @ \ flags, !.Rdy[k.Cur] = flags]]

OS_FlagBlock(k, g, mask, timeout) ==
    [os |-> OS_Sched(NotReady(
                [k EXCEPT !.tcb[k.Cur] = [k.tcb[k.Cur] EXCEPT !.Stat = @ \cup {"FLAG"},
                                                              !.StatPend = "OK", !.Dly = timeout]], k.Cur)),
     grp |-> [g EXCEPT !.Wait[k.Cur] = mask]]

\* OSFlagPend, up to the context switch.
OSFlagPend(k, g, mask, timeout) ==
    IF g.Flags \cap mask # {} THEN FlagsTaken(k, g, g.Flags \cap mask)
                              ELSE OS_FlagBlock(k, g, mask, timeout)

\* Its end: a task that was not answered unlinks its own node and gets nothing.
OSFlagPendTail(k, g) ==
    IF k.tcb[k.Cur].StatPend # "OK"
    THEN [os |-> [k EXCEPT !.tcb[k.Cur] = [k.tcb[k.Cur] EXCEPT !.Stat = {}, !.StatPend = "OK"]],
          grp |-> [g EXCEPT !.Wait[k.Cur] = {}, !.Rdy[k.Cur] = {}]]
    ELSE FlagsTaken(k, g, g.Rdy[k.Cur])

\* OSFlagPost with OS_FLAG_SET: OS_FlagTaskRdy for every task that gets a flag.
OSFlagPost(k, g, flags) ==
    LET g1  == [g EXCEPT !.Flags = @ \cup flags]
        got == {t \in Task : FlagsFor(g1, t) # {}}
        rdy == {t \in got : k.tcb[t].Stat \subseteq {"FLAG"}}
        k1  == [k EXCEPT !.tcb = [t \in Task |->
                    IF t \in got THEN [k.tcb[t] EXCEPT !.Dly = 0, !.StatPend = "OK",
                                                        !.Stat = @ \ {"FLAG"}] ELSE k.tcb[t]],
                         !.Rdy = @ \cup {k.tcb[t].Prio : t \in rdy}]
    IN  [os |-> IF rdy = {} THEN k1 ELSE OS_Sched(k1),
         grp |-> [g1 EXCEPT !.Wait = [t \in Task |-> IF t \in got THEN {} ELSE g.Wait[t]],
                            !.Rdy = [t \in Task |-> IF t \in got THEN FlagsFor(g1, t) ELSE g.Rdy[t]]]]
================================================================================
