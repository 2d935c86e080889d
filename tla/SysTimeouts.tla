------------------------------- MODULE SysTimeouts -------------------------------
(* The list of lwIP's timers (core/timers.c): each entry holds the time that *)
(* passes between the one before it and its own, the first entry the time    *)
(* from now. Operators from list to list.                                    *)
EXTENDS Naturals, Sequences, SequencesExt

CONSTANTS
    TCP_TMR_INTERVAL,   \* 250 ms
    ARP_TMR_INTERVAL,   \* 5000 ms
    IP_TMR_INTERVAL,    \* 1000 ms
    SYS_ARCH_LONG       \* what 0xffffffff ticks come to in ms: longer than any timer

\* The timers of this configuration: LWIP_DHCP, LWIP_UDP and with it DNS are off.
Handlers == {"tcpip_tcp_timer", "arp_timer", "ip_reass_timer"}

Interval == [h \in Handlers |-> CASE h = "tcpip_tcp_timer" -> TCP_TMR_INTERVAL
                                  [] h = "arp_timer" -> ARP_TMR_INTERVAL
                                  [] h = "ip_reass_timer" -> IP_TMR_INTERVAL]

ASSUME TimeoutsAssumption ==
    /\ \A h \in Handlers : Interval[h] \in Nat \ {0}
    /\ SYS_ARCH_LONG \in Nat /\ \A h \in Handlers : SYS_ARCH_LONG > Interval[h]

Lesser(a, b) == IF a < b THEN a ELSE b

\* The time until the i-th entry is due.
Due(list, i) ==
    LET due[j \in 0 .. Len(list)] == IF j = 0 THEN 0 ELSE due[j - 1] + list[j].time
    IN  due[i]

\* The timers in the list, and the place of one of them.
Armed(list) == {list[i].h : i \in DOMAIN list}
Place(list, h) == CHOOSE i \in DOMAIN list : list[i].h = h

\* Mutant: the entry after a new one keeps its time.
sys_timeout_keeps(list, msecs, h) ==
    LET n == Cardinality({i \in DOMAIN list : Due(list, i) <= msecs})
    IN  InsertAt(list, n + 1, [h |-> h, time |-> msecs - Due(list, n)])

\* A new entry goes after all that are due no later than itself; the entry that
\* follows it counts from it.
sys_timeout(list, msecs, h) ==
    LET n    == Cardinality({i \in DOMAIN list : Due(list, i) <= msecs})
        time == msecs - Due(list, n)
        rest == IF n < Len(list) THEN [list EXCEPT ![n + 1].time = @ - time] ELSE list
    IN  InsertAt(rest, n + 1, [h |-> h, time |-> time])

\* sys_timeouts_init.
sys_timeouts_init ==
    sys_timeout(sys_timeout(<<>>, IP_TMR_INTERVAL, "ip_reass_timer"),
                ARP_TMR_INTERVAL, "arp_timer")

\* A message came after time_needed: the first timer is that much nearer.
Waited(list, time_needed) ==
    IF list = <<>> THEN list ELSE [list EXCEPT ![1].time = @ - Lesser(@, time_needed)]

-----------------------------------------------------------------------------
(* The port's clock (sys_arch.c).                                             *)

\* What sys_arch_mbox_fetch returns for a message that came after so many ticks.
\* When the tick counter shows no later time than at the start, 0xffffffff is
\* added: for no tick at all that is a long time, and when the counter wrapped
\* meanwhile it is one tick short.
TimeNeeded(ticks, wraps) ==
    IF ticks = 0 THEN SYS_ARCH_LONG ELSE (IF wraps THEN ticks - 1 ELSE ticks) + 1
================================================================================
