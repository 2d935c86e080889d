--------------------------------- MODULE Timers ----------------------------------
(* What a list of timers promises: a timer armed for some time goes off when  *)
(* that much of the list's own time has passed, the earliest first, and of   *)
(* two due together the one armed first. How the list's time is related to   *)
(* the clock is left open.                                                    *)
EXTENDS Naturals, Sequences, SequencesExt

CONSTANTS Handlers, Interval

VARIABLE timers     \* in the order they were armed, each with the time left

AInit ==
    /\ timers \in Seq([h : Handlers, left : Nat])
    /\ \A i \in DOMAIN timers : timers[i].left = Interval[timers[i].h]

Arm(h) ==
    /\ \A i \in DOMAIN timers : timers[i].h # h
    /\ timers' = Append(timers, [h |-> h, left |-> Interval[h]])

\* Time goes on, at most to the first timer due.
Less(s, d) == [i \in DOMAIN s |-> [s[i] EXCEPT !.left = @ - d]]

Pass ==
    \E d \in 1 .. Interval[CHOOSE h \in Handlers : \A g \in Handlers : Interval[g] <= Interval[h]] :
        /\ timers # <<>>
        /\ \A i \in DOMAIN timers : d <= timers[i].left
        /\ timers' = Less(timers, d)

First(i) == \A j \in DOMAIN timers : \/ timers[i].left < timers[j].left
                                     \/ timers[i].left = timers[j].left /\ i <= j

GoOff == \E i \in DOMAIN timers :
            First(i) /\ timers' = RemoveAt(Less(timers, timers[i].left), i)

ANext == (\E h \in Handlers : Arm(h)) \/ Pass \/ GoOff

ASpec == AInit /\ [][ANext]_timers
================================================================================
