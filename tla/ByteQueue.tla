------------------------------- MODULE ByteQueue -------------------------------
(***************************************************************************)
(* What the receive path of the serial line promises the task that reads   *)
(* it: a queue.  A byte that is put is put behind all others, a byte that  *)
(* is got is the oldest, and no byte leaves in any other way.              *)
(***************************************************************************)
EXTENDS Naturals, Sequences

VARIABLES q,            \* bytes put and not yet got
          got           \* the last byte got

QInit == q = << >> /\ got = 0

Put ==
    /\ Len(q') = Len(q) + 1
    /\ \A k \in 1 .. Len(q) : q'[k] = q[k]
    /\ got' = got

Get ==
    /\ q # << >>
    /\ got' = Head(q)
    /\ q' = Tail(q)

QSpec == QInit /\ [][Put \/ Get]_<< q, got >>
================================================================================
