----------------------------- MODULE PositionMove ------------------------------
(***************************************************************************)
(* What a pulse generator promises its caller.  A move is a direction and  *)
(* a number of pulses; the counted position follows one pulse at a time,   *)
(* in that direction only, and the move is done when no pulse is left.     *)
(* The environment may take a move away (a limit switch, another call),    *)
(* and while no move is in progress it may reset or jog the position.      *)
(***************************************************************************)
EXTENDS Integers

CONSTANT Half           \* positions are 0 .. 2*Half - 1 and wrap around

VARIABLES pos,          \* the counted position
          dir,          \* 1 forward, 2 reverse
          left,         \* pulses still to count
          fate          \* of the last move: "moving", "done", or "free"

mvars == << pos, dir, left, fate >>

Up(p) == IF p = 2 * Half - 1 THEN 0 ELSE p + 1
Down(p) == IF p = 0 THEN 2 * Half - 1 ELSE p - 1

MoveInit == pos = 0 /\ dir = 1 /\ left = 0 /\ fate = "free"

\* A move is accepted; its length is less than half the range.
Accept ==
    /\ fate = "free"
    /\ fate' = "moving"
    /\ dir' \in {1, 2}
    /\ left' \in 1 .. Half - 1
    /\ pos' = pos

Pulse ==
    /\ fate = "moving" /\ left > 0
    /\ pos' = IF dir = 1 THEN Up(pos) ELSE Down(pos)
    /\ left' = left - 1
    /\ UNCHANGED << dir, fate >>

Finish ==
    /\ fate = "moving" /\ left = 0
    /\ fate' = "done"
    /\ left' = 0
    /\ dir' \in {1, 2}
    /\ pos' = pos

\* The move is lost, or the position changes outside a move.
Interfere ==
    /\ fate' = "free"
    /\ left' = 0
    /\ dir' \in {1, 2}
    /\ pos' \in 0 .. 2 * Half - 1

MoveNext == Accept \/ Pulse \/ Finish \/ Interfere

MoveSafe == MoveInit /\ [][MoveNext]_mvars

\* A move goes on until it is done or lost.
MoveSpec == MoveSafe /\ WF_mvars(fate = "moving" /\ MoveNext)
================================================================================
