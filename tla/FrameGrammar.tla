------------------------------ MODULE FrameGrammar -----------------------------
(***************************************************************************)
(* The frames of the serial protocol, and what a receiver of them promises:*)
(* it follows the bytes of the line as long as they are the beginning of a *)
(* frame, forgets them at the first byte that does not fit (that byte      *)
(* included), and delivers a frame exactly when its last byte came in.     *)
(***************************************************************************)
EXTENDS FrameCheck

CONSTANTS
    HEAD1, HEAD2, END1, END2,
    Commands,           \* the command bytes a receiver accepts
    MaxData             \* 10: a frame has fewer data bytes than this

VARIABLES line,         \* the beginning of a frame received so far
          delivered     \* the frame delivered by the last byte, or << >>

\* A frame is HEAD1 HEAD2 command n data1 .. datan check END1 END2.
CheckOf(f) == XorAll(SubSeq(f, 3, 4 + f[4]))

Begins(l) ==
    LET n == l[4]
    IN  /\ Len(l) >= 1 => l[1] = HEAD1
        /\ Len(l) >= 2 => l[2] = HEAD2
        /\ Len(l) >= 3 => l[3] \in Commands
        /\ Len(l) >= 4 => n < MaxData /\ Len(l) <= n + 7
        /\ Len(l) >= 4 /\ Len(l) >= n + 5 => l[n + 5] = CheckOf(l)
        /\ Len(l) >= 4 /\ Len(l) >= n + 6 => l[n + 6] = END1
        /\ Len(l) >= 4 /\ Len(l) >= n + 7 => l[n + 7] = END2

IsFrame(f) == Len(f) >= 7 /\ Len(f) = f[4] + 7 /\ Begins(f)

LineInit == line = << >> /\ delivered = << >>

Follow(b) ==
    /\ Begins(Append(line, b)) /\ ~IsFrame(Append(line, b))
    /\ line' = Append(line, b) /\ delivered' = << >>

Forget(b) ==
    /\ ~Begins(Append(line, b))
    /\ line' = << >> /\ delivered' = << >>

Deliver(b) ==
    /\ IsFrame(Append(line, b))
    /\ line' = << >> /\ delivered' = Append(line, b)

Receive == \E b \in Byte : Follow(b) \/ Forget(b) \/ Deliver(b)

LineSpec == LineInit /\ [][Receive]_<< line, delivered >>
================================================================================
