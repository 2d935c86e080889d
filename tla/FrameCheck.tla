------------------------------- MODULE FrameCheck ------------------------------
(* The check byte of the serial protocol: the exclusive or of a run of bytes. *)
EXTENDS Naturals, Sequences

CONSTANTS
    Byte,               \* the bytes, 0 .. 255 in the code
    XorByte(_, _)       \* bitwise exclusive or

ASSUME XorAssumption ==
    /\ Byte \subseteq Nat /\ 0 \in Byte
    /\ \A a, b \in Byte : XorByte(a, b) \in Byte
    /\ \A a \in Byte : XorByte(a, 0) = a /\ XorByte(0, a) = a

\* The running check after each of the bytes of s.
RunningXor(s) ==
    LET x[k \in 0 .. Len(s)] == IF k = 0 THEN 0 ELSE XorByte(x[k - 1], s[k]) IN x

XorAll(s) == RunningXor(s)[Len(s)]
================================================================================
