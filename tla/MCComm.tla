--------------------------------- MODULE MCComm --------------------------------
(* A small instance of Comm for TLC: three-bit bytes, so that every byte   *)
(* value has several meanings (head, command, length, data, check).        *)
EXTENDS Comm, Bitwise

MCXorByte(a, b) == a ^^ b

MCTimes == {<< 4, 0, 1, 2, 3, 5, 7 >>, << 3, 1, 7, 6, 0, 0, 0 >>}
================================================================================
