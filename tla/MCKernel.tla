-------------------------------- MODULE MCKernel --------------------------------
(* Three tasks and the idle task, as small an instance as has a waiter less *)
(* and one more urgent than the owner of the mutex.                         *)
EXTENDS Kernel, TLC

MCBasePrio == "hi" :> 2 @@ "mid" :> 3 @@ "lo" :> 4 @@ "idle" :> 5
================================================================================
