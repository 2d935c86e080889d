---------------------------------- MODULE MCApp ----------------------------------
(* App for TLC. A build with vTaskMSD hidden behind vTaskRTC stands for the    *)
(* one without it, and one with vTaskStepMotor for the others that have it.   *)
EXTENDS App, TLC

MCTask == {Start, Step, Lift, Comm, RTC, MSD, Idle}
MCPrio == Lift :> 1 @@ Start :> 2 @@ Step :> 3 @@ Comm :> 4 @@ RTC :> 5 @@ MSD :> 6 @@ Idle :> 7
MCBuilds == {{MSD}, {RTC, MSD}, {Step, RTC, MSD}}
MCConv == [v \in Times |-> IF v = "december" THEN "month0" ELSE v]
================================================================================
