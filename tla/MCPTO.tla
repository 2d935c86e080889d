--------------------------------- MODULE MCPTO ---------------------------------
(* Small instances of PTO for TLC: ramps of two and of three levels, with  *)
(* a few pulses for each, more at each level as vPTOConfig computes them.  *)
EXTENDS PTO, TLC

MCPulseNum2 == 0 :> 2 @@ 1 :> 3
MCPulseSum2 == 0 :> 2 @@ 1 :> 5

MCPulseNum3 == 0 :> 2 @@ 1 :> 3 @@ 2 :> 4
MCPulseSum3 == 0 :> 2 @@ 1 :> 5 @@ 2 :> 9
================================================================================
