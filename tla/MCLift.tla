-------------------------------- MODULE MCLift ---------------------------------
(* Small instances of Lift for TLC.  An orderly host needs six commands to *)
(* record a preset, leave it upwards and invoke it; a host that may post   *)
(* anything branches most and is given the fewest.                         *)
EXTENDS Lift, TLC

MCMaxPosts == "orderly" :> 6 @@ "single" :> 4 @@ "any" :> 3
================================================================================
