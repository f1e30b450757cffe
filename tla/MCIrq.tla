-------------------------------- MODULE MCIrq --------------------------------
(* AdlakIrq for TLC: two tasks with last layers of different numbers, each  *)
(* invoked again and again, so that a status can be taken for that of the   *)
(* invoke before and the time stamp for that of either task.                *)
EXTENDS AdlakIrq, TLC
CONSTANTS t1, t2
Stamps == t1 :> 1 @@ t2 :> 2
=============================================================================
