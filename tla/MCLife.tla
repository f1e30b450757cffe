-------------------------------- MODULE MCLife --------------------------------
(***************************************************************************)
(* Small instances of AdlakLife for TLC.                                   *)
(***************************************************************************)
EXTENDS AdlakLife
=============================================================================
