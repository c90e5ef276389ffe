------------------------------ MODULE MCOpRamp ------------------------------
(* The instance of OpRamp for TLC: the operating point and the other       *)
(* analyses, with every combination of the flags.                          *)
EXTENDS OpRamp

MCModes == [op : BOOLEAN, method : BOOLEAN, cmos : BOOLEAN, steady : BOOLEAN]
==============================================================================
