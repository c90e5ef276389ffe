------------------------------ MODULE MCDCSweep ------------------------------
(* Instances of DCSweep and MixSweep for TLC.                              *)
EXTENDS MixSweep

MCStart == -8           \* cfg files have no negative numbers
MCBelowZero == -4
==============================================================================
