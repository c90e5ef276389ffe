----------------------------- MODULE MCMixMarch -----------------------------
(* The instance of MixMarch for TLC: both analyses.                        *)
EXTENDS MixMarch

MCBoth == {"OP", "TRANSIENT"}
==============================================================================
