----------------------------- MODULE MCDiffuse -----------------------------
(***************************************************************************)
(* The instance of Diffuse for TLC: a tick is the fourth part of the       *)
(* shortest step that can fail, so a step of 16 may be halved three times. *)
(***************************************************************************)
EXTENDS Diffuse
=============================================================================
