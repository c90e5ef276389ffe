------------------------------ MODULE MCIvTrace ------------------------------
(* Instances of IvTrace for TLC.                                           *)
EXTENDS IvTrace

MCSnapBack == 16 .. 21 \cup 34 .. 110    \* the potential falls back once
MCTurns == {11, 13}
==============================================================================
