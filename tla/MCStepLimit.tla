----------------------------- MODULE MCStepLimit -----------------------------
(* The instance of StepLimit for TLC: pulses with and without flat parts   *)
(* and with jumps, alone, beside another electrode, and two on an          *)
(* electrode.                                                              *)
EXTENDS StepLimit

MCPulse(td, tr, pw, tf, pr, v1, v2) ==
    [kind |-> "pulse", td |-> td, tr |-> tr, tf |-> tf, pw |-> pw, pr |-> pr,
     v1 |-> v1, v2 |-> v2]
MCConstant(td, v) == [kind |-> "constant", td |-> td, v2 |-> v]
MCElectrode(drive, sources) == [drive |-> drive, sources |-> sources]

MCTrapeze == MCPulse(3, 4, 5, 2, 15, 0, 4)
MCSquare == MCPulse(2, 0, 3, 0, 9, 1, -3)
MCTriangle == MCPulse(5, 2, 0, 4, 8, -2, 2)
MCSaw == MCPulse(1, 5, 0, 0, 7, 0, 5)
MCJump == MCConstant(7, 5)

MCSetups ==
    {<<MCElectrode("voltage", <<s>>)>> : s \in {MCTrapeze, MCSquare, MCTriangle, MCSaw, MCJump}}
    \cup {<<MCElectrode("current", <<MCTrapeze>>), MCElectrode("voltage", <<MCTriangle>>)>>,
          <<MCElectrode("voltage", <<MCSquare>>), MCElectrode("voltage", <<MCTrapeze>>)>>,
          <<MCElectrode("voltage", <<MCTriangle, MCJump>>), MCElectrode("current", <<MCSquare>>)>>}
==============================================================================
