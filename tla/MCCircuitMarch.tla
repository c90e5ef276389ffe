--------------------------- MODULE MCCircuitMarch ---------------------------
(* Instances of CircuitMarch for TLC.                                      *)
EXTENDS CircuitMarch

Circuit(kind, driven, C, C1, L) ==
    [kind |-> kind, driven |-> driven, C |-> C, C1 |-> C1, L |-> L]

(* Resistor and capacitor, resistor and inductor, and the line.            *)
MCSingle == {Circuit("RCL", "voltage", 2, 0, 0),
             Circuit("RCL", "voltage", 0, 0, 2),
             Circuit("PI", "voltage", 2, 3, 0)}

(* The figure of external_circuit_rcl.h, complete.                         *)
MCFigure == {Circuit("RCL", "voltage", 12, 0, 2)}
==============================================================================
