---------------------------- MODULE CircuitMarch ----------------------------
(***************************************************************************)
(* The march in time of a device with an external circuit at an electrode: *)
(* Transient and ExternalCircuit step together. Every solve, of a step     *)
(* that is stored or not, overwrites the present values of the circuit;    *)
(* nothing rolls them back; the values kept for the next step advance with *)
(* the solution on the nodes.                                              *)
(***************************************************************************)
EXTENDS Transient, ExternalCircuit

circuitMarchVars == <<vars, circuitVars>>

CircuitInit == Init /\ TranOpInit

SolveBoth == Solve /\ Evaluate(dt)

AcceptBoth == Accept /\ Update(dt)

OtherDevice == (Retry \/ GiveUp \/ Reject \/ While \/ Done) /\ UNCHANGED circuitVars

CircuitNext == SolveBoth \/ AcceptBoth \/ OtherDevice

CircuitSpec == CircuitInit /\ [][CircuitNext]_circuitMarchVars

CircuitFairSpec == CircuitSpec /\ WF_circuitMarchVars(CircuitNext)

------------------------------------------------------------------------------
(* Whatever was halved, rejected or solved in vain between two stored      *)
(* solutions, the step between them satisfies Kirchhoff's laws: the charge *)
(* and flux the source supplies (ExternalCircuit*::mna_function) are those *)
(* that capacitors, inductor and electrode have taken since the solution   *)
(* stored before.                                                          *)
KirchhoffHolds == error = 0
==============================================================================
