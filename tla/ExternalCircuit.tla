--------------------------- MODULE ExternalCircuit ---------------------------
(***************************************************************************)
(* The lumped circuit between a source and an electrode: resistor,         *)
(* inductor and a capacitor to ground (RCL), or two resistors and two      *)
(* capacitors (PI, the first link of a transmission line). Its equation    *)
(* is a row of the Newton system, integrated over a step of d by the       *)
(* values kept from the step before. Here it is the integral over the      *)
(* step, so that all terms are whole numbers; resistances are 1.           *)
(*                                                                         *)
(* The device behind the electrode and the source may do anything: any     *)
(* iterate is possible, and the source is what makes its residual zero.    *)
(***************************************************************************)
EXTENDS Integers

CONSTANTS
    Circuits,           \* circuits to check: records of kind ("RCL" or "PI"),
                        \* driven ("voltage" or "current"), C, C1 and L
    Values              \* potentials and currents an iterate may have

ASSUME CircuitAssumption ==
    /\ Circuits \subseteq [kind : {"RCL", "PI"}, driven : {"voltage", "current"},
                          C : Nat, C1 : Nat, L : Nat]
    /\ Values \subseteq Int

VARIABLES
    circuit,            \* the circuit of this electrode, never changed
    present,            \* _potential, _current and, behind R of a PI, _V1
    old,                \* the same as update() has kept them
    stored,             \* those of the solution on the nodes, and the current
                        \* J through the inductor (not kept by the code)
    error               \* how much the accepted steps violate Kirchhoff's laws

circuitVars == <<circuit, present, old, stored, error>>

(* Potentials and currents an iterate may have; what a kind does not store *)
(* is 0.                                                                   *)
Iterates ==
    [V : IF circuit.C > 0 THEN Values ELSE {0},
     I : IF circuit.L > 0 THEN Values ELSE {0},
     V1 : IF circuit.kind = "PI" THEN Values ELSE {0}]

(* _cap_current is declared and copied, but assigned 0 only.               *)
CapCurrentOld == 0

(* The charges of the capacitors since the potentials in from.             *)
ChargeC(from) == circuit.C * (present.V - from.V)
ChargeC1(from) == circuit.C1 * (present.V1 - from.V1)

(* The current through the inductor in a step of d: into the electrode and *)
(* the capacitor.                                                          *)
Branch(d, from) == present.I + ChargeC(from) \div d

(* mna_scaling * current + mna_function = 0, times d: what the source has  *)
(* supplied according to the code, d * Vapp or d * Iapp (of a PI without   *)
(* what leaves at the electrode).                                          *)
Supplied(d) ==
    IF circuit.kind = "PI" THEN ChargeC1(old) + ChargeC(old)
    ELSE IF circuit.driven = "current" THEN d * present.I + d * CapCurrentOld
    ELSE d * present.V + d * present.I + ChargeC(old)
         + circuit.L * (Branch(d, old) - old.I - CapCurrentOld)

(* The same by Kirchhoff's laws, between the stored solution and this one. *)
Kirchhoff(d) ==
    IF circuit.kind = "PI" THEN ChargeC1(stored) + ChargeC(stored)
    ELSE IF circuit.driven = "current" THEN d * present.I + ChargeC(stored)
    ELSE d * present.V + d * present.I + ChargeC(stored)
         + circuit.L * (Branch(d, stored) - stored.J)

------------------------------------------------------------------------------
(* tran_op_init: what is present is the state to start from.               *)
TranOpInit ==
    /\ circuit \in Circuits
    /\ present \in Iterates
    /\ old = present
    /\ stored = [V |-> present.V, V1 |-> present.V1, J |-> present.I]
    /\ error = 0

(* Every residual writes the values of its iterate. Where there is an      *)
(* inductor the iterates are those for which Branch is a whole number.     *)
Evaluate(d) ==
    /\ present' \in Iterates
    /\ circuit.L > 0 => (circuit.C * (present'.V - old.V)) % d = 0
    /\ UNCHANGED <<circuit, old, stored, error>>

(* Slip: update only keeps the current.                                    *)
CurrentOnly == [old EXCEPT !.I = present.I]
Kept == present

(* update(), called when the solution of a step of d is stored.            *)
Update(d) ==
    /\ old' = Kept
    /\ stored' = [V |-> present.V, V1 |-> present.V1, J |-> Branch(d, stored)]
    /\ error' = error + Supplied(d) - Kirchhoff(d)
    /\ UNCHANGED <<circuit, present>>
==============================================================================
