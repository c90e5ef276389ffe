--------------------------- MODULE SolutionVector ---------------------------
(***************************************************************************)
(* The state that every analysis of the DDM solvers shares: the PETSc      *)
(* solution vector x, the solution stored on the mesh nodes, the potential *)
(* of the electrodes, the line search of the Newton solver and the reason  *)
(* of its last stop.                                                       *)
(*                                                                         *)
(* The contents of x are abstracted to where they came from:               *)
(*   "blank"      the vector as it was created, never filled               *)
(*   "node"       a copy of the stored solution                            *)
(*   "mixed"      the nodes' solution, extrapolated or not, with the       *)
(*                electrode potentials of an iterate that was not stored   *)
(*   "projected"  an extrapolation of accepted solutions                   *)
(*   "solved"     a converged Newton iterate, not stored yet               *)
(*   "diverged"   the last iterate of a Newton solve that failed           *)
(*   "nan"        a combination of solutions that divided by zero          *)
(* The stored solution is named by the point (bias, time, ramp position)   *)
(* it was solved at; Prior names what was there before the analysis.       *)
(***************************************************************************)
EXTENDS Integers

CONSTANT Prior          \* the solution the nodes hold when the analysis starts

ASSUME PriorAssumption == Prior \notin Int

VARIABLES
    x,                  \* what the solution vector holds
    node,               \* the point of the solution stored on the nodes
    ve,                 \* the potentials in the external circuits: those of
                        \* the stored solution, of an iterate since, or "nan"
    ls,                 \* the line search: as configured, or disabled
    reason              \* SNESConvergedReason of the last solve

vectorVars == <<x, node, ve, ls, reason>>

VectorType ==
    /\ x \in {"blank", "node", "mixed", "projected", "solved", "diverged", "nan"}
    /\ node \in Int \cup {Prior}
    /\ ve \in {"node", "iterate", "nan"}
    /\ ls \in {"configured", "basic"}
    /\ reason \in {"none", "converged", "diverged"}

(* create_solver makes a new vector; nodes and circuits keep what they     *)
(* hold, which is an unstored iterate when the analysis before has failed. *)
VectorInit(p) ==
    /\ x = "blank"
    /\ node = p
    /\ ve \in {"node", "iterate", "nan"}
    /\ ls = "configured"
    /\ reason = "none"

(* Fill_Value: the rows of the nodes from the stored solution, those of    *)
(* the electrodes from the circuits.                                       *)
Filled == IF ve = "node" THEN "node" ELSE "mixed"

(* pre_solve_process(load): x is filled only when asked to.                *)
PreSolve(load) == IF load THEN Filled ELSE x

(* Can the residual of this start vector be a number?                      *)
IsNumber(x0) == x0 # "nan" /\ (x0 \in {"mixed", "diverged"} => ve # "nan")

(* Every evaluation of the residual writes the electrode potentials of its *)
(* iterate to the circuits.                                                *)
Converges == x' = "solved" /\ ve' = "iterate" /\ reason' = "converged"
Fails == x' = "diverged" /\ ve' \in {"iterate", "nan"} /\ reason' = "diverged"

(* The Newton iteration from the vector x0. A vector that is not a number  *)
(* stops the solve. When the line search fails it is disabled for the rest *)
(* of the solver's life and the solve is tried once more after a recovery. *)
(* mayFail says whether a regular solve can fail at this point.            *)
SnesSolve(x0, mayFail) ==
    /\ IF IsNumber(x0)
       THEN /\ Converges \/ (mayFail /\ Fails)
            /\ ls' \in {ls, "basic"}
       ELSE Fails /\ ve' = "nan" /\ ls' = ls
    /\ UNCHANGED node

(* A vector a Newton solve may start from.                                 *)
StartVector == {"node", "mixed", "projected"}

(* Slips: a converged solution that is not stored; a recovery left out.    *)
PostSolveSkipped(p) == UNCHANGED <<node, ve>>
NoRecovery == x

(* post_solve_process: nodes and circuits take the solution in x, found at *)
(* the point p.                                                            *)
PostSolve(p) == node' = p /\ ve' = "node"

(* diverged_recovery: x is filled again. The circuits are not rolled back. *)
DivergedRecovery == Filled

(* Adding differences of accepted solutions to x0.                         *)
Extrapolated(x0) == IF x0 = "node" THEN "projected" ELSE x0
=============================================================================
