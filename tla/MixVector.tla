------------------------------ MODULE MixVector ------------------------------
(***************************************************************************)
(* What mixed simulation does to the solution vector: the electrodes are   *)
(* nodes of a SPICE circuit, and ve says what CKTrhsOld of the circuit     *)
(* holds. It is saved with the solution and restored with it.              *)
(***************************************************************************)
EXTENDS SolutionVector

(* The rows of the electrodes are overwritten with the potentials of the   *)
(* circuit. A mixture with those of the stored solution is no mixture any  *)
(* more ("node" then stands for regions extrapolated, too).                *)
WithCircuit(x0) ==
    IF x0 \in {"node", "mixed"} THEN Filled
    ELSE IF x0 = "projected" /\ ve # "node" THEN "mixed"
    ELSE x0

(* pre_solve_process(load): the regions are filled when asked to, the rows *)
(* of the electrodes come from the circuit at every solve.                 *)
MixStart(load) == IF load THEN Filled ELSE WithCircuit(x)

(* diverged_recovery: only the regions are filled again, and the circuit   *)
(* is restored. The electrodes' rows stay those of the failed iterate.     *)
Recovered == "mixed"
MixRecovery == x' = Recovered /\ ve' = "node"
==============================================================================
