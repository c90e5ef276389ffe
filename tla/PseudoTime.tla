----------------------------- MODULE PseudoTime -----------------------------
(***************************************************************************)
(* DDMSolverBase::snes_solve_pseudo_time_step: the device is driven to its *)
(* steady state at fixed sources by a number of implicit steps of growing  *)
(* length; a step that fails is tried again with half the length. The      *)
(* lengths themselves only matter to Newton's method and are left out.     *)
(***************************************************************************)
EXTENDS SolutionVector

CONSTANTS
    PseudoTimeSteps,    \* at most this many steps (50)
    MaxDiverged,        \* this many failures end it (8)
    T_Cycles            \* steps of the last transient analysis, any before

ASSUME PseudoAssumption ==
    /\ PseudoTimeSteps \in Nat
    /\ MaxDiverged \in Nat \ {0}
    /\ T_Cycles \in Nat

VARIABLES
    pc,                 \* "pseudo" before a step, "pcheck" after its solve,
                        \* "pdone" at the return, more in the callers
    k,                  \* the step
    pseudo_retry,       \* failures so far
    steady,             \* has the stored solution passed the test?
    pseudo_ierr         \* the error returned

pseudoVars == <<k, pseudo_retry, steady, pseudo_ierr>>

PseudoType ==
    /\ VectorType
    /\ k \in 1 .. PseudoTimeSteps + 1
    /\ pseudo_retry \in 0 .. MaxDiverged
    /\ steady \in BOOLEAN
    /\ pseudo_ierr \in {0, 1}

PseudoInit ==
    /\ k = 1
    /\ pseudo_retry = 0
    /\ steady = FALSE
    /\ pseudo_ierr = 0

(* The local variables of the next call.                                   *)
PseudoBegin ==
    /\ pc' = "pseudo"
    /\ k' = 1
    /\ pseudo_retry' = 0
    /\ steady' = FALSE
    /\ pseudo_ierr' = 0

(* The vector is filled when no transient analysis has counted a step: the *)
(* counter is that of solve_transient, not one of this loop. Slip: it is   *)
(* filled for all steps but the first.                                     *)
LoadsLater == k > 1
PseudoLoads == T_Cycles = 0

PseudoSolve ==
    /\ pc = "pseudo"
    /\ k <= PseudoTimeSteps
    /\ SnesSolve(PreSolve(PseudoLoads), TRUE)
    /\ pc' = "pcheck"
    /\ UNCHANGED pseudoVars

PseudoOut ==
    /\ pc = "pseudo"
    /\ k > PseudoTimeSteps
    /\ pc' = "pdone"
    /\ UNCHANGED <<vectorVars, pseudoVars>>

(* Slip: one failure too many.                                             *)
SpentLate(failures) == failures > MaxDiverged
Spent(failures) == failures >= MaxDiverged

PseudoRetry ==
    /\ pc = "pcheck"
    /\ reason = "diverged"
    /\ pseudo_retry' = pseudo_retry + 1
    /\ ~Spent(pseudo_retry')
    /\ x' = DivergedRecovery
    /\ k' = k + 1
    /\ pc' = "pseudo"
    /\ UNCHANGED <<node, ve, ls, reason, steady, pseudo_ierr>>

PseudoGiveUp ==
    /\ pc = "pcheck"
    /\ reason = "diverged"
    /\ pseudo_retry' = pseudo_retry + 1
    /\ Spent(pseudo_retry')
    /\ pseudo_ierr' = 1
    /\ pc' = "pdone"
    /\ UNCHANGED <<vectorVars, k, steady>>

(* A slip: the loop goes on when the test is passed.                       *)
NoBreak(passed) == FALSE
Leaves(passed) == passed

(* The solution is stored at the point p, whether it passes the test of    *)
(* pseudo_time_step_convergence_test or not.                               *)
PseudoAccept(p) ==
    /\ pc = "pcheck"
    /\ reason = "converged"
    /\ PostSolve(p)
    /\ x' = "node"
    /\ \E passed \in BOOLEAN :
          /\ steady' = passed
          /\ IF Leaves(passed) THEN pc' = "pdone" /\ k' = k
                               ELSE pc' = "pseudo" /\ k' = k + 1
    /\ UNCHANGED <<ls, reason, pseudo_retry, pseudo_ierr>>
==============================================================================
