---------------------------- MODULE SteadyState ----------------------------
(***************************************************************************)
(* DDMSolverBase::solve_equ and solve_steadystate: one Newton solve at the *)
(* sources of time 0, or the pseudo time steps when they are asked for.    *)
(* The actions; OpRamp has the specification, with the operating point.    *)
(***************************************************************************)
EXTENDS PseudoTime

VARIABLE ierr           \* the error returned

Once ==
    /\ pc = "once"
    /\ SnesSolve(PreSolve(TRUE), TRUE)
    /\ pc' = "result"
    /\ UNCHANGED <<pseudoVars, ierr>>

(* The solution is stored at the point p of the sources.                   *)
Store(p) ==
    /\ pc = "result"
    /\ reason = "converged"
    /\ PostSolve(p)
    /\ steady' = TRUE
    /\ pc' = "done"
    /\ UNCHANGED <<x, ls, reason, k, pseudo_retry, pseudo_ierr, ierr>>

NotConverged ==
    /\ pc = "result"
    /\ reason = "diverged"
    /\ ierr' = 1
    /\ pc' = "done"
    /\ UNCHANGED <<vectorVars, pseudoVars>>

(* What the pseudo time steps return is what solve_steadystate returns.    *)
ReturnSteady ==
    /\ pc = "pdone"
    /\ ierr' = pseudo_ierr
    /\ pc' = "done"
    /\ UNCHANGED <<vectorVars, pseudoVars>>
=============================================================================
