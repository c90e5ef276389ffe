------------------------------- MODULE IvTrace -------------------------------
(***************************************************************************)
(* DDMSolverBase::solve_iv_trace: the curve of current against voltage is  *)
(* followed with a load line that is kept at a right angle to the curve. A *)
(* step that does not converge is halved, and so is one that converges to  *)
(* a point where the curve has turned too far.                             *)
(*                                                                         *)
(* A point of the curve is an integer, the distance from the start. The    *)
(* voltage V behind the load resistor is measured by the point its load    *)
(* line meets the curve in, so that a new resistance, which moves V to     *)
(* V + I*(Rload_new-Rload), leaves the point alone.                        *)
(***************************************************************************)
EXTENDS SolutionVector, FiniteSets

CONSTANTS
    FirstStep,          \* VStep of the SOLVE card
    VStepMax,           \* its longest step
    PastVStop,          \* the points whose potential has reached VStop
    PastIStop,          \* the points whose current has reached IStop
    Zero,               \* a potential of 0, on no particular point
    ZeroBeforeStop,     \* is it on the near side of VStop?
    Turns,              \* the points where the slope of the curve changes sign
    MaxRecovery,        \* this many failures in a row are survived (8)
    Resolution          \* a step this short converges and is not rejected

ASSUME TraceAssumption ==
    /\ FirstStep \in Nat \ {0}
    /\ VStepMax \in Nat
    /\ PastVStop \subseteq Int /\ PastIStop \subseteq Int
    /\ Zero \notin Int
    /\ ZeroBeforeStop \in BOOLEAN
    /\ Turns \subseteq Int
    /\ MaxRecovery \in Nat
    /\ Resolution \in Nat

VARIABLES
    pc,                 \* "initial" solve, its check "icheck", the "head" of
                        \* the outer loop, "try" a step, "check" its result,
                        \* "done", "aborted"
    V, VStep,           \* the point aimed at, the step to the next one
    I,                  \* the point whose current the outer loop compares
    Potential,          \* the point whose potential it compares, or Zero
    potential_old,      \* the point of the circuit's old potential and current
    first_step,
    recovery,           \* failures since the outer loop was entered
    error

traceVars == <<pc, V, VStep, I, Potential, potential_old, first_step, recovery, error>>
vars == <<vectorVars, traceVars>>

(* The condition of the outer loop, on the point read last.                *)
BelowVStop == IF Potential = Zero THEN ZeroBeforeStop ELSE Potential \notin PastVStop
Going == BelowVStop /\ I \notin PastIStop

(* Half a step, in whole units but at least one; a slip; VStep after a     *)
(* failure or a rejection.                                                 *)
Half(d) == (d + 1) \div 2
NotHalved(d) == d
Reduced(d) == Half(d)

(* The point of the last solution, from a point that is d past it. Slip:   *)
(* the step is halved before it is taken back.                             *)
RetreatByHalf(v, d) == v - Half(d)
Retreat(v, d) == v - d

(* More than nine failures in a row end the trace.                         *)
TooMany(n) == n > MaxRecovery

(* The potential the outer loop compares after a rejection; slip: the one  *)
(* of the rejected solution.                                               *)
RejectedPotential == V
PotentialAfterReject == Zero

(* A step is doubled, kept or halved as the curve bends; after the first   *)
(* one there is nothing to compare with.                                   *)
NextSteps ==
    IF first_step THEN {VStep}
    ELSE {2 * VStep, (3 * VStep) \div 2, VStep, Half(VStep)}

(* The slopes at two points have different signs when the curve turns an   *)
(* odd number of times in between. Before the first step Rload is 0.       *)
SignChange(p, q) ==
    ~first_step /\ Cardinality({t \in Turns : p < t /\ t <= q}) % 2 = 1

(* The chord between the old potential and current of the circuit and the  *)
(* present ones tells a vertical from a horizontal turning point; between  *)
(* a point and itself it is 0/0, which no comparison accepts.              *)
ChordDecides(old, new) == old # new

------------------------------------------------------------------------------
Init ==
    /\ VectorInit(Prior)
    /\ pc = "initial"
    /\ V = 0 /\ VStep = FirstStep
    /\ I = 0 /\ Potential = 0 /\ potential_old = Prior
    /\ first_step = TRUE
    /\ recovery = 0
    /\ error = 0

InitialSolve ==
    /\ pc = "initial"
    /\ SnesSolve(PreSolve(TRUE), TRUE)
    /\ pc' = "icheck"
    /\ UNCHANGED <<V, VStep, I, Potential, potential_old, first_step, recovery, error>>

InitialFailed ==
    /\ pc = "icheck"
    /\ reason = "diverged"
    /\ error' = 1
    /\ pc' = "done"
    /\ UNCHANGED <<vectorVars, V, VStep, I, Potential, potential_old, first_step, recovery>>

InitialStored ==
    /\ pc = "icheck"
    /\ reason = "converged"
    /\ PostSolve(V) /\ potential_old' = V
    /\ x' = "node"
    /\ I' = V /\ Potential' = V
    /\ pc' = "head"
    /\ UNCHANGED <<ls, reason, V, VStep, first_step, recovery, error>>

Enter ==
    /\ pc = "head"
    /\ Going
    /\ recovery' = 0
    /\ pc' = "try"
    /\ UNCHANGED <<vectorVars, V, VStep, I, Potential, potential_old, first_step, error>>

Leave ==
    /\ pc = "head"
    /\ ~Going
    /\ pc' = "done"
    /\ UNCHANGED <<vectorVars, V, VStep, I, Potential, potential_old, first_step, recovery, error>>

Try ==
    /\ pc = "try"
    /\ V' = V + VStep
    /\ SnesSolve(PreSolve(FALSE), VStep > Resolution)
    /\ pc' = "check"
    /\ UNCHANGED <<VStep, I, Potential, potential_old, first_step, recovery, error>>

Retry ==
    /\ pc = "check"
    /\ reason = "diverged"
    /\ x' = DivergedRecovery
    /\ V' = Retreat(V, VStep) /\ VStep' = Reduced(VStep)
    /\ recovery' = recovery + 1
    /\ IF TooMany(recovery') THEN error' = 1 /\ pc' = "done"
                             ELSE error' = error /\ pc' = "try"
    /\ UNCHANGED <<node, ve, ls, reason, I, Potential, potential_old, first_step>>

(* The curve has turned by more than 15 degrees. The current stays that of *)
(* the rejected solution, and the outer loop is entered anew.              *)
Reject ==
    /\ pc = "check"
    /\ reason = "converged"
    /\ ~first_step /\ VStep > Resolution
    /\ x' = DivergedRecovery
    /\ I' = V /\ Potential' = PotentialAfterReject
    /\ V' = Retreat(V, VStep) /\ VStep' = Reduced(VStep)
    /\ pc' = "head"
    /\ UNCHANGED <<node, ve, ls, reason, potential_old, first_step, recovery, error>>

(* The solution is stored, which makes the old potential and current of    *)
(* the circuit the present ones, before the turning point is resolved with *)
(* the chord between the two; when that fails the program aborts. (VStep   *)
(* is measured along the curve: the change of its sign at a vertical       *)
(* turning point keeps it positive.)                                       *)
Accept ==
    /\ pc = "check"
    /\ reason = "converged"
    /\ PostSolve(V) /\ potential_old' = V
    /\ x' = "node"
    /\ I' = V /\ Potential' = V
    /\ IF SignChange(node, V) /\ ~ChordDecides(potential_old', V)
       THEN pc' = "aborted" /\ UNCHANGED <<VStep, first_step>>
       ELSE pc' = "head" /\ VStep' \in NextSteps /\ first_step' = FALSE
    /\ UNCHANGED <<ls, reason, V, recovery, error>>

Stopped == pc \in {"done", "aborted"} /\ UNCHANGED vars

Next ==
    \/ InitialSolve \/ InitialFailed \/ InitialStored
    \/ Enter \/ Leave \/ Try \/ Retry \/ Reject \/ Accept \/ Stopped

Spec == Init /\ [][Next]_vars

(* One thread runs the trace.                                              *)
FairSpec == Spec /\ WF_vars(Next)

------------------------------------------------------------------------------
(* Every variable keeps its type: a step never vanishes, and a tenth       *)
(* failure in a row is never counted.                                      *)
TypeOK ==
    /\ VectorType
    /\ pc \in {"initial", "icheck", "head", "try", "check", "done", "aborted"}
    /\ V \in Int /\ VStep \in Nat \ {0}
    /\ I \in Int /\ Potential \in Int \cup {Zero}
    /\ potential_old \in Int \cup {Prior}
    /\ first_step \in BOOLEAN
    /\ recovery \in 0 .. MaxRecovery + 1
    /\ error \in {0, 1}

(* Every step starts from the load line of the stored solution, whatever   *)
(* was halved or rejected before it: V and VStep are changed separately,   *)
(* on two paths.                                                           *)
StepFromStored ==
    /\ pc \in {"head", "try"} => V = node
    /\ pc = "check" => V = node + VStep

(* The first stored solution that has reached VStop or IStop is the last   *)
(* one, no further step is tried from it, and a trace that returns 0 has   *)
(* stored one.                                                             *)
EndReached ==
    LET Past == PastVStop \cup PastIStop
    IN  /\ pc = "try" => node \notin Past
        /\ pc = "done" /\ error = 0 => node \in Past

(* A turning point of the curve is resolved and the trace goes on.         *)
TurnsResolved == pc # "aborted"

(* Halving, rejecting and doubling cannot go on for ever.                  *)
Terminates == <>(pc \in {"done", "aborted"})
==============================================================================
