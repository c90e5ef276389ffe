------------------------------- MODULE DCSweep -------------------------------
(***************************************************************************)
(* DDMSolverBase::solve_dcsweep: the bias of an electrode is stepped from  *)
(* VStart to VStop; a step that does not converge is put on a stack and a  *)
(* point half way back to the last good one is tried instead. The scan of  *)
(* a current is the same loop over IStart, IStop, IStep and IStepMax.      *)
(*                                                                         *)
(* Biases are integers, multiplied by the sign of VStep so that every      *)
(* sweep runs upwards; the relative tolerance of 1e-7 and the absolute one *)
(* of 1e-10 are smaller than the unit.                                     *)
(***************************************************************************)
EXTENDS SolutionVector, Sequences

CONSTANTS
    VStart, VStop,      \* the ends of the scan
    VStep,              \* its first step
    VStepMax,           \* steps grow until they reach this one
    Predict,            \* extrapolate the next start vector?
    MaxRetry,           \* the stack may hold this many failed biases (8)
    Resolution          \* a solve this close to the last good bias converges

ASSUME SweepAssumption ==
    /\ VStart \in Int
    /\ VStop \in Int
    /\ VStep \in Nat \ {0}
    /\ VStepMax \in Nat
    /\ Predict \in BOOLEAN
    /\ MaxRetry \in Nat
    /\ Resolution \in Nat

VARIABLES
    pc,                 \* "head" of the loop, "check" of the result, "done"
    Vscan,              \* the bias to solve
    step,               \* the step to the next regular bias
    Vs1, Vs2, Vs3,      \* the last three converged biases
    V_retry,            \* stack of biases that failed, the top one first
    DC_Cycles,          \* number of converged biases, counted up to CycleCap
    ierr                \* the error returned

sweepVars == <<pc, Vscan, step, Vs1, Vs2, Vs3, V_retry, DC_Cycles, ierr>>
vars == <<vectorVars, sweepVars>>

CycleCap == 3           \* DC_Cycles is compared with 0, 2 and 3 only

(* The loop condition. Vscan*VStep <= VStop*VStep*(1+1e-7) leaves room     *)
(* above a stop bias on the side the sweep runs to, and takes it away      *)
(* from one on the other side of zero.                                     *)
InRange(v) == IF VStop >= 0 THEN v <= VStop ELSE v < VStop

(* A step below VStepMax grows by a tenth.                                 *)
Grown(s) == IF s < VStepMax THEN (11 * s) \div 10 ELSE s

(* Slips in the clipping: none at all; to the wrong end of the scan; an    *)
(* upper end that is one off.                                              *)
ClippedNever(v, s) == v
ClippedToStart(v, s) == IF v > VStop /\ v < VStop + s THEN VStart ELSE v
ClippedAtEnd(v, s) == IF v > VStop /\ v <= VStop + s THEN VStop ELSE v

(* A bias past the stop by less than the step taken is pulled back to it.  *)
Clipped(v, s) == IF v > VStop /\ v < VStop + s THEN VStop ELSE v

(* A slip in the halving: the sum is not divided.                          *)
HalfwaySum(v) == v + Vs1

(* The point half way between the failed bias and the last good one.       *)
Halfway(v) == (v + Vs1) \div 2

(* The start vector of the next solve: x plus a combination of the last    *)
(* two or three solutions. A zero divisor fills it with NaN.               *)
ZeroDivisor(cycles, v1, v2, v3) ==
    \/ cycles >= 2 /\ v1 = v2
    \/ cycles >= 3 /\ (v2 = v3 \/ v1 = v3)

Projected(x0, cycles, v1, v2, v3) ==
    IF ~Predict \/ cycles < 2 THEN x0
    ELSE IF ZeroDivisor(cycles, v1, v2, v3) THEN "nan"
    ELSE Extrapolated(x0)

------------------------------------------------------------------------------
Init ==
    /\ VectorInit(Prior)
    /\ pc = "head"
    /\ Vscan = VStart
    /\ step = VStep
    /\ Vs1 = VStart /\ Vs2 = VStart /\ Vs3 = VStart
    /\ V_retry = << >>
    /\ DC_Cycles = 0
    /\ ierr = 0

Solve ==
    /\ pc = "head"
    /\ InRange(Vscan)
    /\ SnesSolve(PreSolve(DC_Cycles = 0),
                 DC_Cycles = 0 \/ Vscan > Vs1 + Resolution)
    /\ pc' = "check"
    /\ UNCHANGED <<Vscan, step, Vs1, Vs2, Vs3, V_retry, DC_Cycles, ierr>>

Exit ==
    /\ pc = "head"
    /\ ~InRange(Vscan)
    /\ pc' = "done"
    /\ UNCHANGED <<vectorVars, Vscan, step, Vs1, Vs2, Vs3, V_retry, DC_Cycles, ierr>>

NextBias == IF V_retry = << >> THEN Vscan + step ELSE Head(V_retry)

Accept ==
    /\ pc = "check"
    /\ reason = "converged"
    /\ PostSolve(Vscan)
    /\ Vs3' = Vs2 /\ Vs2' = Vs1 /\ Vs1' = Vscan
    /\ DC_Cycles' = IF DC_Cycles < CycleCap THEN DC_Cycles + 1 ELSE DC_Cycles
    /\ V_retry' = IF V_retry = << >> THEN V_retry ELSE Tail(V_retry)
    /\ step' = Grown(step)
    /\ Vscan' = Clipped(NextBias, step')
    /\ x' = Projected("node", DC_Cycles', Vs1', Vs2', Vs3')
    /\ pc' = "head"
    /\ UNCHANGED <<ls, reason, ierr>>

(* A slip in the test of the stack: one bias too many.                     *)
CanRetryOneMore == DC_Cycles > 0 /\ Len(V_retry) <= MaxRetry

CanRetry == DC_Cycles > 0 /\ Len(V_retry) < MaxRetry

Retry ==
    /\ pc = "check"
    /\ reason = "diverged"
    /\ CanRetry
    /\ V_retry' = <<Vscan>> \o V_retry
    /\ Vscan' = Halfway(Vscan)
    /\ x' = Projected(DivergedRecovery, DC_Cycles, Vs1, Vs2, Vs3)
    /\ pc' = "head"
    /\ UNCHANGED <<node, ve, ls, reason, step, Vs1, Vs2, Vs3, DC_Cycles, ierr>>

GiveUp ==
    /\ pc = "check"
    /\ reason = "diverged"
    /\ ~CanRetry
    /\ ierr' = 1
    /\ pc' = "done"
    /\ UNCHANGED <<vectorVars, Vscan, step, Vs1, Vs2, Vs3, V_retry, DC_Cycles>>

Done == pc = "done" /\ UNCHANGED vars

(* The steps of either loop: of the scan of a voltage, and of a current,   *)
(* which has the same branches.                                            *)
Next == Solve \/ Exit \/ Accept \/ Retry \/ GiveUp \/ Done

Spec == Init /\ [][Next]_vars

(* The loop is one thread: while it can step, it does.                     *)
FairSpec == Spec /\ WF_vars(Next)

------------------------------------------------------------------------------
(* Every variable keeps its type; the stack of failed biases never holds   *)
(* more than MaxRetry of them.                                             *)
TypeOK ==
    /\ VectorType
    /\ pc \in {"head", "check", "done"}
    /\ Vscan \in Int /\ Vs1 \in Int /\ Vs2 \in Int /\ Vs3 \in Int
    /\ step \in Nat \ {0}
    /\ V_retry \in Seq(Int) /\ Len(V_retry) <= MaxRetry
    /\ DC_Cycles \in 0 .. CycleCap
    /\ ierr \in {0, 1}

(* The failed biases wait in the order the sweep runs: the last good bias, *)
(* the one being tried, the top of the stack and down to its bottom, and   *)
(* none lies past the stop. Popping the stack then never steps back.       *)
RetryOrdered ==
    DC_Cycles > 0 =>
        /\ Vs1 <= Vscan
        /\ V_retry # << >> => Vscan <= V_retry[1]
        /\ \A i \in 1 .. Len(V_retry) :
              /\ V_retry[i] <= VStop
              /\ \A j \in i .. Len(V_retry) : V_retry[i] <= V_retry[j]

(* The nodes hold the solution of the last good bias whatever failed since *)
(* (so that diverged_recovery and the projection agree on the base point), *)
(* and the previous solution as long as no bias has converged.             *)
StoredIsLast ==
    /\ DC_Cycles = 0 => node = Prior
    /\ DC_Cycles > 0 => node = Vs1 /\ Vs1 <= VStop

(* On its way to the stop no Newton solve starts from a failed iterate or  *)
(* from a projection that divided by zero, however the steps grow.         *)
SolveStart == pc = "head" /\ node # VStop => PreSolve(DC_Cycles = 0) \in StartVector

(* A sweep that returns 0 has solved the stop bias, and what the nodes     *)
(* hold is its solution.                                                   *)
StopSolved == pc = "done" /\ ierr = 0 /\ VStart <= VStop => node = VStop

(* Once the stop bias has converged the loop is left, unless the step has  *)
(* grown just then: the stop is then solved again, and nothing else is.    *)
StopIsLast ==
    [][pc = "check" /\ reason = "converged" /\ Vscan = VStop
         => ~InRange(Vscan') \/ (Vscan' = VStop /\ step' > step)]_vars

(* The halving of steps cannot go on for ever: the sweep returns.          *)
Terminates == <>(pc = "done")

(* The sweep implements the chain of solutions that Continuation promises.    *)
LongestStep ==
    IF (11 * VStepMax) \div 10 > VStep THEN (11 * VStepMax) \div 10 ELSE VStep

CN == INSTANCE Continuation WITH
    Origin <- Prior, First <- {VStart}, Stop <- VStop, MaxStep <- LongestStep,
    accepted <- node,
    status <- IF pc # "done" THEN "running"
              ELSE IF ierr = 1 THEN "failed" ELSE "complete"

Promise == CN!Spec
==============================================================================
