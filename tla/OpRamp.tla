------------------------------- MODULE OpRamp -------------------------------
(***************************************************************************)
(* DDMSolverBase::solve_op: the sources are ramped from their old values   *)
(* to those of time 0 in steps no longer than the limits allow; a step     *)
(* that fails is halved, one after that grows by a half. When asked to,    *)
(* pseudo time steps then drive the device to its steady state, twice when *)
(* the conductance of floating metal was replaced before (CMOS). The       *)
(* analyses of SteadyState end in the same steps, without a ramp: which    *)
(* analysis runs is chosen with its flags.                                 *)
(*                                                                         *)
(* Positions on the ramp are integers, Unit of them to one step of the     *)
(* limits; the tolerance of 1e-10 is smaller than the unit.                *)
(***************************************************************************)
EXTENDS SteadyState

CONSTANTS
    RampSteps,          \* steps_by_limiter: what the limits allow, at least 1
    Unit,               \* the length of one of them
    Modes               \* what the cards may have asked for: records of the
                        \* analysis (solve_op or another), and of the flags
                        \* PseudoTimeMethod, PseudoTimeCMOS, OpToSteady

ASSUME RampAssumption ==
    /\ RampSteps \in Nat \ {0}
    /\ Unit \in Nat \ {0}
    /\ Modes \subseteq [op : BOOLEAN, method : BOOLEAN, cmos : BOOLEAN, steady : BOOLEAN]
    /\ Modes # {}

VARIABLES
    mode,               \* this analysis and its flags
    step, dstep,        \* the position to solve and the step to it
    started,            \* has a position been solved (t_cycles > 0)?
    diverged_retry,     \* failures in a row
    sources,            \* the position the sources are set to
    phase,              \* 1 or 2: the call of the pseudo time steps
    sigma,              \* the conductance of floating metal: its own or a pseudo one
    sigma_node          \* the one the stored solution was found with

rampVars == <<step, dstep, started, diverged_retry>>
vars == <<mode, vectorVars, pseudoVars, pc, rampVars, sources, phase, sigma, sigma_node, ierr>>

Full == RampSteps * Unit        \* all of the ramp

PseudoTimeMethod == mode.method
OpToSteady == mode.steady
CMOS == mode.op /\ mode.method /\ mode.cmos

(* Half a step, in whole units but at least one.                           *)
Half(d) == (d + 1) \div 2

(* Slip: the position does not follow the halved step.                     *)
BackByAll(d) == 2 * d
(* How far a failed step that loses d goes back.                           *)
Back(d) == d

(* Slip: the step grows whatever its length.                               *)
GrownOver(d) == (3 * d) \div 2
Grown(d) == IF (3 * d) \div 2 < Unit THEN (3 * d) \div 2 ELSE Unit

(* A step that would end less than d past the end of the ramp ends there.  *)
(* Slip: only when it would start there.                                   *)
NotPast(t, d) == FALSE
PastEnd(t, d) == t > Full /\ t < Full + d

(* The loop goes on to half a step past the end of the ramp.               *)
Continues(t, d) == 2 * t < 2 * Full + d

------------------------------------------------------------------------------
Init ==
    /\ mode \in Modes
    /\ VectorInit(Prior)
    /\ PseudoInit
    /\ pc = IF mode.op THEN "ramp" ELSE IF PseudoTimeMethod THEN "pseudo" ELSE "once"
    /\ step = Unit
    /\ dstep = Unit
    /\ started = FALSE
    /\ diverged_retry = 0
    /\ sources = IF mode.op THEN 0 ELSE Full
    /\ phase = 1
    /\ sigma = IF CMOS THEN "pseudo" ELSE "material"
    /\ sigma_node = "material"
    /\ ierr = 0

Solve ==
    /\ pc = "ramp"
    /\ sources' = step
    /\ SnesSolve(PreSolve(~started), TRUE)
    /\ pc' = "check"
    /\ UNCHANGED <<pseudoVars, rampVars, phase, sigma, sigma_node, ierr>>

Retry ==
    /\ pc = "check"
    /\ reason = "diverged"
    /\ diverged_retry' = diverged_retry + 1
    /\ diverged_retry' < MaxDiverged
    /\ dstep' = Half(dstep)
    /\ step' = step - Back(dstep - dstep')
    /\ x' = DivergedRecovery
    /\ pc' = "while"
    /\ UNCHANGED <<node, ve, ls, reason, pseudoVars, started, sources, phase, sigma,
                   sigma_node, ierr>>

(* The ramp is given up, but not what follows it.                          *)
GiveUp ==
    /\ pc = "check"
    /\ reason = "diverged"
    /\ diverged_retry' = diverged_retry + 1
    /\ diverged_retry' >= MaxDiverged
    /\ ierr' = 1
    /\ pc' = "after"
    /\ UNCHANGED <<vectorVars, pseudoVars, step, dstep, started, sources, phase,
                   sigma, sigma_node>>

Accept ==
    /\ pc = "check"
    /\ reason = "converged"
    /\ PostSolve(step)
    /\ x' = "node"
    /\ sigma_node' = sigma
    /\ diverged_retry' = 0
    /\ started' = TRUE
    /\ LET d == IF dstep < Unit THEN Grown(dstep) ELSE dstep
       IN  IF PastEnd(step + d, d)
           THEN step' = Full /\ dstep' = d - (step + d - Full)
           ELSE step' = step + d /\ dstep' = d
    /\ pc' = "while"
    /\ UNCHANGED <<ls, reason, pseudoVars, sources, phase, sigma, ierr>>

While ==
    /\ pc = "while"
    /\ pc' = IF Continues(step, dstep) THEN "ramp" ELSE "after"
    /\ UNCHANGED <<vectorVars, pseudoVars, rampVars, sources, phase, sigma,
                   sigma_node, ierr>>

(* After the ramp the sources are set to their full values.                *)
Drive ==
    /\ pc = "after"
    /\ PseudoTimeMethod /\ OpToSteady
    /\ sources' = Full
    /\ PseudoBegin
    /\ UNCHANGED <<vectorVars, rampVars, phase, sigma, sigma_node, ierr>>

(* Without them only the conductance is set back.                          *)
Return ==
    /\ pc = "after"
    /\ ~(PseudoTimeMethod /\ OpToSteady)
    /\ sigma' = "material"
    /\ pc' = "done"
    /\ UNCHANGED <<vectorVars, pseudoVars, rampVars, sources, phase, sigma_node, ierr>>

PseudoStep ==
    /\ \/ /\ PseudoSolve \/ PseudoOut \/ PseudoRetry \/ PseudoGiveUp
          /\ UNCHANGED sigma_node
       \/ PseudoAccept(Full) /\ sigma_node' = sigma
    /\ UNCHANGED <<rampVars, sources, phase, sigma, ierr>>

(* Slip: the conductance is still the pseudo one in the second call.       *)
SigmaKept == sigma
SigmaRestored == "material"

(* Slip: the same call once more, for ever.                                *)
SamePhase == phase
NextPhase == phase + 1

(* The conductance is set back and the steps are taken once more; the      *)
(* error the call returned is dropped.                                     *)
Again ==
    /\ pc = "pdone"
    /\ CMOS /\ phase = 1
    /\ sigma' = SigmaRestored
    /\ phase' = NextPhase
    /\ PseudoBegin
    /\ UNCHANGED <<vectorVars, rampVars, sources, sigma_node, ierr>>

Leave ==
    /\ pc = "pdone"
    /\ mode.op /\ (~CMOS \/ phase = 2)
    /\ pc' = "done"
    /\ UNCHANGED <<vectorVars, pseudoVars, rampVars, sources, phase, sigma,
                   sigma_node, ierr>>

Done == pc = "done" /\ UNCHANGED vars

RampNext == Solve \/ Retry \/ GiveUp \/ Accept \/ While

SteadyNext ==
    /\ \/ (Once \/ NotConverged \/ (~mode.op /\ ReturnSteady)) /\ UNCHANGED sigma_node
       \/ Store(Full) /\ sigma_node' = sigma
    /\ UNCHANGED <<rampVars, sources, phase, sigma>>

Next ==
    /\ RampNext \/ SteadyNext \/ Drive \/ Return \/ PseudoStep \/ Again \/ Leave \/ Done
    /\ UNCHANGED mode

Spec == Init /\ [][Next]_vars

(* The loops are one thread: while it can step, it does.                   *)
FairSpec == Spec /\ WF_vars(Next)

------------------------------------------------------------------------------
OnRamp == pc \in {"ramp", "check", "while"}

(* Every variable keeps its type: no step is empty or longer than the      *)
(* limits allow.                                                           *)
TypeOK ==
    /\ PseudoType
    /\ pc \in {"ramp", "check", "while", "after", "once", "result",
              "pseudo", "pcheck", "pdone", "done"}
    /\ mode \in Modes
    /\ step \in Nat
    /\ dstep \in 1 .. Unit
    /\ started \in BOOLEAN
    /\ diverged_retry \in 0 .. MaxDiverged
    /\ sources \in Nat
    /\ phase \in {1, 2}
    /\ sigma \in {"material", "pseudo"} /\ sigma_node \in {"material", "pseudo"}
    /\ ierr \in {0, 1}

(* Whatever was halved, grown or clipped, the step being solved starts     *)
(* where the stored solution ends, or at the old sources before the first. *)
RampMatches ==
    OnRamp => step - dstep = IF started THEN node ELSE 0

(* Every solve starts from the stored solution, also the first pseudo time *)
(* step after a ramp that was given up, and that of a new solver.          *)
SolveStart ==
    /\ pc = "ramp" => PreSolve(~started) \in StartVector
    /\ pc = "once" => PreSolve(TRUE) \in StartVector
    /\ pc = "pseudo" => PreSolve(PseudoLoads) \in StartVector

(* A solution reported steady was found with the conductance of the        *)
(* material, not with the one that helped to find it.                      *)
SteadyMaterial ==
    pc = "done" /\ steady => sigma = "material" /\ sigma_node = "material"

(* The pseudo time steps stop at the first solution that passes the test:  *)
(* a steady solution is never solved again. Only failures are reported as  *)
(* such: solve_steadystate never with a steady solution, and no analysis   *)
(* returns 0 unless a solution at the full sources is stored, be it that   *)
(* the steps have run out (there are more of them than failures allowed).  *)
SteadyIsLast ==
    /\ steady => pc \in {"pdone", "done"}
    /\ pc = "done" /\ ierr = 1 /\ ~mode.op => ~steady
    /\ pc = "done" /\ ierr = 0 /\ MaxDiverged <= PseudoTimeSteps => node = Full

(* Halving, growing and clipping cannot go on for ever.                    *)
Terminates == <>(pc = "done")

(* When no pseudo time steps follow, the ramp implements Continuation.     *)
CN == INSTANCE Continuation WITH
    Origin <- Prior, First <- 1 .. Unit, Stop <- Full, MaxStep <- Unit,
    accepted <- node,
    status <- IF pc # "done" THEN "running"
              ELSE IF ierr = 1 THEN "failed" ELSE "complete"

Promise ==
    [][mode.op /\ ~(PseudoTimeMethod /\ OpToSteady) => [CN!Next]_(CN!vars)]_vars
==============================================================================
