-------------------------------- MODULE MixOp --------------------------------
(***************************************************************************)
(* MixSolverBase::solve_dcop: the operating point of a device in a SPICE   *)
(* circuit. The sources of the circuit are ramped to their values; a step  *)
(* that fails is halved by doubling the number of steps. Then the          *)
(* conductance gmin that helps SPICE to converge is reduced to the one the *)
(* user asked for, a hundredth at a time. Whatever fails, 0 is returned.   *)
(*                                                                         *)
(* Sources are counted in parts of a Finest-th of their values. The        *)
(* projection of the next step has no effect: it is over the distance from *)
(* the stored solution to itself.                                          *)
(***************************************************************************)
EXTENDS MixVector

CONSTANTS
    RampSteps,          \* rampup_steps at first
    Finest,             \* a step of this part of the ramp converges
    GminSteps           \* times that gmin is reduced

(* The numbers of steps that divide the ramp into whole parts.             *)
Divisions == {n \in 1 .. Finest : Finest % n = 0 /\ n % RampSteps = 0}

(* The ramp is fine enough to be halved until Finest steps are reached.    *)
ASSUME MixOpAssumption ==
    /\ RampSteps \in Nat \ {0}
    /\ Finest \in Nat \ {0} /\ RampSteps < Finest
    /\ RampSteps \in Divisions
    /\ \A n \in Divisions : n < Finest => 2 * n \in Divisions
    /\ GminSteps \in Nat

VARIABLES
    dcop,               \* "idle", "ramp" before a solve, "rcheck" after it,
                        \* "gmin" and "gcheck" likewise, "return"
    step, rampup_steps, \* the sources are set to the fraction step/rampup_steps
    retry,              \* failures in a row
    DC_Cycles,          \* has a step been stored (DC_Cycles > 0)?
    sources,            \* the position the sources are set to
    gmin,               \* reductions left: 0 is the user's gmin
    gmin_node,          \* the gmin the stored solution was found with
    given_up            \* has the ramp or a reduction of gmin been given up?

opResult == <<step, rampup_steps, retry, DC_Cycles, sources, gmin, gmin_node, given_up>>
opVars == <<dcop, opResult>>

(* How much of the sources' values a fraction is.                          *)
Position(s, steps) == s * (Finest \div steps)

(* The step after a failure at s, and the loop's increment. Slip: one step *)
(* less is taken back.                                                     *)
DoubledLate(s) == 2 * s
Doubled(s) == 2 * s - 2 + 1

(* Slip: gmin stops one reduction short of the user's.                     *)
GminShort == gmin > 1
GminLeft == gmin > 0

------------------------------------------------------------------------------
OpInit ==
    /\ dcop = "idle"
    /\ step = 1
    /\ rampup_steps = RampSteps
    /\ retry = 0
    /\ DC_Cycles = FALSE
    /\ sources = Finest
    /\ gmin = GminSteps
    /\ gmin_node = GminSteps
    /\ given_up = FALSE

Start ==
    /\ dcop = "idle"
    /\ dcop' = "ramp"
    /\ UNCHANGED <<vectorVars, opResult>>

RampSolve ==
    /\ dcop = "ramp"
    /\ sources' = Position(step, rampup_steps)
    /\ SnesSolve(MixStart(~DC_Cycles), rampup_steps < Finest)
    /\ dcop' = "rcheck"
    /\ UNCHANGED <<step, rampup_steps, retry, DC_Cycles, gmin, gmin_node, given_up>>

RampAccept ==
    /\ dcop = "rcheck"
    /\ reason = "converged"
    /\ PostSolve(sources) /\ gmin_node' = gmin
    /\ x' = "node"
    /\ retry' = 0
    /\ DC_Cycles' = TRUE
    /\ step' = step + 1
    /\ dcop' = IF step' <= rampup_steps THEN "ramp" ELSE "gmin"
    /\ UNCHANGED <<ls, reason, rampup_steps, sources, gmin, given_up>>

RampRetry ==
    /\ dcop = "rcheck"
    /\ reason = "diverged"
    /\ retry < 3
    /\ retry' = retry + 1
    /\ MixRecovery
    /\ step' = Doubled(step)
    /\ rampup_steps' = 2 * rampup_steps
    /\ dcop' = "ramp"
    /\ UNCHANGED <<node, ls, reason, DC_Cycles, sources, gmin, gmin_node, given_up>>

(* The sources stay at the position that failed, x and the circuit at the  *)
(* iterate, and the reduction of gmin starts from there.                   *)
RampGiveUp ==
    /\ dcop = "rcheck"
    /\ reason = "diverged"
    /\ retry >= 3
    /\ retry' = retry + 1
    /\ given_up' = TRUE
    /\ dcop' = "gmin"
    /\ UNCHANGED <<vectorVars, step, rampup_steps, DC_Cycles, sources, gmin, gmin_node>>

GminSolve ==
    /\ dcop = "gmin"
    /\ GminLeft
    /\ gmin' = gmin - 1
    /\ SnesSolve(MixStart(~DC_Cycles), TRUE)
    /\ dcop' = "gcheck"
    /\ UNCHANGED <<step, rampup_steps, retry, DC_Cycles, sources, gmin_node, given_up>>

GminStored ==
    /\ dcop = "gcheck"
    /\ reason = "converged"
    /\ PostSolve(sources) /\ gmin_node' = gmin
    /\ x' = "node"
    /\ dcop' = "gmin"
    /\ UNCHANGED <<ls, reason, step, rampup_steps, retry, DC_Cycles, sources, gmin, given_up>>

(* Nothing is recovered: gmin stays where it failed.                       *)
GminFailed ==
    /\ dcop = "gcheck"
    /\ reason = "diverged"
    /\ given_up' = TRUE
    /\ dcop' = "return"
    /\ UNCHANGED <<vectorVars, step, rampup_steps, retry, DC_Cycles, sources, gmin, gmin_node>>

GminDone ==
    /\ dcop = "gmin"
    /\ ~GminLeft
    /\ dcop' = "return"
    /\ UNCHANGED <<vectorVars, opResult>>

(* What is left of the analysis: the sources and gmin.                     *)
OpEnd ==
    /\ dcop' = "idle"
    /\ step' = 1 /\ rampup_steps' = RampSteps /\ retry' = 0 /\ DC_Cycles' = FALSE
    /\ gmin_node' = gmin /\ given_up' = FALSE
    /\ UNCHANGED <<sources, gmin>>

OpNext ==
    \/ Start \/ RampSolve \/ RampAccept \/ RampRetry \/ RampGiveUp
    \/ GminSolve \/ GminStored \/ GminFailed \/ GminDone

------------------------------------------------------------------------------
(* An operating point that was not given up is stored, on the device and   *)
(* in the circuit, with the sources at their values and the user's gmin.   *)
OpWhole ==
    dcop = "return" /\ ~given_up =>
        /\ sources = Finest /\ node = Finest
        /\ gmin = 0 /\ gmin_node = 0
        /\ x = "node" /\ ve = "node"
==============================================================================
