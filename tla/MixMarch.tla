------------------------------ MODULE MixMarch ------------------------------
(***************************************************************************)
(* MixSolverBase::solve_transient: the march in time of a device in a      *)
(* SPICE circuit, after an operating point when tran_op asks for one. It   *)
(* is the march of Transient, whose variables and helpers it uses, without *)
(* the average step, with one more accepted step before the error is       *)
(* estimated, with a factor of growth that stays once it is set, and with  *)
(* the state vectors of the circuit (charges at the last accepted times)   *)
(* beside the history of the device. It always returns 0. An operating     *)
(* point on its own is solve_dcop.                                         *)
(*                                                                         *)
(* ngspice is external: a load in the mode INITTRAN takes the charges it   *)
(* starts from out of CKTrhsOld, and leaves the mode.                      *)
(***************************************************************************)
EXTENDS Transient, MixOp

CONSTANTS
    Analyses,           \* the analyses to run: OP or TRANSIENT
    Iterate             \* charges of no stored solution

ASSUME MixAssumption ==
    /\ Analyses \subseteq {"OP", "TRANSIENT"}
    /\ Iterate \notin Int

VARIABLES
    analysis,
    modeinittran,       \* is the circuit in the mode INITTRAN?
    state1, state2,     \* the times of the charges in CKTstate1, CKTstate2
    growing,            \* is dt_dynamic_factor 1.1?
    clean               \* did the march start from a stored solution?

mixVars == <<opVars, vars, analysis, modeinittran, state1, state2, growing, clean>>
circuitStates == <<modeinittran, state1, state2>>

MixCycleCap == 4        \* T_Cycles is compared with 0, 3 and 4 only

(* The error is estimated one accepted step later than in Transient.       *)
MixReady == T_Cycles >= IF TS_type = "BDF1" THEN 3 ELSE 4

(* The next step, as in Transient, but rounded up where it grows, and it   *)
(* grows as long as the factor is not set anew.                            *)
MixScaled ==
    IF AutoStep /\ MixReady
    THEN Shrunk \cup (dt .. IF autostep_retry THEN dt ELSE MaxGain * dt)
    ELSE {IF growing' THEN (11 * dt + 9) \div 10 ELSE dt}

(* The state vectors after rotate_state_vectors. Slip: the last one only   *)
(* is replaced.                                                            *)
NotRotated == <<clock, state2>>
Rotated == <<clock, state1>>

------------------------------------------------------------------------------
MixInit ==
    /\ VectorInit(Prior)
    /\ OpInit
    /\ analysis \in Analyses
    /\ pc \in IF analysis = "OP" THEN {"dcop"} ELSE {"dcop", "begin"}
    /\ clock = TStart + TStep
    /\ dt = TStep
    /\ T_Cycles = 0
    /\ diverged_retry = 0
    /\ autostep_retry = FALSE
    /\ dt_last = Prior /\ dt_last_last = Prior
    /\ node_last = Prior
    /\ x_n = Prior /\ x_n1 = Prior /\ x_n2 = Prior
    /\ time_step_success = << >>
    /\ BDF2_LowerOrder = TRUE
    /\ ierr = 0
    /\ modeinittran = FALSE
    /\ state1 = Prior /\ state2 = Prior
    /\ growing = FALSE
    /\ clean = FALSE

Dcop ==
    /\ pc = "dcop"
    /\ OpNext
    /\ UNCHANGED <<marchVars, analysis, circuitStates, growing, clean>>

(* The variables of solve_dcop end with it.                                *)
OpReturn ==
    /\ pc = "dcop" /\ dcop = "return"
    /\ pc' = IF analysis = "OP" THEN "done" ELSE "begin"
    /\ OpEnd
    /\ UNCHANGED <<vectorVars, clock, dt, diverged_retry, autostep_retry, history,
                   ierr, analysis, circuitStates, growing, clean>>

(* What is stored, whatever it is, is what the march starts from.          *)
Begin ==
    /\ pc = "begin"
    /\ node' = TStart
    /\ modeinittran' = TRUE
    /\ clean' = (ve = "node")
    /\ pc' = "head"
    /\ UNCHANGED <<x, ve, ls, reason, opVars, clock, dt, diverged_retry, autostep_retry,
                   history, ierr, analysis, state1, state2, growing>>

MixSolve ==
    /\ pc = "head"
    /\ SnesSolve(MixStart(T_Cycles = 0), TRUE)
    /\ state1' = IF ~modeinittran THEN state1 ELSE IF ve = "node" THEN node ELSE Iterate
    /\ modeinittran' = FALSE
    /\ pc' = "check"
    /\ UNCHANGED <<opVars, clock, dt, diverged_retry, autostep_retry, history, ierr,
                   analysis, state2, growing, clean>>

MixRetry ==
    /\ pc = "check"
    /\ reason = "diverged"
    /\ diverged_retry' = diverged_retry + 1
    /\ diverged_retry' < MaxDiverged
    /\ dt' = Half(dt)
    /\ clock' = ClockBack(clock, dt - dt')
    /\ MixRecovery
    /\ pc' = "while"
    /\ UNCHANGED <<node, ls, reason, opVars, autostep_retry, history, ierr,
                   analysis, circuitStates, growing, clean>>

(* ierr is not the code's here, which returns 0: it only records this.     *)
MixGiveUp ==
    /\ pc = "check"
    /\ reason = "diverged"
    /\ diverged_retry' = diverged_retry + 1
    /\ diverged_retry' >= MaxDiverged
    /\ ierr' = 1
    /\ pc' = "done"
    /\ UNCHANGED <<vectorVars, opVars, clock, dt, autostep_retry, history,
                   analysis, circuitStates, growing, clean>>

(* The circuit keeps the rejected iterate.                                 *)
MixReject ==
    /\ pc = "check"
    /\ reason = "converged"
    /\ AutoStep /\ MixReady /\ MayReject
    /\ diverged_retry' = 0
    /\ autostep_retry' = TRUE
    /\ dt' \in RejectedSteps
    /\ clock' = clock - dt + dt'
    /\ x' = "projected"
    /\ pc' = "while"
    /\ UNCHANGED <<node, ve, ls, reason, opVars, history, ierr,
                   analysis, circuitStates, growing, clean>>

MixAccept ==
    /\ pc = "check"
    /\ reason = "converged"
    /\ PostSolve(clock)
    /\ node_last' = node
    /\ diverged_retry' = 0
    /\ autostep_retry' = (autostep_retry /\ ~(AutoStep /\ MixReady))
    /\ growing' = (growing \/ dt < TStep)
    /\ T_Cycles' = IF T_Cycles < MixCycleCap THEN T_Cycles + 1 ELSE T_Cycles
    /\ dt_last_last' = dt_last
    /\ dt_last' = dt
    /\ \E d \in MixScaled : \E e \in limit_dt(Bounded(d)) :
          IF PastStop(clock + e, e)
          THEN clock' = TStop /\ dt' = e - (clock + e - TStop)
          ELSE clock' = clock + e /\ dt' = e
    /\ BDF2_LowerOrder' \in IF TS_type = "BDF2" THEN BOOLEAN ELSE {BDF2_LowerOrder}
    /\ IF Saves THEN x_n2' = x_n1 /\ x_n1' = x_n /\ x_n' = clock
                ELSE UNCHANGED <<x_n, x_n1, x_n2>>
    /\ state1' = Rotated[1] /\ state2' = Rotated[2]
    /\ x' = Projected("node", MixReady')
    /\ pc' = "while"
    /\ UNCHANGED <<ls, reason, opVars, time_step_success, ierr, analysis, modeinittran, clean>>

MixWhile == While /\ UNCHANGED <<opVars, analysis, circuitStates, growing, clean>>

MixDone == pc = "done" /\ UNCHANGED mixVars

MixNext ==
    \/ Dcop \/ OpReturn \/ Begin \/ MixSolve \/ MixRetry \/ MixGiveUp
    \/ MixReject \/ MixAccept \/ MixWhile \/ MixDone

MixSpec == MixInit /\ [][MixNext]_mixVars

(* The loops are one thread: while it can step, it does.                   *)
MixFairSpec == MixSpec /\ WF_mixVars(MixNext)

------------------------------------------------------------------------------
OnMarch == pc \in {"head", "check", "while"}

(* Whatever was halved, rejected or clipped, the step being solved starts  *)
(* where the stored solution ends, on the ramp as on the march, and the    *)
(* solve from a filled vector (but for gmin after a ramp given up).        *)
MixStepFromStored ==
    /\ dcop = "ramp" => /\ IF DC_Cycles THEN node = Position(step - 1, rampup_steps)
                                        ELSE step = 1
                        /\ MixStart(~DC_Cycles) \in StartVector
    /\ OnMarch => clock = node + dt
    /\ pc = "head" => MixStart(T_Cycles = 0) \in StartVector

(* The charges the circuit integrates from are those at the times of the   *)
(* last two solutions stored on the device, and so are the saved vectors,  *)
(* also when a step is tried again; the circuit then is back at the stored *)
(* solution. Charges that were taken before the first step belong to it if *)
(* the analysis before the march has not failed.                           *)
CircuitFollows ==
    OnMarch =>
        /\ T_Cycles > 0 => state1 = node
        /\ T_Cycles > 1 \/ (T_Cycles = 1 /\ clean) => state2 = node_last
        /\ T_Cycles = 0 /\ clean /\ ~modeinittran => state1 = node
        /\ pc = "head" /\ diverged_retry > 0 => ve = "node"
        /\ MixReady /\ Saves => x_n = node /\ x_n1 = node_last /\ dt_last = x_n - x_n1

(* The march implements the chain of solutions that Continuation promises, *)
(* given up or not.                                                        *)
MixPromise == [][OnMarch => [CN!Next]_(CN!vars)]_mixVars

(* Doubling, halving, rejecting and clipping cannot go on for ever.        *)
MixTerminates == <>(pc = "done")
==============================================================================
