------------------------------ MODULE MixSweep ------------------------------
(***************************************************************************)
(* MixSolverBase::solve_dcsweep: the sweep of a source of a SPICE circuit, *)
(* beside the sweep of an electrode. It has the loop of DCSweep, but for   *)
(* its condition, for the recovery, which restores the circuit too, and    *)
(* for its result, which is always 0. The sources of currents have the     *)
(* same loop.                                                              *)
(***************************************************************************)
EXTENDS DCSweep, MixVector

VARIABLE mixed          \* is the device in a circuit?

sweepsVars == <<vars, mixed>>

(* The comparison is strict: a stop at zero lies outside.                  *)
MixInRange(v) == IF VStop > 0 THEN v <= VStop ELSE v < VStop

------------------------------------------------------------------------------
(* Without prediction Vs1 is never set in a circuit, and a step that fails *)
(* is halved towards a bias nobody knows.                                  *)
SweepsInit == Init /\ mixed \in BOOLEAN /\ (mixed => Predict)

MixSolve ==
    /\ pc = "head"
    /\ MixInRange(Vscan)
    /\ SnesSolve(MixStart(DC_Cycles = 0),
                 DC_Cycles = 0 \/ Vscan > Vs1 + Resolution)
    /\ pc' = "check"
    /\ UNCHANGED <<Vscan, step, Vs1, Vs2, Vs3, V_retry, DC_Cycles, ierr>>

MixExit ==
    /\ pc = "head"
    /\ ~MixInRange(Vscan)
    /\ pc' = "done"
    /\ UNCHANGED <<vectorVars, Vscan, step, Vs1, Vs2, Vs3, V_retry, DC_Cycles, ierr>>

(* The projection is added to what the recovery leaves.                    *)
MixRetry ==
    /\ pc = "check"
    /\ reason = "diverged"
    /\ CanRetry
    /\ V_retry' = <<Vscan>> \o V_retry
    /\ Vscan' = Halfway(Vscan)
    /\ ve' = "node"
    /\ x' = Projected(Recovered, DC_Cycles, Vs1, Vs2, Vs3)
    /\ pc' = "head"
    /\ UNCHANGED <<node, ls, reason, step, Vs1, Vs2, Vs3, DC_Cycles, ierr>>

(* Accepting and giving up are as in DCSweep; ierr only records that it    *)
(* has been given up.                                                      *)
MixNext == MixSolve \/ MixExit \/ Accept \/ MixRetry \/ GiveUp \/ Done

Device == ~mixed /\ Next /\ UNCHANGED mixed
Circuit == mixed /\ MixNext /\ UNCHANGED mixed

SweepsNext == Device \/ Circuit

SweepsSpec == SweepsInit /\ [][SweepsNext]_sweepsVars

(* The loop is one thread: while it can step, it does.                     *)
SweepsFairSpec == SweepsSpec /\ WF_sweepsVars(SweepsNext)
==============================================================================
