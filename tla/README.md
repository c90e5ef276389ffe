# Verification of the control loops of Open TCAD

The repository holds a device simulator, Genius (`src/Genius-TCAD-Open`), a process
simulator, SUPREM-IV (`src/suprem4`), scripts that carry results from one to the other, and
decks. Both simulators are numerical programs of one thread of control. Their hard part is
not concurrency but *recovery*: a Newton solve may fail, or succeed with a result that is
not good enough, at any point of a long loop, and the loop must halve, go back, restore and
go on, with several pieces of state (a solution vector, the solution stored on the mesh, a
clock, a step, a history, the sources) that have to stay together. The numbers decide
whether a solve converges; the control flow has to be right whatever they decide. That
control flow is what these modules model: **every solve may converge or fail**, and every
estimate may ask for any step.

File names below are short: `ddm_solver.cc` and `ddm_solver.h` are in
`src/Genius-TCAD-Open/src/solver/ddm_common` and `.../include/solver`.

## 1. Inventory

### Genius

| component | state it keeps | operations | hard behaviour |
|---|---|---|---|
| DC sweep, `solve_dcsweep` | bias, step, stack of failed biases, last three biases and vectors | solve, accept, bisect, project, give up | a bias that fails at any depth; clipping at the stop; projection from unequal distances |
| transient, `solve_transient` | clock, step, last steps and vectors, counters, order of the formula | solve, halve, reject by error, scale, limit, clip, save, extrapolate | four paths change clock and step; three kinds of history shifted under different conditions |
| equilibrium and steady state, `solve_equ`, `solve_steadystate`, `snes_solve_pseudo_time_step` | step counter, failures, steady flag | one solve, or a loop of pseudo time steps | failures within the loop; test for steadiness |
| operating point, `solve_op` | position and step of the ramp, pseudo conductance of floating metal | ramp, halve, grow, clip, one or two calls of the loop above | ramp given up, followed by the rest all the same |
| I-V trace, `solve_iv_trace` | load resistance, voltage behind it, step, slope, old values in the circuits | solve, halve, reject sharp turns, resolve turning points | failures are counted, rejections are not |
| Newton driver, `snes_solve`, `petsc_snes_convergence_test` | kept norms, last norm, line search | test, second try without a line search | state that outlives the solve |
| solution vector and recovery, `ddm1.cc` and the `FVM_*` bases | x, nodes, potentials and currents of the electrodes | fill, solve, store, recover | every residual writes to the electrodes |
| cards, `control.cc` with namespace `SolverSpecify` | global parameters, a source per electrode | METHOD, ATTACH, SOLVE | what a card does not set stays from before |
| electrical sources, `electrical_source.cc` | sources, drive of each electrode | attach, update, assign, ramp, limit the step | scan, source and ramp write the same drive |
| external circuits, `external_circuit*.cc` | potential, current and state of R, C, L | update, roll back | state against accepted and rejected steps |
| mixed simulation, `mix_solver.cc`, `mixA_solver.cc` | SPICE circuit with modes and gmin, all of the above | operating point with gmin stepping, sweep, transient | two simulators' states against each other |
| other solvers (Poisson, DDM2, EBM3, DG, Hall, AC, optics, stress) | equations | the same analyses | numerical |
| meshes, parser, hooks, file formats, material library | data | construction, input and output | not control |

One `SOLVE` card runs `SolverControl::do_solve`: it sets parameters, makes a solver
(`create_solver`: a new, unfilled vector), calls one analysis, and destroys the solver. The
mesh, the sources and `SolverSpecify` survive. An analysis sets the sources, calls
`snes_solve` (which fills x by `pre_solve_process`, lets PETSc iterate, and tries once more),
and then `post_solve_process` (store x on the nodes) or `diverged_recovery` (fill x again).
PETSc calls back for residuals, Jacobians and the convergence test.

### SUPREM-IV

| component | state it keeps | operations | hard behaviour |
|---|---|---|---|
| time stepping, `diffuse.c`, `solve_time.c`, `time.c` | clocks, step (static), recursion, the grid, the solution | DIFFUSE, loop, halve, two stages, move and move back | failure in either stage at any depth |
| oxidation `oxide/` | points, velocities | grow, move points | moved back when a stage fails |
| matrix solution `diffuse/solve.c`, `math/` | matrices | Newton loop, solve | fails; numerical |
| shell, keyword data base, grid data base, implantation, refinement, device, plots | data | commands | single thread, numerical or input and output |

The rest (`suprem_viewer`, `decks`, `contrib`, the copy under `home/`, waf) is display,
input, third party or a duplicate.

### What makes each component correct

- a sweep, march or ramp stores a chain of solutions from its start to its stop, each within
  the longest step of the one before, and says "done" only with the stop stored;
- whatever failed, the next solve starts from a defined vector, built on the solution that
  is on the nodes;
- clock, step and stored solution agree on every path; so do saved vectors and saved steps;
- a result accepted by the convergence test has been reduced, or is small;
- an analysis finds the parameters, drives and history the deck has asked for, whatever ran
  before;
- grid, solution and clocks of a diffusion stay together at any depth of halving;
- every loop ends.

The hazards, each with its line and the properties aimed at it, are listed in
`PROJECT.json`.

## 2. Modules

| module | code | how it corresponds |
|---|---|---|
| `Continuation` | (abstract) | what sweep, march and ramp promise: `Begin`, `Advance`, `Complete`, `Fail` |
| `SolutionVector` | `ddm1.cc:57-252`, `ddm_solver.cc:260-293`, `ddm1_boundary_ohmic.cc` | where the contents of x come from, what the nodes hold, whose potentials the electrodes have; operators for fill, solve, store, recover |
| `DCSweep` | `ddm_solver.cc:415-617` | `Solve`, `Accept`, `Retry`, `GiveUp`, `Exit`: the branches of the loop |
| `Transient` | `ddm_solver.cc:1349-1667` | `Solve`, `Retry`, `Reject`, `Accept`, `GiveUp`, `While` |
| `PseudoTime` | `ddm_solver.cc:1671-1761` | the loop of pseudo time steps; used by the next two |
| `SteadyState` | `ddm_solver.cc:300-404` | one solve, or `PseudoTime`: actions, which the specification of `OpRamp` takes in |
| `OpRamp` | `ddm_solver.cc:801-995` | equilibrium, steady state, or the operating point: ramp, then `PseudoTime` once or twice |
| `IvTrace` | `ddm_solver.cc:1059-1341` | `Try`, `Retry`, `Reject`, `Accept` |
| `Newton` | `ddm_solver.cc:260-293`, `1782-1977` | `Test` is the callback, `Step` and three ways to stop are PETSc, `TryAgain` is `snes_solve` |
| `Session` | `control.cc`, `electrical_source.cc`, `solver_specify.cc` | a deck: cards, and for each analysis what it does first and what it leaves |
| `Diffuse` | `diffuse.c:42-160`, `solve_time.c:54-376`, `time.c:54-196` | the recursion of `solstep` as the stack `calls`, one action per return |
| `ExternalCircuit` | `external_circuit_rcl.*`, `external_circuit_pi.*`, `external_circuit.h:268-316` | present, old and stored values of a circuit with R, C, L or of two RC links; `Evaluate`, `Update` |
| `CircuitMarch` | `ddm_solver.cc:1349-1667` with `ddm1.cc:152-252` | `Transient` and `ExternalCircuit` step together |
| `MixVector` | `mix_solver.cc:241-268`, `mix1.cc:210-230` | what fills x in a circuit: the rows of the electrodes from the circuit at every solve, those of the regions from the nodes |
| `MixSweep` | `mix_solver.cc:704-1077` | the sweep of a source of a SPICE circuit: the loop of `DCSweep` with its own condition, start, recovery and result |
| `MixOp` | `mix_solver.cc:410-700` | operating point in a circuit: ramp by doubling, then gmin reduced |
| `MixMarch` | `mix_solver.cc:1087-1406` | `Transient` with `MixOp` before it and the state vectors and mode of the circuit beside it |
| `StepLimit` | `electrical_source.cc:272-340`, `vsource.h` (constant, pulse) | `Shrink`, `SmallEnough`, then `Corner` for each source `i` of each electrode `it` and `NextElectrode`: the loops of `limit_dt`; `vapp`, `dv_max`, `dt_critial_limit` as operators |
| `DCSweepProofs` | | theorems on `DCSweep` and `MixSweep` |
| `TransientProofs` | | theorems on `Transient` and `CircuitMarch` |
| `OpRampProofs`, `IvTraceProofs`, `NewtonProofs`, `DiffuseProofs` | | theorems on the module of that name |
| `MixProofs` | | theorems on `MixOp` and `MixMarch` |
| `SourceProofs` | | theorems on `Session` and `StepLimit` |
| `Descent` | | the order in which the proofs measure what is left of a loop |
| `MC*` | | instances for TLC |

Composition. The analyses EXTEND `SolutionVector`; `SteadyState` and `OpRamp` EXTEND
`PseudoTime` as well. `CircuitMarch` EXTENDS `Transient` and `ExternalCircuit`, `MixMarch`
EXTENDS `Transient` (its variables and helpers, not its actions, which differ) and `MixOp`,
`MixSweep` EXTENDS `DCSweep`; `MixOp` and `MixSweep` share `MixVector`. `DCSweep`, `Transient`, `OpRamp` and `MixMarch` INSTANCE
`Continuation` with a refinement mapping. `Session` stands above the analyses: it has their
first and last steps only, with the same meaning. `Newton` is what `SnesSolve` of
`SolutionVector` abstracts: it either converges or fails, and may have disabled the line
search. `StepLimit` is what the choice `limit_dt` in `Transient` abstracts: the first half of
`ChangeLimited` says that the steps it takes are among those `Transient` allows.

### Abstractions

- **Numbers.** Biases, times and positions are integers in a unit; tolerances (1e-7
  relative, 1e-10 absolute) are smaller than the unit, and their *sign* is kept where it
  matters (`DCSweep!InRange`). A solution is the point it was solved at. Residuals are in
  units of their tolerances.
- **Convergence is a choice.** A solve fails or converges as it likes. `Resolution` makes a
  solve converge when the step is that short, in `DCSweep` and `IvTrace`, as otherwise
  nothing ends the halving there (section 5); `Transient` and `OpRamp` count failures and
  need no such assumption.
- **Halving rounds** up to one unit; the code's halves are exact. The bounds on failures are
  reached before the unit in the instances of `Transient` and `OpRamp`.
- **PETSc** is outside `src/`. It stops a solve after `MaxIteration` steps, and its basic line
  search, which `snes_solve` falls back to, is assumed never to report a failure: it takes
  the full step. `NewtonProofs!SecondTryDiffers` rests on that.
- **Circuits** are integrated over a step, so that charge and flux are whole numbers;
  resistances are 1. The source and the device may do anything: any iterate is possible.
- **SPICE** is outside `src/` as far as its solver goes: a load in the mode INITTRAN takes the
  charges it starts from out of the solution the circuit holds, and leaves the mode. The
  mixed modules have what `spice_ckt.cc` asks of it.
- Definitions marked *Slip* are plausible errors of the code. No specification uses them:
  they are substituted for the definition after them to see that a property would notice.

## 3. Runs

Twelve runs: nine of the code as it is (`pass`), three that exhibit a disagreement between
the code and its comments or documentation (`violation`). A configuration of a passing run
checks the properties of its module that say more than the types of its variables; type
invariants are run where a theorem needs them.

| run | what it asks | what it shows |
|---|---|---|
| `dcsweep_all` | start -8, stop 41, steps that grow from 20 to 30, three failed biases on the stack; of an electrode and of a source in a circuit | stack ordered, recovery to the last good bias, no start from NaN on the way to the stop, the chain, the stop solved again only when the step grew just then, the sweep ends |
| `transient_all` | 0 to 12, BDF2, error control, rejection, extrapolation, limits; an electrode behind R and C, R and L, or two RC links | clock, history and formula agree with the accepted solutions; every stored step satisfies Kirchhoff's laws of the circuit; the chain; the march ends |
| `op_all` | one solve, pseudo time steps (five, four failures), operating point: all combinations of flags, a ramp of three steps of 16 units | every solve starts from a filled vector, the loop stops at the first steady solution, steps and solutions agree, conductance set back, the chain, the ramp ends |
| `trace_voltage` | two turning points, a potential that falls back | each step starts from the stored solution; the trace ends at the first point past its stop |
| `session_all` | two electrodes, two voltage and a current source, all cards, analyses that fail | drives as commanded; no DC solution is taken for a transient one |
| `newton_all` | residuals of 0 to 6 tolerances in a carrier equation and in the electrode equation, both methods | what is accepted is small or was reduced in this solve; each solve stops |
| `diffuse_all` | two cards, both time methods, with and without oxide, up to three halvings | grid, solution and clocks; order and cover of the pieces; cards end |
| `mixed` | operating point, and march from 0 to 14, in a circuit; ramp of 3 to 48 parts, two reductions of gmin | steps start from the stored solution; charges in the circuit are those of the last two stored solutions; an operating point that gave nothing up stands at the full sources and the user's gmin; the chain; everything ends |
| `step_limit` | trapeze, square, triangle and sawtooth pulses and a jump, alone and in pairs, steps up to 14 in 36 | no electrode changes by more than it may within a step; no corner is jumped over |
| `dcsweep_below_zero` | stop below zero, upwards | the stop bias is not solved and 0 is returned |
| `circuit_rcl` | an electrode behind R, L and C together | the flux of the inductor is not kept |
| `trace_turning` | the first turning point | the program aborts |

### Bounds

The bounds are in the configurations, and each is large enough for every branch to be taken,
which TLC's coverage confirms. `VStop` is no multiple of `VStep`, so clipping happens;
`VStepMax` 30 lets the step grow five times, so that the stop is solved again, from a vector of
NaN too, and is also met with a step that grows no longer;
`MaxRetry` 3 instead of 8, `MaxDiverged` 3 or 4 instead of 8, so that the limit is reached;
`Window` 3 instead of 5 (1 in `mixed`, which has no average over it), so that old steps are
dropped; `CycleCap` 3 in `DCSweep` and `Transient`, as the code compares its counter with 0,
2 and 3 only, and `MixCycleCap` 4, as the mixed march compares with 0, 3 and 4; `MaxGain` 3
or 6, the most a step may grow by: with TStepMax 6 it reaches the cap from a step of one
or two; `Finest` 48, three steps doubled four times, which is more than three failures in a
row; `MaxCards` 2 diffusion cards, as a card depends on the one before it only; up to three
halvings in `Diffuse`, which gives pieces of pieces. TStop is four to five steps of TStep in
the marches, so that every depth of history is reached with steps of different lengths, and
more than two periods of each pulse in `step_limit`. A circuit holds potentials and currents
of 0 or 1 (`Values`): its equations are linear, so a charge that is counted wrongly shows at one unit.
`Session` and `Newton` are bounded by their sets alone: decks of any length, solve after
solve.

Preconditions: `MixSweep!SweepsInit` has a circuit only with Predict, since without it the
first halving is towards a variable nobody set (section 6); `MixOpAssumption` is that
doubling the number of steps of the ramp leads to `Finest`; `StepLimitAssumption` is that the
parts of a pulse fit into its period, and that its delay or the steps are shorter than two
periods. `ChangeLimited` is about electrodes with one source, and of pulses only those that
take time to rise and do not fall at once from the end of the rise; `CornersKept` is about
the present period. The code does not keep more (section 6).

### Fairness

`FairSpec` is weak fairness of the next-state relation: one thread runs the loop, and while
it can step it does. In `Diffuse` fairness is on `solve_time` only: nothing obliges the deck
to hold another card. No action is favoured over another; a solve that may fail may fail for
ever. `MixFairSpec`, `SweepsFairSpec` and `CircuitFairSpec` are the same for the composed
modules. What ends the loops is their counters, or `Resolution`.

Deadlock is checked everywhere except in `diffuse_all`, where a deck may end. Analyses end
in an explicit stuttering `Done`.

## 4. Proofs

TLAPS proves, for every value of the constants that satisfies the named assumptions of the
modules and the condition in the last column:

| theorem | what holds of every behaviour | if |
|---|---|---|
| `DCSweepProofs!TypeCorrect`, `RetryOrder`, `StoredLast` | `TypeOK`, `RetryOrdered`, `StoredIsLast` | |
| `DCSweepProofs!StopIsSolved`, `KeepsPromise` | `StopSolved`, `Promise` (it implements `Continuation`) | the stop is not below zero on an upward sweep |
| `DCSweepProofs!SweepsOrdered`, `SweepsReachStop`, `SweepsKeepPromise` | the same invariants and the same promise for `SweepsSpec`, with or without a circuit | nothing; stop above zero; stop above zero |
| `DCSweepProofs!SweepsStartFromNumbers` | `SolveStart`, for `SweepsSpec` | a step of one unit converges, or nothing is predicted |
| `DCSweepProofs!SweepsStopLast` | `StopIsLast`, for `SweepsSpec` | a step of one unit converges |
| `TransientProofs!TypeCorrect`, `ClockFollows`, `HistoryFollows`, `SecondOrderSafe` | `TypeOK`, `ClockMatches`, `HistoryMatches`, `SecondOrderReady` | |
| `TransientProofs!KeepsPromise` | `Promise` | the first step ends by TStop |
| `TransientProofs!CircuitKeepsMarch` | the march with a circuit implements the march | |
| `TransientProofs!KirchhoffKept` | `KirchhoffHolds` | no circuit has an inductor with a capacitor, or a capacitor driven by a current |
| `OpRampProofs!TypeCorrect`, `RampFollows`, `SteadyIsMaterial`, `SteadyEnds`, `KeepsPromise` | `TypeOK`, `RampMatches`, `SteadyMaterial`, `SteadyIsLast`, `Promise` | |
| `OpRampProofs!StartsFromStored` | `SolveStart` | no transient analysis before (`T_Cycles = 0`) |
| `MixProofs!StepsFromStored`, `CircuitIsBehind`, `OpEndsWhole` | `MixStepFromStored`, `CircuitFollows`, `OpWhole` | |
| `MixProofs!KeepsPromise` | `MixPromise` | the first step ends by TStop |
| `DiffuseProofs!TypeCorrect`, `GridIsMoved`, `PiecesCover`, `LastIsEstimated` | `TypeOK`, `GridFollows`, `Covered`, `EstimatedLast` | |
| `SourceProofs!TypeCorrect`, `DrivenAsCommanded` | `TypeOK`, `DriveAsCommanded` | |
| `SourceProofs!HistoryIsTrue` | `HistoryTrue` | no SOLVE card sets tran.histroy itself |
| `SourceProofs!ChangesWithinLimit`, `CornersAreKept` | `ChangeLimited`, `CornersKept`, for any electrodes with any number of sources | |
| `NewtonProofs!TypeCorrect`, `SecondTryDiffers` | `TypeOK`; the second try does not stop at the line search | (nor does the basic search of PETSc: section 2) |
| `NewtonProofs!AcceptsForGood` | `AcceptedForGood` | the solver has no quantum potential equation |
| `IvTraceProofs!TypeCorrect`, `StepsFromStored`, `NoStepPastEnd` | `TypeOK`, `StepFromStored`; no step is tried past the stop | |
| `IvTraceProofs!EndIsReached` | `EndReached` | the trace is of a voltage, and 0 lies before its stop |
| `TransientProofs!MarchDescends`, `OpRampProofs!RampDescent`, `MixProofs!MixDescends`, `NewtonProofs!SolvesDescend` | every step of the loop uses up some of what is left of it | |
| `DiffuseProofs!CardDescends` | the same for a DIFFUSE card | (a unit of time cannot be halved: an assumption of the model) |
| `DCSweepProofs!SweepsDescend` | the same for both sweeps, however their steps grow | a step of one unit converges |
| `IvTraceProofs!TraceDescends` | the same for a trace | so does a step along the curve, and the curve stays past the stop from some point on |

No condition is a convenience. That short steps converge is what the halving in sweep, trace
and diffusion counts on (section 5), and a curve that never passes its stop is traced for
ever. Without any of the others the code fails, and section 6 says where: without the first, `dcsweep_below_zero` is the counterexample; a first step past TStop is stored past TStop; `circuit_rcl` is the
counterexample for an inductor with a capacitor; a pseudo time step after a transient
analysis starts from an empty vector; the norm of the electrodes is compared with one of the
quantum potential; a trace whose stop lies beyond zero ends when a step is rejected, and one
of a current may end at a rejected point.

Every safety invariant the passing runs check is proved, and so is every refinement. Each inductive invariant was checked by TLC on the instance of the run
before it was proved; a proof module lays it out as named parts, then one lemma per action,
then the theorems.

**The sweep.** `IInv` is `TypeOK /\ RetryOrdered /\ StoredIsLast /\ LoopInv`. The order of
the stack alone is not inductive: that a bias popped and clipped is not behind the last good
one needs that no bias lies past the stop unless the stop is stored, and that a new point
half way lies between the last good one and the one that failed. `LoopInv` adds these, the
bounds on the step, and that every bias on the stack is within `LongestStep` of the last
good one, which the refinement needs for `Advance`. `LeftInv` says how the loop was left.
What a solve starts from rests on two more. `HeadInv` says what each branch has left in x:
something built on the stored solution, unless the projection divides by zero; in a circuit
it has restored the potentials, too. And `Sorted` says when the projection does: a sweep is
in one of three states. Its biases are pairwise different (`Sound`), in which case only long
steps fail and no distance is zero; or it solves a stop that has converged again, and
succeeds (`AtStop`); or its vector holds no numbers and nothing converges any more
(`Hopeless`), be it because the stop was projected from itself or because the circuits of
the electrodes hold none. `SweepsStopLast` follows, since a bias clipped to the stop after the stop
means that the step has grown. A solve in a circuit has its own start and its own recovery,
and shares these lemmas with that of an electrode.

**The march.** `LoopInv` ties clock, step and stored solution together. `HistoryInv` says
from which count of accepted steps on each saved vector and step is valid, one line per
depth of history; the invariants that the runs check read it at the depth where the code
reads the vectors. The refinement adds that the clock, while the loop is entered, is not
past TStop. With a circuit, `KeptInv` says that what `update()` has kept is what the stored
solution left: the potentials always, the current only if there is no capacitor beside the
inductor. A step that was solved and not stored leaves both alone.

**The ramp.** `RampInv` has `step = dstep + node` wherever the ramp stands, and that no
position past the full sources is solved. `RampMatches` follows
from it; alone it is not inductive, since clipping at the full sources needs the position
not to be past them already. `LoopInv` counts for the pseudo time
steps: as long as none has converged, every step has failed, and fewer than `MaxDiverged`
have; so the sources are full when the loop ends without an error. `SigmaInv` says in which
phase the conductance may be the pseudo one, `EndInv` what was reached on each way out.

**The mixed march.** The ramp doubles both its counters under the `for` loop's increment;
the invariant is that the stored position is always that of `step - 1`, in parts of the
present number of steps, for which that number must divide `Finest` (`Divisions`). The
history is that of the march, with the two states of the circuit one behind the other, and
the mode of the circuit to tell which load was the first.

**Diffusion.** The halves that wait are a stack of unbounded depth, and where each ends is
the sum of those before it, which a recursive definition would have to add up. The invariant
has it as a witness: there *is* a function `e` with `Ends(e)`, the ends of the calls, each
of which begins where the one on top of it ends, and the bottom one at the end of the step.
Each action is shown to change that function in its first or second place. `GridInv` relates
the points to the stage the call at the top is in; that a return moves them back by what the
stage moved is the content of `GridIsMoved`.

**The deck.** `DriveAsCommanded` is inductive with `TypeOK` alone, because each analysis
sets all drives before its first solve; the lemmas `FollowsSource` and `FollowsScan` say
what each kind of setting does to an electrode, and that scans of voltages and of currents
exclude each other is part of the types. `HistoryInv` extends `HistoryTrue` to every moment:
the claim is made at the end of one analysis and read at the beginning of another, with any
cards in between.

**Newton.** `KeptInv` says that the residual kept is that of this solve's first iterate from
the first test on. `VerdictMeaning` reduces the order of tests in the callback to the two
reasons for which an iterate can be accepted.

**The trace.** `V` and `VStep` change separately on three paths; `StepInv` has their
relation to the stored point at each of them. `EndInv` says what the outer loop compares:
the point stored last, or, after a rejection, a potential of zero, when the stored one is
known not to be past the stop, for a step was tried from it.

**The step.** Between corners a pulse goes one way, and so do its quotients, which are
rounded (`DivisionMonotone`, `Slope`). So no change within a step is larger than the one
`dv_max` finds at the end of the step or at a corner, as long as the step lies in the two
periods it looks at; a longer step has a whole period among them, with both levels of the
pulse in it (`PeriodLimited`, `ChangeSeen`). `SmallInv` says that the first loop has made the
step small enough, and stays true since `Corner` only shortens it. `CornerInv` is about the
sources that have looked so far, in the order of the loops over electrodes and sources: what
a source has cut the step to, the sources after it only cut further.

**Descent.** The safety half of "every loop ends" is that every step of a loop uses up some
of what is left of it. What is left is a tuple of naturals in which the first entry to change
becomes smaller: `<<Left', Left>> \in Fewer(n)`. That order has no endless descent
(`WFLexProductOrdering` of the library), so that the theorems need no bound on failures,
steps or intervals. The entries are

| loop | what is left |
|---|---|
| march | time to the stop; the step; failures still allowed; place in the loop |
| ramp and pseudo time steps | loops still to run; rest of the ramp, or pseudo steps; failures still allowed; place |
| mixed analysis | what is still to run; rest of the ramp, of gmin or of the interval; failures on the ramp, or the step; failures of the march; place |
| sweep | way from the last bias to the stop; room for the step to grow; room on the stack; place |
| trace | way of the stored point to where the curve stays past the stop; the step; failures survived; place |
| diffusion | time to the end of the card; what of the step is not solved; whether calls return; depth, or the piece; stage |
| Newton | tries; steps; place |

Most need little more than the inductive invariant of their module. The sweep does: a grown
step may lead back to a stop that is solved already (section 6), where the way does not get
shorter but the step longer, and that comes to an end only because such a solve converges or nothing does any more: the three
states of `Sorted` again. The trace forgets its failures in the outer loop, so
its third entry stands above any number of them there; rejections are not counted at all, and
only the step gets shorter by them.

Left to TLC:

- Liveness, all of `Terminates` and `MixTerminates`: the provers know no fairness and no
  `ENABLED`. What the runs add to the descent is that a step which can be taken is taken, and
  that a loop which has not ended has one.
- The three runs that exhibit a disagreement.

## 5. What is not modelled, and why

- Residuals, Jacobians, material models, meshes: numbers and geometry. That a failed solve
  can happen anywhere is the abstraction of all of them.
- That short steps converge is an assumption of `DCSweep` and `IvTrace` (`Resolution`), and
  that short pieces can be solved one of `Diffuse` (`CanFail`). The code has no bound on the
  halving there: `DCSweep` bounds failures in a row, `IvTrace` bounds failures and not
  rejections, `solstep` recurs without a limit.
- The march of `Transient` is checked with a first step that is no longer than the interval,
  because the first step is not clipped (section 6).
- Waveforms other than pulses and constants (sine, exponentials, user defined): their limits
  are those of smooth functions, and the errors met there are in section 6. The line of `RCT`
  segments: its segments are those of `PI` in a loop. A circuit
  driven by a current is in `ExternalCircuit` and in no instance: with a capacitor it
  breaks `KirchhoffHolds` (section 6).
- Mixed simulation: the convergence test (`mix_solver.cc:1427-1590`), which is that of
  `Newton` plus the circuit's; `mixA_solver.cc`, which assembles device and circuit in one
  matrix; ngspice itself.
- Meshes. Assembly reads them. What changes them is refinement, and its loop
  (`mesh_refinement.cc:346-371`) makes the flags of elements consistent by the neighbours of
  each; after a first refinement these are left as the conversion to the finite volume mesh
  left them, so that what a second round reads is not determined by the code modelled.
  `contract()` is never called, and `make_interface_compatible` (1040) may take a request
  back that `make_refinement_compatible` makes again.
- Other solvers of devices (Poisson, DDM2, EBM3, density gradient, Hall): they inherit the
  analyses modelled here and differ in equations. Small signal, optical and mechanical
  solvers run once through a loop of independent solves.
- Hooks observe. The input parser, file formats and the material library turn data into
  data, without a state of their own that an analysis could leave wrong.
- SUPREM-IV but its time stepping: implantation, refinement, electrical and plots compute and
  return. The shell has control (sources, loops and macros nested on one buffer,
  `do_action.c`, `input.c`), but none the simulation depends on.
- A transient analysis that fails having stored nothing leaves `tran_histroy` set;
  `Session!HistoryTrue` names that case as an exception.

## 6. Disagreements

Three are runs (section 3, and `findings` in `PROJECT.json`). Others were met while the
modules were written and are listed here with their lines; the modules have the behaviour of
the code.

DC sweep and recovery
- The step grows (`ddm_solver.cc:535`) before the comparison that pulls the last bias back
  (539-543), so a sweep with growing steps solves its stop bias again; the third time its
  projection divides by zero. `dcsweep_all` has these sweeps: `StopIsLast` says when the stop
  may come again, `SolveStart` is about the way to it.
- Every residual writes the electrode potentials to the circuits
  (`ddm1_boundary_ohmic.cc:399`); recovery copies them back from there (`ddm1.cc:243`,
  `ddm1_boundary_ohmic.cc:53`), so x holds the failed ones. `ExternalCircuit::rollback`
  (`external_circuit.h:278`) is called nowhere.

Transient
- The first step is not clipped (1380, 1591): one longer than the interval is solved and
  stored past TStop, and one that is halved until the loop ends stores nothing.
- METHOD resets `tran_histroy` (`solver_specify.cc:767`); a failed transient sets it (1664).

Pseudo time, steady state and operating point
- Running out of pseudo time steps returns 0 (1760); `solve_op` drops the result (959, 981).
- After a transient analysis `T_Cycles` is not 0, and the pseudo time loop starts from a
  vector that was never filled (1686). `op_all` has `T_Cycles = 0`.
- Cards of a steady state or an operating point set `PseudoTimeMethod` from their parameter
  (`control.cc:754`, false by default), METHOD resets it (`solver_specify.cc:806`); other cards
  leave it. After one with pseudo time the relaxed criterion "in pseudo time step mode"
  (`solver_specify.cc:626`, `ddm_solver.cc:1927`) so holds for sweeps, traces and transients, which
  take no pseudo time steps, until the next METHOD, steady state or operating point.

Trace
- The potential after a rejection is set to zero (1269), which ends a trace whose stop lies
  on the other side of zero; the block for VStepMax is commented out (1316).
- The traced electrode follows an attached source and not the start voltage (1087, 1113).

Cards and convergence
- vconst and iconst reach the first electrode of a contact only (`control.cc:1326`, 1337).
- The kept norm of the electrode equation is read at the index of another (1939 against
  1818-1820), and norms are kept before they are scaled by the width (1812-1834).
- The relaxed criterion compares the energy of electrons twice (1937, 1938), the second time
  with the kept norm of that of holes (`ddm_solver.h:355`, 1817), and that of holes never: an
  iterate is accepted whose hole energy has not been reduced.

External circuits
- A circuit driven by a current has no capacitor, though the figure of
  `external_circuit_rcl.h` has one; the line of `RCT` segments ignores a driving current.
- `tran_op_init` after an analysis that failed starts from the potential of its last iterate.

Waveforms and the step
- A pulse that rises at once (tr = tf = 0, or tr = pw = 0) is seen by `dv_max` in its first
  period only: at the start of a later one `vapp` still is V1 (`vsource.h:329`). One that
  falls at once from the end of its rise (pw = tf = 0) is V1 at that corner, so that `dv_max`
  (344-383) sees its peak in no period. Long before
  its first pulse, steps longer than two periods are compared with corners that do not exist.
- `dt_critial_limit` stops neither where the first pulse starts nor, within TStepMin of the end
  of a period, at the corners of the next.
- `VEXP::dv_max` shifts the times by td, and so does the `vapp` it calls (476-477);
  `VMIX::dv_max` multiplies the changes of two factors, which is not the change of their product
  (734-738); the user defined and shell sources report no change; those of the Gaussian and the
  double exponential change sign behind the peak, and a sine misses the peaks of the next cycle.
- Changes of the sources of one electrode are added with their signs, so that they may cancel.
- The first step of a march is never limited by the sources.

Mixed simulation
- All analyses return 0. A ramp given up (`mix_solver.cc:577`) or a gmin that fails leaves x
  and the circuit at the iterate that diverged and the sources at a fraction, which the next
  analysis reads as their full values; gmin is left where it failed, though line 635 announces
  that it is scaled back.
- `solve_transient` ignores what `solve_dcop` returned, so that the charges of the circuit
  may start from no solution at all.
- The projection of the operating point covers no distance, as it is from the last solution to
  itself.
- The factor 1.1 of growth stays once a step has been short, and the step grows past TStep, which
  that of `ddm_solver.cc` does not.
- The branch that sets INITTRAN again (1270) needs `T_Cycles == 0` where it is at least 3.
- The operating point of the march sets the time of the circuit before the clock is set to
  TStart (438, 442). Break points of SPICE sources are not looked for. Restoring before the
  first save gives zeros (`spice_ckt.cc:116`), and a change of the mode of the circuit replaces a
  reason to diverge in the convergence test.
- Sweep: the strict comparison (764) leaves out a stop at zero; without Predict a step that fails
  is halved towards `Vs1`, which was never set (874).

SUPREM-IV
- A failed second stage leaves `total` advanced (`time.c:118`), and the halves are solved at
  that total, which `Interst.c:248` and `Vacancy.c:237` read.
- CONTINUE sets `init_time` to 0 for good (`diffuse.c:132`).
- A formula that cannot be used gives a step of one second at most, not the step that was
  (`solve_time.c:130`, 358, 370).
- `do_vel` takes both velocities from the nodes again (`time.c:236-255`), so a half is
  solved with those of the whole step (`solve_time.c:247`, 263).

## 7. Plan

Done, in this order: `SolutionVector`, `Continuation`, `DCSweep` with proofs, `Transient`
with proofs, `PseudoTime`, `SteadyState`, `OpRamp`, `IvTrace`, `Session`, `Newton`,
`Diffuse`, `MixOp`, `MixMarch`, `ExternalCircuit`, `CircuitMarch`, `StepLimit`, `MixSweep`;
then the proofs of `CircuitMarch`, `OpRamp`, `MixMarch`, `Diffuse`, `Session`, `Newton`,
`IvTrace` and `MixSweep`, and of all refinements; then those of `StepLimit`, and the descent of
every loop of an analysis; last `MixVector` and sweeps whose steps grow.

What remains:

1. The two stages of a diffusion piece against an abstract chain, as the other analyses have.
2. The refinement of `SolutionVector!SnesSolve` by `Newton`, and of the analyses in `Session`
   by their modules.
3. The descent of the loops in `limit_dt`, and the shell of SUPREM-IV.
