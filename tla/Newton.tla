------------------------------- MODULE Newton -------------------------------
(***************************************************************************)
(* Newton's method as the DDM solvers run it: PETSc iterates and asks      *)
(* DDMSolverBase::petsc_snes_convergence_test after each step;             *)
(* DDMSolverBase::snes_solve tries once more without a line search when    *)
(* the line search fails. A solver makes many solves, one after another.   *)
(*                                                                         *)
(* A residual is a number per equation, in units of the equation's         *)
(* absolute tolerance. An equation a solver does not have stays at 0.      *)
(***************************************************************************)
EXTENDS Integers

(* The equations are numbered in the order their norms are kept.           *)
poisson == 0
elec_continuity == 1
hole_continuity == 2
heat == 3
elec_energy == 4
hole_energy == 5
elec_quantum == 6
hole_quantum == 7
electrode == 8

Equations == poisson .. electrode

CONSTANTS
    Residuals,          \* the residuals an iterate may have
    toler_relax,        \* close to convergence: this many tolerances
    divergence_factor,  \* hopeless: more than this many tolerances
    RFTol,              \* the reciprocal of PseudoTimeMethodRFTol
    z_width,            \* 1 in three dimensions, um in two
    MaxIteration,       \* PETSc stops after this many steps (30)
    Patience,           \* no divergence before this many steps are done (4)
    Methods             \* the values PseudoTimeMethod may have

ASSUME NewtonAssumption ==
    /\ Residuals \subseteq [Equations -> Nat] /\ Residuals # {}
    /\ toler_relax \in Nat \ {0}
    /\ divergence_factor \in Nat \ {0}
    /\ RFTol \in Nat \ {0}
    /\ z_width \in Nat \ {0}
    /\ MaxIteration \in Nat \ {0}
    /\ Patience \in Nat
    /\ Methods \subseteq BOOLEAN

(* The length of the step that led to the iterate: under relative_toler,   *)
(* under PseudoTimeMethodRXTol, above both, above 1e5.                     *)
Steps == {"tiny", "small", "large", "huge"}

(* The norm of the whole residual: 0 is under the tolerance of PETSc, -1   *)
(* is not a number.                                                        *)
NaN == -1
Totals == {NaN, 0, 1, 2}

VARIABLES
    pc,                 \* "test", "step", "stopped"
    its,                \* steps taken in this solve
    norm,               \* the residual of the iterate, as the test scales it
    pnorm,              \* the length of the last step
    functions_norm,     \* the residual kept from the first iterate
    function_norm,      \* the norm of the residual tested last
    ls,                 \* the line search: as configured, or disabled
    again,              \* is this the second SNESSolve of snes_solve?
    reason,             \* why PETSc stopped, or "iterating"
    PseudoTimeMethod,
    first               \* history: the residual this solve has started from

vars == <<pc, its, norm, pnorm, functions_norm, function_norm, ls, again,
          reason, PseudoTimeMethod, first>>

Silent == [e \in Equations |-> 0]

Init ==
    /\ pc = "test"
    /\ its = 0
    /\ norm = Silent
    /\ pnorm = "tiny"
    /\ functions_norm = Silent
    /\ function_norm = 0
    /\ ls = "configured"
    /\ again = FALSE
    /\ reason = "iterating"
    /\ PseudoTimeMethod \in Methods
    /\ first = Silent

------------------------------------------------------------------------------
(* Every equation but that of the electrodes is scaled in two dimensions.  *)
Scaled(r) == [e \in Equations |-> IF e = electrode THEN r[e] ELSE z_width * r[e]]

(* The residual is kept as it was before it is scaled. Slip: it is kept    *)
(* for the first solve only.                                               *)
KeptOnce(r) ==
    IF its = 0 /\ function_norm = 0 THEN r ELSE functions_norm
Kept(r) == IF its = 0 THEN r ELSE functions_norm

Below(r, limit) == \A e \in Equations : r[e] < limit

Conv(r) == Below(r, toler_relax)
AbsConv(r) == Below(r, 1)

Hopeless(r, p) ==
    \/ p = "huge"
    \/ \E e \in {poisson, elec_continuity, hole_continuity, electrode} :
          r[e] > divergence_factor

(* What the pseudo time method asks of an iterate: each norm against one   *)
(* kept from the first iterate.                                            *)
Tested == {<<poisson, 0>>, <<elec_continuity, 1>>, <<hole_continuity, 2>>,
           <<heat, 3>>, <<elec_energy, 4>>, <<elec_energy, 5>>}

PseudoConv(r, p, kept) ==
    /\ p \in {"tiny", "small"}
    /\ \A t \in Tested : RFTol * r[t[1]] <= kept[t[2]]
    /\ \/ RFTol * r[electrode] <= kept[6]
       \/ r[electrode] < toler_relax

(* The tests that every method makes.                                      *)
Regular(r, p, f) ==
    IF f = 0 THEN "fnorm_abs"
    ELSE IF its > 0 /\ AbsConv(r) THEN "fnorm_abs"
    ELSE IF f = function_norm /\ Conv(r) THEN "fnorm_relative"
    ELSE IF its > 0 /\ p = "tiny" /\ Conv(r) THEN "snorm_relative"
    ELSE "iterating"

Verdict(r, p, f, kept, exhausted) ==
    IF f = NaN THEN "fnorm_nan"
    ELSE IF exhausted THEN "function_count"
    ELSE IF its > Patience /\ Hopeless(r, p) THEN "function_domain"
    ELSE IF PseudoTimeMethod /\ its = 0 THEN "iterating"
    ELSE IF PseudoTimeMethod /\ PseudoConv(r, p, kept) THEN "snorm_relative"
    ELSE Regular(r, p, f)

(* PETSc passes no step for the first iterate.                             *)
Test ==
    /\ pc = "test"
    /\ \E r \in Residuals, f \in Totals, exhausted \in BOOLEAN,
          p \in IF its = 0 THEN {"tiny"} ELSE Steps :
          LET kept == Kept(r)
          IN  /\ norm' = Scaled(r)
              /\ pnorm' = p
              /\ functions_norm' = kept
              /\ reason' = Verdict(norm', p, f, kept, exhausted)
              /\ function_norm' = f
              /\ first' = IF its = 0 THEN r ELSE first
    /\ pc' = IF reason' = "iterating" THEN "step" ELSE "stopped"
    /\ UNCHANGED <<its, ls, again, PseudoTimeMethod>>

------------------------------------------------------------------------------
(* PETSc: the next step, or why there is none.                             *)
Step ==
    /\ pc = "step"
    /\ its < MaxIteration
    /\ its' = its + 1
    /\ pc' = "test"
    /\ UNCHANGED <<norm, pnorm, functions_norm, function_norm, ls, again,
                   reason, PseudoTimeMethod, first>>

Stopped(why) ==
    /\ pc = "step"
    /\ reason' = why
    /\ pc' = "stopped"
    /\ UNCHANGED <<its, norm, pnorm, functions_norm, function_norm, ls, again,
                   PseudoTimeMethod, first>>

OutOfSteps == its = MaxIteration /\ Stopped("max_it")
LinearFails == its < MaxIteration /\ Stopped("linear_solve")

(* An assumption on PETSc: its basic search takes the full step and never  *)
(* reports a failure. If it did, the second solve could end as the first;  *)
(* snes_solve would return all the same, for it tries no third time.       *)
LineSearchFails ==
    /\ its < MaxIteration
    /\ ls = "configured"
    /\ Stopped("line_search")

------------------------------------------------------------------------------
Restart == its' = 0 /\ pc' = "test" /\ reason' = "iterating"

(* The slip of the retry: the line search stays as it is.                  *)
StillSearching == ls
WithoutSearch == "basic"

(* snes_solve: the second SNESSolve, from the recovered vector.            *)
TryAgain ==
    /\ pc = "stopped"
    /\ reason = "line_search" /\ ~again
    /\ again' = TRUE
    /\ ls' = WithoutSearch
    /\ Restart
    /\ UNCHANGED <<norm, pnorm, functions_norm, function_norm, PseudoTimeMethod, first>>

(* The analysis makes its next solve.                                      *)
NextSolve ==
    /\ pc = "stopped"
    /\ reason # "line_search" \/ again
    /\ again' = FALSE
    /\ Restart
    /\ UNCHANGED <<norm, pnorm, functions_norm, function_norm, ls,
                   PseudoTimeMethod, first>>

Next ==
    \/ Test \/ Step \/ OutOfSteps \/ LinearFails \/ LineSearchFails
    \/ TryAgain \/ NextSolve

Spec == Init /\ [][Next]_vars

FairSpec == Spec /\ WF_vars(Next)

------------------------------------------------------------------------------
Converged == {"fnorm_abs", "fnorm_relative", "snorm_relative"}
Diverged == {"fnorm_nan", "function_count", "function_domain", "max_it",
             "linear_solve", "line_search"}
Accepted == pc = "stopped" /\ reason \in Converged

(* Every variable keeps its type.                                          *)
TypeOK ==
    /\ pc \in {"test", "step", "stopped"}
    /\ its \in 0 .. MaxIteration
    /\ norm \in [Equations -> Nat]
    /\ pnorm \in Steps
    /\ functions_norm \in [Equations -> Nat]
    /\ function_norm \in Totals
    /\ ls \in {"configured", "basic"}
    /\ again \in BOOLEAN
    /\ reason \in Converged \cup Diverged \cup {"iterating"}
    /\ PseudoTimeMethod \in BOOLEAN
    /\ first \in Residuals \cup {Silent}

(* An iterate whose residual is above PETSc's tolerance is accepted in two *)
(* cases: all equations are close to their tolerances, or the pseudo time  *)
(* method has taken a step that has reduced the equations of Poisson and   *)
(* of the carriers by the factor asked for since this very solve started,  *)
(* whatever solves were made before.                                       *)
AcceptedForGood ==
    Accepted /\ function_norm # 0 =>
        \/ Conv(norm)
        \/ /\ PseudoTimeMethod
           /\ its > 0
           /\ \A e \in {poisson, elec_continuity, hole_continuity, heat} :
                 RFTol * norm[e] <= first[e]
           /\ norm[electrode] < toler_relax \/ RFTol * norm[electrode] <= first[electrode]

(* Each solve stops, and it is not for ever the line search that stops it: *)
(* the second SNESSolve does not fail the way the first one has.           *)
Terminates == pc = "test" ~> pc = "stopped" /\ reason # "line_search"
=============================================================================
