---------------------------- MODULE NewtonProofs ----------------------------
(***************************************************************************)
(* Proofs about Newton: many solves in a row, for any set of residuals,    *)
(* any tolerances and factors and any bound on the steps of a solve.       *)
(***************************************************************************)
EXTENDS Newton, Descent, TLAPS

(***************************************************************************)
(* The inductive invariant. The residual kept is that of the first iterate *)
(* of this solve from the first test on: it is what the pseudo time method *)
(* measures the others by. (Before that test it is a solve's before.)      *)
(***************************************************************************)
KeptInv == pc # "test" \/ its > 0 => functions_norm = first

(* The solver has no quantum potential equation.                           *)
NoQuantum == \A r \in Residuals : r[elec_quantum] = 0

FirstInv == NoQuantum => first[elec_quantum] = 0

IInv == TypeOK /\ KeptInv /\ FirstInv /\ (NoQuantum => AcceptedForGood)

LEMMA EquationNumbers ==
    /\ poisson \in Equations /\ elec_continuity \in Equations
    /\ hole_continuity \in Equations /\ heat \in Equations
    /\ elec_energy \in Equations /\ hole_energy \in Equations
    /\ elec_quantum \in Equations /\ electrode \in Equations
  BY DEF Equations, poisson, elec_continuity, hole_continuity, heat, elec_energy,
         hole_energy, elec_quantum, hole_quantum, electrode

LEMMA ScaledType ==
    ASSUME NEW r \in [Equations -> Nat]
    PROVE  Scaled(r) \in [Equations -> Nat]
<1>1. \A m, n \in Nat : m * n \in Nat
  OBVIOUS
<1> QED
  BY <1>1, NewtonAssumption DEF Scaled

(* A residual under its tolerances is close to them.                       *)
LEMMA AbsIsConv ==
    ASSUME NEW r \in [Equations -> Nat], AbsConv(r)
    PROVE  Conv(r)
  BY NewtonAssumption DEF AbsConv, Conv, Below, Equations

LEMMA VerdictType ==
    ASSUME NEW r, NEW p, NEW f, NEW kept, NEW exhausted
    PROVE  Verdict(r, p, f, kept, exhausted) \in Converged \cup Diverged \cup {"iterating"}
  BY DEF Verdict, Regular, Converged, Diverged

(* What an accepting verdict of the convergence test means.                *)
LEMMA VerdictMeaning ==
    ASSUME NEW r \in [Equations -> Nat], NEW p, NEW f, NEW kept, NEW exhausted,
           TypeOK, f # 0,
           Verdict(r, p, f, kept, exhausted) \in Converged
    PROVE  Conv(r) \/ (PseudoTimeMethod /\ its > 0 /\ PseudoConv(r, p, kept))
<1>1. CASE PseudoTimeMethod /\ PseudoConv(r, p, kept)
  BY <1>1 DEF Verdict, Converged, TypeOK
<1>2. CASE ~(PseudoTimeMethod /\ PseudoConv(r, p, kept))
  <2>1. Regular(r, p, f) \in Converged
    BY <1>2 DEF Verdict, Converged
  <2> QED
    BY <2>1, AbsIsConv DEF Regular, Converged
<1> QED
  BY <1>1, <1>2

LEMMA InitIInv == Init => IInv
<1> SUFFICES ASSUME Init PROVE IInv
  OBVIOUS
<1>1. PseudoTimeMethod \in BOOLEAN
  BY NewtonAssumption DEF Init
<1>2. again \in BOOLEAN
  BY Zenon DEF Init
<1>3. Silent \in [Equations -> Nat] /\ Silent[elec_quantum] = 0
  BY EquationNumbers DEF Silent
<1>4. TypeOK
  BY <1>1, <1>2, <1>3, NewtonAssumption DEF Init, TypeOK, Totals, Steps
<1> QED
  BY <1>3, <1>4 DEF Init, IInv, KeptInv, FirstInv, AcceptedForGood, Accepted

(* A test, for the residual r, the total f and the step p it was given.    *)
LEMMA TestIInv == IInv /\ Test => IInv'
<1> SUFFICES ASSUME IInv, Test PROVE IInv'
  OBVIOUS
<1>1. PICK r \in Residuals, f \in Totals, exhausted \in BOOLEAN,
           p \in IF its = 0 THEN {"tiny"} ELSE Steps :
          /\ norm' = Scaled(r)
          /\ pnorm' = p
          /\ functions_norm' = Kept(r)
          /\ reason' = Verdict(norm', p, f, Kept(r), exhausted)
          /\ function_norm' = f
          /\ first' = IF its = 0 THEN r ELSE first
  BY DEF Test
<1>2. /\ pc = "test" /\ pc' = IF reason' = "iterating" THEN "step" ELSE "stopped"
      /\ UNCHANGED <<its, ls, again, PseudoTimeMethod>>
  BY DEF Test
<1>3. TypeOK /\ its \in Nat
  BY NewtonAssumption DEF IInv, TypeOK
<1>4. r \in [Equations -> Nat] /\ norm' \in [Equations -> Nat]
  BY <1>1, NewtonAssumption, ScaledType
<1>5. functions_norm' = first'
  BY <1>1, <1>2, <1>3 DEF IInv, KeptInv, Kept
<1>6. TypeOK'
  <2>1. reason' \in Converged \cup Diverged \cup {"iterating"}
    BY <1>1, VerdictType
  <2>2. pnorm' \in Steps /\ function_norm' \in Totals
    BY <1>1 DEF Steps
  <2>3. functions_norm' \in [Equations -> Nat]
    BY <1>1, <1>3, <1>4 DEF Kept, TypeOK
  <2>4. first' \in Residuals \cup {Silent}
    BY <1>1, <1>3 DEF TypeOK
  <2> QED
    BY <1>2, <1>3, <1>4, <2>1, <2>2, <2>3, <2>4 DEF TypeOK
<1>7. KeptInv'
  BY <1>5 DEF KeptInv
<1>8. FirstInv'
  BY <1>1 DEF IInv, FirstInv, NoQuantum
<1>9. ASSUME NoQuantum PROVE AcceptedForGood'
  <2> SUFFICES ASSUME reason' \in Converged, function_norm' # 0
               PROVE  \/ Conv(norm)'
                      \/ /\ PseudoTimeMethod /\ its > 0
                         /\ \A e \in {poisson, elec_continuity, hole_continuity, heat} :
                               RFTol * norm'[e] <= first'[e]
                         /\ \/ norm'[electrode] < toler_relax
                            \/ RFTol * norm'[electrode] <= first'[electrode]
    BY <1>2 DEF AcceptedForGood, Accepted
  <2>1. Conv(norm') \/ (PseudoTimeMethod /\ its > 0 /\ PseudoConv(norm', p, first'))
    BY <1>1, <1>3, <1>4, <1>5, VerdictMeaning
  <2>2. CASE Conv(norm')
    BY <2>2 DEF Conv, Below
  <2>3. CASE PseudoTimeMethod /\ its > 0 /\ PseudoConv(norm', p, first')
    <3>1. first'[6] = 0
      BY <1>8, <1>9 DEF FirstInv, elec_quantum
    <3>2. /\ RFTol * norm'[poisson] <= first'[0]
          /\ RFTol * norm'[elec_continuity] <= first'[1]
          /\ RFTol * norm'[hole_continuity] <= first'[2]
          /\ RFTol * norm'[heat] <= first'[3]
      <4>1. \A t \in Tested : RFTol * norm'[t[1]] <= first'[t[2]]
        BY <2>3 DEF PseudoConv
      <4>2. /\ <<poisson, 0>> \in Tested /\ <<elec_continuity, 1>> \in Tested
            /\ <<hole_continuity, 2>> \in Tested /\ <<heat, 3>> \in Tested
        BY DEF Tested
      <4> QED
        BY <4>1, <4>2
    <3>3. norm'[electrode] < toler_relax \/ RFTol * norm'[electrode] <= 0
      BY <2>3, <3>1 DEF PseudoConv
    <3>4. RFTol * norm'[electrode] <= 0 => norm'[electrode] < toler_relax
      <4>1. \A m \in Nat \ {0}, n \in Nat : m * n <= 0 => n = 0
        OBVIOUS
      <4> QED
        BY <4>1, <1>4, EquationNumbers, NewtonAssumption
    <3> QED
      BY <2>3, <3>2, <3>3, <3>4 DEF poisson, elec_continuity, hole_continuity, heat
  <2> QED
    BY <2>1, <2>2, <2>3
<1>10. NoQuantum' = NoQuantum
  BY DEF NoQuantum
<1> QED
  BY <1>6, <1>7, <1>8, <1>9, <1>10 DEF IInv

LEMMA NextIInv == IInv /\ [Next]_vars => IInv'
<1> SUFFICES ASSUME IInv, [Next]_vars PROVE IInv'
  OBVIOUS
<1>1. CASE UNCHANGED vars
  BY <1>1 DEF vars, IInv, TypeOK, KeptInv, FirstInv, NoQuantum, AcceptedForGood, Accepted,
              Conv, Below
<1>2. CASE Test
  BY <1>2, TestIInv
<1>3. CASE Step
  <2>1. its' \in 0 .. MaxIteration /\ its' > 0
    BY <1>3, NewtonAssumption DEF Step, IInv, TypeOK
  <2> QED
    BY <1>3, <2>1 DEF Step, IInv, TypeOK, KeptInv, FirstInv, NoQuantum, AcceptedForGood, Accepted
<1>4. CASE OutOfSteps \/ LinearFails \/ LineSearchFails
  <2>1. reason' \in Diverged \ Converged
    BY <1>4 DEF OutOfSteps, LinearFails, LineSearchFails, Stopped, Diverged, Converged
  <2>2. /\ pc = "step" /\ pc' = "stopped"
        /\ UNCHANGED <<its, norm, pnorm, functions_norm, function_norm, ls, again,
                       PseudoTimeMethod, first>>
    BY <1>4 DEF OutOfSteps, LinearFails, LineSearchFails, Stopped
  <2> QED
    BY <2>1, <2>2 DEF IInv, TypeOK, KeptInv, FirstInv, NoQuantum, AcceptedForGood, Accepted
<1>5. CASE TryAgain \/ NextSolve
  <2>1. again' \in BOOLEAN
    BY <1>5, Zenon DEF TryAgain, NextSolve
  <2>2. ls' \in {"configured", "basic"}
    BY <1>5 DEF TryAgain, NextSolve, WithoutSearch, IInv, TypeOK
  <2>3. /\ its' = 0 /\ pc' = "test" /\ reason' = "iterating"
        /\ UNCHANGED <<norm, pnorm, functions_norm, function_norm, PseudoTimeMethod, first>>
    BY <1>5 DEF TryAgain, NextSolve, Restart
  <2> QED
    BY <2>1, <2>2, <2>3, NewtonAssumption
       DEF IInv, TypeOK, KeptInv, FirstInv, NoQuantum, AcceptedForGood, Accepted
<1> QED
  BY <1>1, <1>2, <1>3, <1>4, <1>5 DEF Next

LEMMA Invariance == Spec => []IInv
  BY InitIInv, NextIInv, PTL DEF Spec

(* Type correctness: every residual kept is one per equation, and no solve *)
(* makes more than MaxIteration steps.                                     *)
THEOREM TypeCorrect == Spec => []TypeOK
<1>1. IInv => TypeOK
  BY DEF IInv
<1> QED
  BY <1>1, Invariance, PTL

(* A solver without the quantum potential equations accepts an iterate     *)
(* only when its residual is close to the tolerances, or when the pseudo   *)
(* time method has reduced it since this solve started: the norms it is    *)
(* measured by are never those of a solve before. The hypothesis is        *)
(* needed: the norm of the electrodes is compared with functions_norm[6],  *)
(* which belongs to the quantum potential of the electrons.                *)
THEOREM AcceptsForGood ==
    ASSUME NoQuantum
    PROVE  Spec => []AcceptedForGood
<1>1. IInv => AcceptedForGood
  BY NoQuantum DEF IInv
<1> QED
  BY <1>1, Invariance, PTL

(* The second SNESSolve of snes_solve never stops the way the first one    *)
(* has: its line search is disabled, and stays so for the solver's life.   *)
(* On this rests that each solve ends (the property Terminates).           *)
SecondInv == again => ls = "basic" /\ reason # "line_search"

THEOREM SecondTryDiffers ==
    Spec => [](again /\ pc = "stopped" => reason # "line_search")
<1>1. Init => SecondInv
  BY DEF Init, SecondInv
<1>2. SecondInv /\ [Next]_vars => SecondInv'
  <2> SUFFICES ASSUME SecondInv, [Next]_vars PROVE SecondInv'
    OBVIOUS
  <2>1. CASE Test
    <3>1. reason' # "line_search" /\ UNCHANGED <<again, ls>>
      <4>1. PICK r, p, f, kept, exhausted : reason' = Verdict(r, p, f, kept, exhausted)
        BY <2>1 DEF Test
      <4> QED
        BY <2>1, <4>1 DEF Test, Verdict, Regular
    <3> QED
      BY <3>1 DEF SecondInv
  <2>2. CASE Step \/ OutOfSteps \/ LinearFails \/ LineSearchFails
    BY <2>2 DEF Step, OutOfSteps, LinearFails, LineSearchFails, Stopped, SecondInv
  <2>3. CASE TryAgain
    BY <2>3 DEF TryAgain, Restart, WithoutSearch, SecondInv
  <2>4. CASE NextSolve
    BY <2>4 DEF NextSolve, SecondInv
  <2>5. CASE UNCHANGED vars
    BY <2>5 DEF vars, SecondInv
  <2> QED
    BY <2>1, <2>2, <2>3, <2>4, <2>5 DEF Next
<1>3. SecondInv => (again /\ pc = "stopped" => reason # "line_search")
  BY DEF SecondInv
<1> QED
  BY <1>1, <1>2, <1>3, PTL DEF Spec

(***************************************************************************)
(* Whatever its residuals are, a solve uses up what is left of it: its     *)
(* second try, its steps, its place in a step.                             *)
(***************************************************************************)
Solving == pc # "stopped" \/ (reason = "line_search" /\ ~again)

Place == IF pc = "test" THEN 2 ELSE IF pc = "step" THEN 1 ELSE 0

Left == <<IF again THEN 0 ELSE 1, MaxIteration - its, Place>>

LEMMA StepDescends ==
    ASSUME TypeOK, TypeOK', Next, Solving
    PROVE  <<Left', Left>> \in Fewer(3)
<1> DEFINE tries == IF again THEN 0 ELSE 1
<1>1. /\ tries \in Nat /\ tries' \in Nat
      /\ MaxIteration - its \in Nat /\ MaxIteration - its' \in Nat
      /\ Place \in Nat /\ Place' \in Nat
  <2>1. ASSUME NEW n \in 0 .. MaxIteration PROVE MaxIteration - n \in Nat
    BY NewtonAssumption
  <2>2. its \in 0 .. MaxIteration /\ its' \in 0 .. MaxIteration
    BY DEF TypeOK
  <2> QED
    BY <2>1, <2>2 DEF Place
<1>2. \/ tries' < tries
      \/ tries' = tries /\ MaxIteration - its' < MaxIteration - its
      \/ tries' = tries /\ MaxIteration - its' = MaxIteration - its /\ Place' < Place
  <2>1. CASE Test
    BY <2>1 DEF Test, Place
  <2>2. CASE Step
    BY <2>2, NewtonAssumption DEF Step, TypeOK
  <2>3. CASE OutOfSteps \/ LinearFails \/ LineSearchFails
    BY <2>3 DEF OutOfSteps, LinearFails, LineSearchFails, Stopped, Place
  <2>4. CASE TryAgain
    BY <2>4 DEF TryAgain
  <2>5. CASE NextSolve
    BY <2>5 DEF NextSolve, Solving
  <2> QED
    BY <2>1, <2>2, <2>3, <2>4, <2>5 DEF Next
<1> QED
  BY <1>1, <1>2 DEF Left, Fewer, LexProductOrdering, OpToRel

(* Each solve of snes_solve stops after finitely many tests and steps, the *)
(* second SNESSolve included: every one of them descends.                  *)
THEOREM SolvesDescend == Spec => [][Solving => <<Left', Left>> \in Fewer(3)]_vars
<1>1. TypeOK /\ TypeOK' /\ [Next]_vars => [Solving => <<Left', Left>> \in Fewer(3)]_vars
  BY StepDescends
<1> QED
  BY <1>1, TypeCorrect, PTL DEF Spec
=============================================================================
