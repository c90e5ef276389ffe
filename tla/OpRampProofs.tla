---------------------------- MODULE OpRampProofs ----------------------------
(***************************************************************************)
(* Proofs about OpRamp: the ramp to the operating point, the single solve  *)
(* and the pseudo time steps, for every set of modes, every length of ramp *)
(* and every bound on steps and failures.                                  *)
(***************************************************************************)
EXTENDS OpRamp, Descent, TLAPS

(***************************************************************************)
(* The inductive invariant. On the ramp the position and its step start    *)
(* where the stored solution ends, and no position past the full sources   *)
(* is solved.                                                              *)
(***************************************************************************)
RampInv ==
    /\ OnRamp =>
          /\ mode.op /\ ierr = 0
          /\ diverged_retry < MaxDiverged
          /\ step = dstep + (IF started THEN node ELSE 0)
          /\ IF started THEN node \in 1 .. Full ELSE node = Prior
    /\ pc \in {"ramp", "check"} => step <= Full
    /\ pc = "while" => step <= Full \/ (started /\ node = Full)
    /\ pc \in {"ramp", "while"} /\ started => x \in StartVector

(* The loop of the pseudo time steps: as long as none has converged, every *)
(* step has failed, and fewer than MaxDiverged have.                       *)
LoopInv ==
    /\ steady => pc \in {"pdone", "done"} /\ node = Full /\ pseudo_ierr = 0
    /\ pc \in {"pseudo", "pcheck", "pdone"} =>
          PseudoTimeMethod /\ (mode.op => OpToSteady)
    /\ pc \in {"pseudo", "pcheck"} =>
          /\ pseudo_retry < MaxDiverged
          /\ pseudo_retry = k - 1 \/ node = Full
          /\ pseudo_ierr = 0
    /\ pc = "pcheck" => k <= PseudoTimeSteps
    /\ pc = "pdone" /\ pseudo_ierr = 0 /\ MaxDiverged <= PseudoTimeSteps => node = Full

(* The pseudo conductance is there in the first phase of the CMOS method   *)
(* only, and a steady solution was found with the present one.             *)
SigmaInv ==
    /\ sigma = "pseudo" => CMOS /\ phase = 1 /\ pc # "done"
    /\ steady => sigma_node = sigma

(* What has been reached when the ramp is left, and at the end.            *)
EndInv ==
    /\ pc \in {"after", "once", "result"} => ~steady
    /\ pc \in {"once", "result"} => ~mode.op /\ pseudo_ierr = 0
    /\ pc = "after" => mode.op
    /\ pc # "done" /\ ~mode.op => ierr = 0
    /\ ~OnRamp /\ mode.op /\ ierr = 0 => node = Full
    /\ pc = "done" /\ ~mode.op =>
          /\ ierr = 1 => ~steady
          /\ ierr = 0 /\ MaxDiverged <= PseudoTimeSteps => node = Full

IInv == TypeOK /\ RampInv /\ LoopInv /\ SigmaInv /\ EndInv

LEMMA FullType == Full \in Nat \ {0} /\ Unit <= Full
<1>1. \A n, u \in Nat \ {0} : n * u \in Nat \ {0} /\ u <= n * u
  OBVIOUS
<1> QED
  BY <1>1, RampAssumption DEF Full

LEMMA HalvedStep ==
    ASSUME NEW d \in 1 .. Unit, NEW s \in Nat, NEW n \in Nat, s = d + n
    PROVE  /\ Half(d) \in 1 .. Unit /\ Half(d) <= d
           /\ s - Back(d - Half(d)) \in Nat
           /\ s - Back(d - Half(d)) <= s
           /\ s - Back(d - Half(d)) = Half(d) + n
  BY RampAssumption DEF Half, Back

LEMMA GrownStep ==
    ASSUME NEW d \in 1 .. Unit
    PROVE  (IF d < Unit THEN Grown(d) ELSE d) \in 1 .. Unit
  BY RampAssumption DEF Grown

LEMMA ClippedStep ==
    ASSUME NEW d \in 1 .. Unit, NEW s \in 1 .. Full, PastEnd(s + d, d)
    PROVE  /\ d - (s + d - Full) \in 1 .. Unit
           /\ Full = d - (s + d - Full) + s
  BY FullType, RampAssumption DEF PastEnd

LEMMA InitIInv == Init => IInv
<1> SUFFICES ASSUME Init PROVE IInv
  OBVIOUS
<1> USE RampAssumption, PseudoAssumption
<1>1. TypeOK
  <2>1. VectorType
    BY DEF Init, VectorInit, VectorType
  <2>2. steady \in BOOLEAN /\ started \in BOOLEAN
    BY Zenon DEF Init, PseudoInit
  <2>3. PseudoType
    BY <2>1, <2>2 DEF Init, PseudoInit, PseudoType
  <2>4. sources \in Nat
    BY FullType DEF Init
  <2> QED
    BY <2>2, <2>3, <2>4 DEF Init, TypeOK
<1>2. RampInv
  BY FullType DEF Init, VectorInit, RampInv, OnRamp
<1>3. LoopInv
  BY DEF Init, PseudoInit, VectorInit, LoopInv, PseudoTimeMethod
<1>4. SigmaInv
  BY DEF Init, PseudoInit, SigmaInv
<1>5. EndInv
  BY DEF Init, PseudoInit, EndInv, OnRamp
<1> QED
  BY <1>1, <1>2, <1>3, <1>4, <1>5 DEF IInv

LEMMA SolveIInv == IInv /\ Solve /\ UNCHANGED mode => IInv'
<1> SUFFICES ASSUME IInv, Solve, UNCHANGED mode PROVE IInv'
  OBVIOUS
<1>1. /\ pc = "ramp" /\ pc' = "check" /\ sources' = step /\ node' = node
      /\ UNCHANGED <<pseudoVars, rampVars, phase, sigma, sigma_node, ierr>>
  BY DEF Solve, SnesSolve
<1>2. TypeOK'
  <2>1. VectorType'
    BY DEF IInv, TypeOK, PseudoType, Solve, SnesSolve, Converges, Fails, VectorType
  <2> QED
    BY <1>1, <2>1 DEF IInv, TypeOK, PseudoType, pseudoVars, rampVars
<1>3. RampInv'
  BY <1>1 DEF IInv, RampInv, OnRamp, rampVars
<1>4. LoopInv' /\ SigmaInv' /\ EndInv'
  BY <1>1 DEF IInv, RampInv, LoopInv, SigmaInv, EndInv, OnRamp, rampVars, pseudoVars, CMOS,
              PseudoTimeMethod, OpToSteady
<1> QED
  BY <1>2, <1>3, <1>4 DEF IInv

LEMMA RetryIInv == IInv /\ Retry /\ UNCHANGED mode => IInv'
<1> SUFFICES ASSUME IInv, Retry, UNCHANGED mode PROVE IInv'
  OBVIOUS
<1> USE RampAssumption, PseudoAssumption
<1>1. /\ pc = "check" /\ pc' = "while"
      /\ diverged_retry' = diverged_retry + 1 /\ diverged_retry' < MaxDiverged
      /\ dstep' = Half(dstep) /\ step' = step - Back(dstep - dstep')
      /\ x' = Filled
      /\ UNCHANGED <<node, ve, ls, reason, pseudoVars, started, sources, phase, sigma,
                     sigma_node, ierr>>
  BY DEF Retry, DivergedRecovery
<1>2. x' \in {"node", "mixed"}
  BY <1>1 DEF Filled
<1> DEFINE n == IF started THEN node ELSE 0
<1>3. dstep \in 1 .. Unit /\ step \in Nat /\ n \in Nat /\ step = dstep + n
  BY <1>1, FullType DEF IInv, TypeOK, RampInv, OnRamp
<1> HIDE DEF n
<1>4. /\ dstep' \in 1 .. Unit /\ step' \in Nat /\ step' <= step /\ step' = dstep' + n
  BY <1>1, <1>3, HalvedStep, Zenon
<1>5. TypeOK'
  <2>1. diverged_retry' \in 0 .. MaxDiverged
    BY <1>1 DEF IInv, TypeOK
  <2>2. PseudoType'
    BY <1>1, <1>2 DEF IInv, TypeOK, PseudoType, VectorType, pseudoVars
  <2> QED
    BY <1>1, <1>4, <2>1, <2>2 DEF IInv, TypeOK
<1>6. RampInv'
  <2>1. n' = n
    BY <1>1 DEF n
  <2> QED
    BY <1>1, <1>2, <1>3, <1>4, <2>1, FullType DEF IInv, RampInv, OnRamp, StartVector, n
<1>7. LoopInv' /\ SigmaInv' /\ EndInv'
  BY <1>1 DEF IInv, RampInv, LoopInv, SigmaInv, EndInv, OnRamp, pseudoVars, CMOS,
              PseudoTimeMethod, OpToSteady
<1> QED
  BY <1>5, <1>6, <1>7 DEF IInv

LEMMA GiveUpIInv == IInv /\ GiveUp /\ UNCHANGED mode => IInv'
<1> SUFFICES ASSUME IInv, GiveUp, UNCHANGED mode PROVE IInv'
  OBVIOUS
<1> USE RampAssumption, PseudoAssumption
<1>1. /\ pc = "check" /\ pc' = "after" /\ ierr' = 1
      /\ diverged_retry' = diverged_retry + 1
      /\ UNCHANGED <<vectorVars, pseudoVars, step, dstep, started, sources, phase,
                     sigma, sigma_node>>
  BY DEF GiveUp
<1>2. TypeOK'
  <2>1. diverged_retry' \in 0 .. MaxDiverged
    BY <1>1 DEF IInv, TypeOK, RampInv, OnRamp
  <2> QED
    BY <1>1, <2>1 DEF IInv, TypeOK, PseudoType, VectorType, vectorVars, pseudoVars
<1>3. RampInv' /\ LoopInv' /\ SigmaInv' /\ EndInv'
  BY <1>1 DEF IInv, RampInv, LoopInv, SigmaInv, EndInv, OnRamp, vectorVars, pseudoVars, CMOS,
              PseudoTimeMethod, OpToSteady
<1> QED
  BY <1>2, <1>3 DEF IInv

LEMMA AcceptIInv == IInv /\ Accept /\ UNCHANGED mode => IInv'
<1> SUFFICES ASSUME IInv, Accept, UNCHANGED mode PROVE IInv'
  OBVIOUS
<1> USE RampAssumption, PseudoAssumption
<1> DEFINE d == IF dstep < Unit THEN Grown(dstep) ELSE dstep
<1>1. /\ pc = "check" /\ pc' = "while" /\ node' = step /\ ve' = "node" /\ x' = "node"
      /\ sigma_node' = sigma /\ diverged_retry' = 0 /\ started' = TRUE
      /\ IF PastEnd(step + d, d)
         THEN step' = Full /\ dstep' = d - (step + d - Full)
         ELSE step' = step + d /\ dstep' = d
      /\ UNCHANGED <<ls, reason, pseudoVars, sources, phase, sigma, ierr>>
  BY DEF Accept, PostSolve
<1>2. dstep \in 1 .. Unit /\ step \in 1 .. Full /\ d \in 1 .. Unit
  <2>1. dstep \in 1 .. Unit /\ step \in Nat /\ step <= Full /\ step >= 1
    BY <1>1, FullType DEF IInv, TypeOK, RampInv, OnRamp
  <2> QED
    BY <2>1, GrownStep, FullType
<1> HIDE DEF d
<1>3. /\ dstep' \in 1 .. Unit /\ step' \in Nat /\ step' = dstep' + step
      /\ step' <= Full \/ step = Full
  <2>1. CASE PastEnd(step + d, d)
    BY <1>1, <1>2, <2>1, ClippedStep, FullType
  <2>2. CASE ~PastEnd(step + d, d)
    <3>1. step + d \in Nat /\ step + d = d + step /\ (step + d <= Full \/ step = Full)
      BY <1>2, <2>2, FullType DEF PastEnd
    <3> QED
      BY <1>1, <1>2, <2>2, <3>1
  <2> QED
    BY <2>1, <2>2
<1>4. TypeOK'
  <2>1. PseudoType'
    BY <1>1, <1>2 DEF IInv, TypeOK, PseudoType, VectorType, pseudoVars
  <2>2. started' \in BOOLEAN
    BY <1>1, Zenon
  <2>3. /\ pc' = "while" /\ diverged_retry' = 0 /\ sigma_node' = sigma
        /\ UNCHANGED <<sources, phase, sigma, ierr>>
    BY <1>1, Zenon
  <2>4. pc' = "while" /\ diverged_retry' \in 0 .. MaxDiverged
    BY <2>3
  <2>5. /\ sources' \in Nat /\ phase' \in {1, 2} /\ sigma' \in {"material", "pseudo"}
        /\ sigma_node' \in {"material", "pseudo"} /\ ierr' \in {0, 1} /\ mode' \in Modes
    BY <2>3 DEF IInv, TypeOK
  <2> QED
    BY <1>3, <2>1, <2>2, <2>4, <2>5 DEF TypeOK
<1>5. RampInv'
  BY <1>1, <1>2, <1>3 DEF IInv, RampInv, OnRamp, StartVector
<1>6. LoopInv' /\ SigmaInv' /\ EndInv'
  BY <1>1 DEF IInv, RampInv, LoopInv, SigmaInv, EndInv, OnRamp, pseudoVars, CMOS,
              PseudoTimeMethod, OpToSteady
<1> QED
  BY <1>4, <1>5, <1>6 DEF IInv

LEMMA LeaveRampIInv ==
    IInv /\ (While \/ Drive \/ Return) /\ UNCHANGED mode => IInv'
<1> SUFFICES ASSUME IInv, UNCHANGED mode, While \/ Drive \/ Return PROVE IInv'
  OBVIOUS
<1> USE RampAssumption, PseudoAssumption
<1>1. CASE While
  <2>1. /\ pc = "while"
        /\ pc' = IF Continues(step, dstep) THEN "ramp" ELSE "after"
        /\ UNCHANGED <<vectorVars, pseudoVars, rampVars, sources, phase, sigma,
                       sigma_node, ierr>>
    BY <1>1 DEF While
  <2>2. step \in Nat /\ dstep \in 1 .. Unit /\ Full \in Nat
    BY FullType DEF IInv, TypeOK
  <2>3. Continues(step, dstep) <=> step <= Full
    <3>1. CASE step <= Full
      BY <2>2, <3>1 DEF Continues
    <3>2. CASE ~(step <= Full)
      <4>1. step = dstep + Full
        BY <2>1, <2>2, <3>2 DEF IInv, RampInv, OnRamp
      <4> QED
        BY <2>2, <3>2, <4>1 DEF Continues
    <3> QED
      BY <3>1, <3>2
  <2>4. TypeOK'
    BY <2>1 DEF IInv, TypeOK, PseudoType, VectorType, vectorVars, pseudoVars, rampVars
  <2>5. RampInv'
    BY <2>1, <2>3 DEF IInv, RampInv, OnRamp, vectorVars, pseudoVars, rampVars
  <2>6. LoopInv' /\ SigmaInv' /\ EndInv'
    BY <2>1, <2>3 DEF IInv, RampInv, LoopInv, SigmaInv, EndInv, OnRamp, vectorVars, pseudoVars,
                      CMOS, PseudoTimeMethod, OpToSteady
  <2> QED
    BY <2>4, <2>5, <2>6 DEF IInv
<1>2. CASE Drive
  <2>1. /\ pc = "after" /\ pc' = "pseudo" /\ PseudoTimeMethod /\ OpToSteady /\ sources' = Full
        /\ k' = 1 /\ pseudo_retry' = 0 /\ steady' = FALSE /\ pseudo_ierr' = 0
        /\ UNCHANGED <<vectorVars, rampVars, phase, sigma, sigma_node, ierr>>
    BY <1>2 DEF Drive, PseudoBegin
  <2>2. TypeOK'
    <3>1. steady' \in BOOLEAN
      BY <2>1, Zenon
    <3> QED
      BY <2>1, <3>1, FullType DEF IInv, TypeOK, PseudoType, VectorType, vectorVars, rampVars
  <2>3. RampInv' /\ LoopInv' /\ SigmaInv' /\ EndInv'
    BY <2>1 DEF IInv, RampInv, LoopInv, SigmaInv, EndInv, OnRamp, vectorVars, rampVars,
                CMOS, PseudoTimeMethod, OpToSteady
  <2> QED
    BY <2>2, <2>3 DEF IInv
<1>3. CASE Return
  <2>1. /\ pc = "after" /\ pc' = "done" /\ sigma' = "material"
        /\ UNCHANGED <<vectorVars, pseudoVars, rampVars, sources, phase, sigma_node, ierr>>
    BY <1>3 DEF Return
  <2>2. TypeOK'
    BY <2>1 DEF IInv, TypeOK, PseudoType, VectorType, vectorVars, pseudoVars, rampVars
  <2>3. RampInv' /\ LoopInv' /\ SigmaInv' /\ EndInv'
    BY <2>1 DEF IInv, RampInv, LoopInv, SigmaInv, EndInv, OnRamp, vectorVars, pseudoVars,
                rampVars, CMOS, PseudoTimeMethod, OpToSteady
  <2> QED
    BY <2>2, <2>3 DEF IInv
<1> QED
  BY <1>1, <1>2, <1>3

LEMMA PseudoIInv == IInv /\ PseudoStep /\ UNCHANGED mode => IInv'
<1> SUFFICES ASSUME IInv, PseudoStep, UNCHANGED mode PROVE IInv'
  OBVIOUS
<1> USE RampAssumption, PseudoAssumption
<1>0. UNCHANGED <<rampVars, sources, phase, sigma, ierr>>
  BY DEF PseudoStep
<1>1. CASE PseudoSolve /\ UNCHANGED sigma_node
  <2>1. /\ pc = "pseudo" /\ k <= PseudoTimeSteps /\ pc' = "pcheck" /\ node' = node
        /\ UNCHANGED pseudoVars /\ UNCHANGED sigma_node
    BY <1>1 DEF PseudoSolve, SnesSolve
  <2>2. VectorType'
    BY <1>1 DEF IInv, TypeOK, PseudoType, PseudoSolve, SnesSolve, Converges, Fails, VectorType
  <2>3. TypeOK'
    BY <1>0, <2>1, <2>2 DEF IInv, TypeOK, PseudoType, pseudoVars, rampVars
  <2>4. RampInv' /\ LoopInv' /\ SigmaInv' /\ EndInv'
    BY <1>0, <2>1 DEF IInv, RampInv, LoopInv, SigmaInv, EndInv, OnRamp, pseudoVars, rampVars,
                      CMOS, PseudoTimeMethod, OpToSteady
  <2> QED
    BY <2>3, <2>4 DEF IInv
<1>2. CASE PseudoOut /\ UNCHANGED sigma_node
  <2>1. /\ pc = "pseudo" /\ k > PseudoTimeSteps /\ pc' = "pdone"
        /\ UNCHANGED <<vectorVars, pseudoVars>> /\ UNCHANGED sigma_node
    BY <1>2 DEF PseudoOut
  <2>2. TypeOK'
    BY <1>0, <2>1 DEF IInv, TypeOK, PseudoType, VectorType, vectorVars, pseudoVars, rampVars
  <2>3. MaxDiverged <= PseudoTimeSteps => node = Full
    BY <2>1 DEF IInv, TypeOK, PseudoType, LoopInv
  <2>4. RampInv' /\ LoopInv' /\ SigmaInv' /\ EndInv'
    BY <1>0, <2>1, <2>3
    DEF IInv, RampInv, LoopInv, SigmaInv, EndInv, OnRamp, vectorVars, pseudoVars, rampVars,
        CMOS, PseudoTimeMethod, OpToSteady
  <2> QED
    BY <2>2, <2>4 DEF IInv
<1>3. CASE PseudoRetry /\ UNCHANGED sigma_node
  <2>1. /\ pc = "pcheck" /\ pc' = "pseudo" /\ x' = Filled
        /\ pseudo_retry' = pseudo_retry + 1 /\ pseudo_retry' < MaxDiverged /\ k' = k + 1
        /\ UNCHANGED <<node, ve, ls, reason, steady, pseudo_ierr>> /\ UNCHANGED sigma_node
    BY <1>3 DEF PseudoRetry, DivergedRecovery, Spent
  <2>2. x' \in {"node", "mixed"}
    BY <2>1 DEF Filled
  <2>3. k \in Nat /\ k <= PseudoTimeSteps /\ pseudo_retry \in Nat /\ k >= 1
    BY <2>1 DEF IInv, TypeOK, PseudoType, LoopInv
  <2>4. k' \in 1 .. PseudoTimeSteps + 1 /\ pseudo_retry' \in 0 .. MaxDiverged
    BY <2>1, <2>3
  <2>5. TypeOK'
    BY <1>0, <2>1, <2>2, <2>4 DEF IInv, TypeOK, PseudoType, VectorType, rampVars
  <2>6. pseudo_retry' = k' - 1 \/ node' = Full
    BY <2>1, <2>3 DEF IInv, LoopInv
  <2>7. RampInv' /\ LoopInv' /\ SigmaInv' /\ EndInv'
    BY <1>0, <2>1, <2>6
    DEF IInv, RampInv, LoopInv, SigmaInv, EndInv, OnRamp, rampVars, CMOS, PseudoTimeMethod,
        OpToSteady
  <2> QED
    BY <2>5, <2>7 DEF IInv
<1>4. CASE PseudoGiveUp /\ UNCHANGED sigma_node
  <2>1. /\ pc = "pcheck" /\ pc' = "pdone" /\ pseudo_retry' = pseudo_retry + 1
        /\ pseudo_ierr' = 1 /\ UNCHANGED <<vectorVars, k, steady>> /\ UNCHANGED sigma_node
    BY <1>4 DEF PseudoGiveUp
  <2>2. pseudo_retry' \in 0 .. MaxDiverged
    BY <2>1 DEF IInv, TypeOK, PseudoType, LoopInv
  <2>3. TypeOK'
    BY <1>0, <2>1, <2>2 DEF IInv, TypeOK, PseudoType, VectorType, vectorVars, rampVars
  <2>4. RampInv' /\ LoopInv' /\ SigmaInv' /\ EndInv'
    BY <1>0, <2>1
    DEF IInv, RampInv, LoopInv, SigmaInv, EndInv, OnRamp, vectorVars, rampVars, CMOS,
        PseudoTimeMethod, OpToSteady
  <2> QED
    BY <2>3, <2>4 DEF IInv
<1>5. CASE PseudoAccept(Full) /\ sigma_node' = sigma
  <2>1. /\ pc = "pcheck" /\ node' = Full /\ ve' = "node" /\ x' = "node" /\ sigma_node' = sigma
        /\ UNCHANGED <<ls, reason, pseudo_retry, pseudo_ierr>>
        /\ \E passed \in BOOLEAN :
              /\ steady' = passed
              /\ IF passed THEN pc' = "pdone" /\ k' = k ELSE pc' = "pseudo" /\ k' = k + 1
    BY <1>5 DEF PseudoAccept, PostSolve, Leaves
  <2>0. /\ steady' \in BOOLEAN
        /\ \/ steady' /\ pc' = "pdone" /\ k' = k
           \/ ~steady' /\ pc' = "pseudo" /\ k' = k + 1
    <3>1. PICK passed \in BOOLEAN :
             /\ steady' = passed
             /\ IF passed THEN pc' = "pdone" /\ k' = k ELSE pc' = "pseudo" /\ k' = k + 1
      BY <2>1
    <3>2. steady' \in BOOLEAN /\ (passed <=> steady')
      BY <3>1, Zenon
    <3>3. CASE passed
      BY <3>1, <3>2, <3>3
    <3>4. CASE ~passed
      BY <3>1, <3>2, <3>4
    <3> QED
      BY <3>3, <3>4
  <2>2. k' \in 1 .. PseudoTimeSteps + 1 /\ Full \in Int
    BY <2>0, <2>1, FullType DEF IInv, TypeOK, PseudoType, LoopInv
  <2>3. TypeOK'
    BY <1>0, <2>0, <2>1, <2>2 DEF IInv, TypeOK, PseudoType, VectorType, rampVars
  <2>4. RampInv' /\ LoopInv' /\ SigmaInv' /\ EndInv'
    BY <1>0, <2>0, <2>1
    DEF IInv, RampInv, LoopInv, SigmaInv, EndInv, OnRamp, rampVars, CMOS, PseudoTimeMethod,
        OpToSteady
  <2> QED
    BY <2>3, <2>4 DEF IInv
<1> QED
  BY <1>1, <1>2, <1>3, <1>4, <1>5 DEF PseudoStep

LEMMA SteadyIInv == IInv /\ SteadyNext /\ UNCHANGED mode => IInv'
<1> SUFFICES ASSUME IInv, SteadyNext, UNCHANGED mode PROVE IInv'
  OBVIOUS
<1> USE RampAssumption, PseudoAssumption
<1>0. UNCHANGED <<rampVars, sources, phase, sigma>>
  BY DEF SteadyNext
<1>1. CASE Once /\ UNCHANGED sigma_node
  <2>1. /\ pc = "once" /\ pc' = "result" /\ node' = node /\ UNCHANGED <<pseudoVars, ierr>>
        /\ UNCHANGED sigma_node
    BY <1>1 DEF Once, SnesSolve
  <2>2. VectorType'
    BY <1>1 DEF IInv, TypeOK, PseudoType, Once, SnesSolve, Converges, Fails, VectorType
  <2>3. TypeOK'
    BY <1>0, <2>1, <2>2 DEF IInv, TypeOK, PseudoType, pseudoVars, rampVars
  <2>4. RampInv' /\ LoopInv' /\ SigmaInv' /\ EndInv'
    BY <1>0, <2>1
    DEF IInv, RampInv, LoopInv, SigmaInv, EndInv, OnRamp, pseudoVars, rampVars, CMOS,
        PseudoTimeMethod, OpToSteady
  <2> QED
    BY <2>3, <2>4 DEF IInv
<1>2. CASE NotConverged /\ UNCHANGED sigma_node
  <2>1. /\ pc = "result" /\ pc' = "done" /\ ierr' = 1 /\ UNCHANGED <<vectorVars, pseudoVars>>
        /\ UNCHANGED sigma_node
    BY <1>2 DEF NotConverged
  <2>2. TypeOK'
    BY <1>0, <2>1 DEF IInv, TypeOK, PseudoType, VectorType, vectorVars, pseudoVars, rampVars
  <2>3. RampInv' /\ LoopInv' /\ SigmaInv' /\ EndInv'
    BY <1>0, <2>1
    DEF IInv, RampInv, LoopInv, SigmaInv, EndInv, OnRamp, vectorVars, pseudoVars, rampVars,
        CMOS, PseudoTimeMethod, OpToSteady
  <2> QED
    BY <2>2, <2>3 DEF IInv
<1>3. CASE ~mode.op /\ ReturnSteady /\ UNCHANGED sigma_node
  <2>1. /\ pc = "pdone" /\ pc' = "done" /\ ierr' = pseudo_ierr /\ ~mode.op
        /\ UNCHANGED <<vectorVars, pseudoVars>> /\ UNCHANGED sigma_node
    BY <1>3 DEF ReturnSteady
  <2>2. TypeOK'
    BY <1>0, <2>1 DEF IInv, TypeOK, PseudoType, VectorType, vectorVars, pseudoVars, rampVars
  <2>3. RampInv' /\ LoopInv' /\ SigmaInv' /\ EndInv'
    BY <1>0, <2>1
    DEF IInv, RampInv, LoopInv, SigmaInv, EndInv, OnRamp, vectorVars, pseudoVars, rampVars,
        CMOS, PseudoTimeMethod, OpToSteady
  <2> QED
    BY <2>2, <2>3 DEF IInv
<1>4. CASE Store(Full) /\ sigma_node' = sigma
  <2>1. /\ pc = "result" /\ pc' = "done" /\ node' = Full /\ ve' = "node" /\ steady' = TRUE
        /\ sigma_node' = sigma
        /\ UNCHANGED <<x, ls, reason, k, pseudo_retry, pseudo_ierr, ierr>>
    BY <1>4 DEF Store, PostSolve
  <2>2. Full \in Int
    BY FullType
  <2>3. steady' \in BOOLEAN
    BY <2>1, Zenon
  <2>4. PseudoType'
    BY <2>1, <2>2, <2>3 DEF IInv, TypeOK, PseudoType, VectorType
  <2>5. TypeOK'
    BY <1>0, <2>1, <2>4 DEF IInv, TypeOK, rampVars
  <2>6. RampInv' /\ LoopInv' /\ SigmaInv' /\ EndInv'
    BY <1>0, <2>1
    DEF IInv, RampInv, LoopInv, SigmaInv, EndInv, OnRamp, rampVars, CMOS, PseudoTimeMethod,
        OpToSteady
  <2> QED
    BY <2>5, <2>6 DEF IInv
<1> QED
  BY <1>1, <1>2, <1>3, <1>4 DEF SteadyNext

LEMMA LeavePseudoIInv == IInv /\ (Again \/ Leave) /\ UNCHANGED mode => IInv'
<1> SUFFICES ASSUME IInv, UNCHANGED mode, Again \/ Leave PROVE IInv'
  OBVIOUS
<1> USE RampAssumption, PseudoAssumption
<1>1. CASE Again
  <2>1. /\ pc = "pdone" /\ pc' = "pseudo" /\ CMOS /\ phase = 1 /\ phase' = 2
        /\ sigma' = "material"
        /\ k' = 1 /\ pseudo_retry' = 0 /\ steady' = FALSE /\ pseudo_ierr' = 0
        /\ UNCHANGED <<vectorVars, rampVars, sources, sigma_node, ierr>>
    BY <1>1 DEF Again, PseudoBegin, NextPhase, SigmaRestored
  <2>2. steady' \in BOOLEAN
    BY <2>1, Zenon
  <2>3. TypeOK'
    BY <2>1, <2>2 DEF IInv, TypeOK, PseudoType, VectorType, vectorVars, rampVars
  <2>4. RampInv' /\ LoopInv' /\ SigmaInv' /\ EndInv'
    BY <2>1 DEF IInv, RampInv, LoopInv, SigmaInv, EndInv, OnRamp, vectorVars, rampVars,
                CMOS, PseudoTimeMethod, OpToSteady
  <2> QED
    BY <2>3, <2>4 DEF IInv
<1>2. CASE Leave
  <2>1. /\ pc = "pdone" /\ pc' = "done" /\ mode.op /\ (~CMOS \/ phase = 2)
        /\ UNCHANGED <<vectorVars, pseudoVars, rampVars, sources, phase, sigma, sigma_node, ierr>>
    BY <1>2 DEF Leave
  <2>2. TypeOK'
    BY <2>1 DEF IInv, TypeOK, PseudoType, VectorType, vectorVars, pseudoVars, rampVars
  <2>3. RampInv' /\ LoopInv' /\ SigmaInv' /\ EndInv'
    BY <2>1 DEF IInv, RampInv, LoopInv, SigmaInv, EndInv, OnRamp, vectorVars, pseudoVars,
                rampVars, CMOS, PseudoTimeMethod, OpToSteady
  <2> QED
    BY <2>2, <2>3 DEF IInv
<1> QED
  BY <1>1, <1>2

LEMMA StutterIInv == IInv /\ UNCHANGED vars => IInv'
<1> SUFFICES ASSUME IInv, UNCHANGED vars PROVE IInv'
  OBVIOUS
<1> USE DEF vars, vectorVars, pseudoVars, rampVars
<1>1. TypeOK'
  BY DEF IInv, TypeOK, PseudoType, VectorType
<1>2. RampInv' /\ LoopInv' /\ SigmaInv' /\ EndInv'
  BY DEF IInv, RampInv, LoopInv, SigmaInv, EndInv, OnRamp, CMOS, PseudoTimeMethod, OpToSteady
<1> QED
  BY <1>1, <1>2 DEF IInv

LEMMA StepIInv == IInv /\ [Next]_vars => IInv'
  BY SolveIInv, RetryIInv, GiveUpIInv, AcceptIInv, LeaveRampIInv, PseudoIInv, SteadyIInv,
     LeavePseudoIInv, StutterIInv
  DEF Next, RampNext, Done

LEMMA AlwaysIInv == Spec => []IInv
  BY InitIInv, StepIInv, PTL DEF Spec

(* Every variable keeps its type; no step of the ramp is empty or longer   *)
(* than the limits allow.                                                  *)
THEOREM TypeCorrect == Spec => []TypeOK
<1>1. IInv => TypeOK
  BY DEF IInv
<1> QED
  BY <1>1, AlwaysIInv, PTL

(* Halving, growing and clipping leave no gap on the ramp.                 *)
THEOREM RampFollows == Spec => []RampMatches
<1>1. IInv => RampMatches
  <2> SUFFICES ASSUME IInv, OnRamp PROVE step - dstep = IF started THEN node ELSE 0
    BY DEF RampMatches
  <2>1. /\ step = dstep + (IF started THEN node ELSE 0)
        /\ dstep \in Nat /\ (started => node \in Nat)
    BY FullType DEF IInv, TypeOK, RampInv
  <2> QED
    BY <2>1
<1> QED
  BY <1>1, AlwaysIInv, PTL

(* A solution reported steady is one of the material's own conductance.    *)
THEOREM SteadyIsMaterial == Spec => []SteadyMaterial
<1>1. IInv => SteadyMaterial
  BY DEF IInv, TypeOK, SigmaInv, SteadyMaterial
<1> QED
  BY <1>1, AlwaysIInv, PTL

(* The pseudo time steps stop at the first steady solution, and success is *)
(* reported only with a solution at the full sources.                      *)
THEOREM SteadyEnds == Spec => []SteadyIsLast
<1>1. IInv => SteadyIsLast
  BY DEF IInv, LoopInv, EndInv, OnRamp, SteadyIsLast
<1> QED
  BY <1>1, AlwaysIInv, PTL

(* No transient analysis before: the counter of its steps is what makes    *)
(* the pseudo time steps fill the vector (with another count the first one *)
(* of a new solver starts from an empty vector).                           *)
THEOREM StartsFromStored ==
    ASSUME T_Cycles = 0
    PROVE  Spec => []SolveStart
<1>1. IInv => SolveStart
  BY DEF IInv, RampInv, SolveStart, PreSolve, PseudoLoads, Filled, StartVector
<1> QED
  BY <1>1, AlwaysIInv, PTL

(***************************************************************************)
(* Every step of the analysis uses up what is left of it: the loops still  *)
(* to run (the ramp, what is solved after it, two calls of the pseudo time *)
(* steps), the rest of the ramp or of the pseudo time steps, the failures  *)
(* in a row that are still allowed on the ramp, the place in the loop.     *)
(***************************************************************************)
Loops ==
    IF OnRamp THEN 4
    ELSE IF pc \in {"after", "once", "result"} THEN 3
    ELSE IF pc \in {"pseudo", "pcheck", "pdone"} THEN 3 - phase ELSE 0

Steps ==
    IF OnRamp THEN Full - (IF started THEN node ELSE 0) ELSE PseudoTimeSteps + 1 - k

Failures == IF OnRamp THEN MaxDiverged - diverged_retry ELSE 0

Place ==
    IF pc \in {"while", "once", "pseudo"} THEN 3
    ELSE IF pc = "ramp" THEN 2
    ELSE IF pc \in {"check", "pcheck"} THEN 1 ELSE 0

Left == <<Loops, Steps, Failures, Place>>

Measured == Loops \in Nat /\ Steps \in Nat /\ Failures \in Nat /\ Place \in Nat

LEMMA IsMeasured == IInv => Measured
<1> SUFFICES ASSUME IInv PROVE Measured
  OBVIOUS
<1> USE RampAssumption, PseudoAssumption
<1>1. ASSUME NEW n \in 0 .. MaxDiverged PROVE MaxDiverged - n \in Nat
  OBVIOUS
<1>2. ASSUME NEW n \in 1 .. PseudoTimeSteps + 1 PROVE PseudoTimeSteps + 1 - n \in Nat
  OBVIOUS
<1>3. diverged_retry \in 0 .. MaxDiverged /\ k \in 1 .. PseudoTimeSteps + 1 /\ phase \in {1, 2}
  BY DEF IInv, TypeOK, PseudoType
<1>4. OnRamp => Full - (IF started THEN node ELSE 0) \in Nat
  BY FullType DEF IInv, RampInv
<1>5. Loops \in Nat /\ Place \in Nat
  BY <1>3 DEF Loops, Place
<1>6. Steps \in Nat /\ Failures \in Nat
  BY <1>1, <1>2, <1>3, <1>4, Zenon DEF Steps, Failures
<1> QED
  BY <1>5, <1>6 DEF Measured

(* On the ramp. Half of one unit is one unit again: it is the failures in  *)
(* a row that end the halving, and a solution stored that ends them.       *)
LEMMA RampDescends ==
    ASSUME IInv, Measured, Measured', RampNext
    PROVE  <<Left', Left>> \in Fewer(4)
<1> USE RampAssumption, PseudoAssumption
<1>1. CASE Solve \/ (While /\ pc' = "ramp")
  <2>1. /\ OnRamp /\ OnRamp' /\ UNCHANGED <<started, node, diverged_retry>>
        /\ \/ pc = "ramp" /\ pc' = "check"
           \/ pc = "while" /\ pc' = "ramp"
    BY <1>1 DEF Solve, SnesSolve, While, rampVars, vectorVars, OnRamp
  <2>2. Loops' = Loops /\ Steps' = Steps /\ Failures' = Failures /\ Place' < Place
    BY <2>1 DEF Loops, Steps, Failures, Place
  <2> QED
    BY <2>2 DEF Measured, Left, Fewer, LexProductOrdering, OpToRel
<1>2. CASE GiveUp \/ (While /\ pc' # "ramp")
  <2>1. Loops' < Loops
    BY <1>2 DEF GiveUp, While, OnRamp, Loops
  <2> QED
    BY <2>1 DEF Measured, Left, Fewer, LexProductOrdering, OpToRel
<1>3. CASE Retry
  <2>1. /\ OnRamp /\ OnRamp' /\ UNCHANGED <<started, node>>
        /\ diverged_retry' = diverged_retry + 1
    BY <1>3 DEF Retry, OnRamp
  <2>2. diverged_retry \in 0 .. MaxDiverged
    BY DEF IInv, TypeOK
  <2>3. Loops' = Loops /\ Steps' = Steps /\ Failures' < Failures
    BY <2>1, <2>2 DEF Loops, Steps, Failures
  <2> QED
    BY <2>3 DEF Measured, Left, Fewer, LexProductOrdering, OpToRel
<1>4. CASE Accept
  <2>1. /\ pc = "check" /\ OnRamp /\ OnRamp' /\ started' = TRUE /\ node' = step
    BY <1>4 DEF Accept, PostSolve, OnRamp
  <2>2. /\ step = dstep + (IF started THEN node ELSE 0) /\ dstep \in 1 .. Unit
        /\ (started => node \in 1 .. Full)
    BY <2>1 DEF IInv, TypeOK, RampInv
  <2>3. Loops' = Loops
    BY <2>1 DEF Loops
  <2>4. Steps' < Steps
    BY <2>1, <2>2, FullType DEF Steps
  <2> QED
    BY <2>3, <2>4 DEF Measured, Left, Fewer, LexProductOrdering, OpToRel
<1> QED
  BY <1>1, <1>2, <1>3, <1>4 DEF RampNext

(* In the pseudo time steps.                                               *)
LEMMA PseudoDescends ==
    ASSUME IInv, Measured, Measured', PseudoStep
    PROVE  <<Left', Left>> \in Fewer(4)
<1> USE RampAssumption, PseudoAssumption
<1>0. /\ pc \in {"pseudo", "pcheck"} /\ pc' \in {"pseudo", "pcheck", "pdone"} /\ phase' = phase
      /\ \/ /\ k' = k
            /\ \/ pc = "pseudo" /\ pc' # "pseudo"
               \/ pc = "pcheck" /\ pc' = "pdone"
         \/ k' = k + 1 /\ pc' = "pseudo"
  <2>1. CASE PseudoSolve \/ PseudoOut
    BY <2>1 DEF PseudoStep, PseudoSolve, PseudoOut, pseudoVars
  <2>2. CASE PseudoRetry \/ PseudoGiveUp
    BY <2>2 DEF PseudoStep, PseudoRetry, PseudoGiveUp, Spent
  <2>3. CASE PseudoAccept(Full)
    BY <2>3 DEF PseudoStep, PseudoAccept, Leaves
  <2> QED
    BY <2>1, <2>2, <2>3 DEF PseudoStep
<1>1. /\ ~OnRamp /\ ~OnRamp' /\ Loops' = Loops /\ Failures' = Failures
  BY <1>0 DEF OnRamp, Loops, Failures
<1>2. CASE k' = k
  <2>1. Steps' = Steps
    BY <1>1, <1>2 DEF Steps
  <2>2. Place' < Place
    BY <1>0, <1>2 DEF Place, IInv, TypeOK, PseudoType
  <2> QED
    BY <1>1, <2>1, <2>2 DEF Measured, Left, Fewer, LexProductOrdering, OpToRel
<1>3. CASE k' = k + 1
  <2>1. k \in Nat
    BY DEF IInv, TypeOK, PseudoType
  <2>2. Steps' < Steps
    BY <1>1, <1>3, <2>1 DEF Steps
  <2> QED
    BY <1>1, <2>2 DEF Measured, Left, Fewer, LexProductOrdering, OpToRel
<1> QED
  BY <1>0, <1>2, <1>3

(* Between the loops, and in the single solve.                             *)
LEMMA SteadyDescends ==
    ASSUME IInv, Measured, Measured', SteadyNext \/ Drive \/ Return \/ Again \/ Leave
    PROVE  <<Left', Left>> \in Fewer(4)
<1>1. CASE SteadyNext /\ pc = "once"
  <2>1. pc' = "result" /\ UNCHANGED <<k, phase>>
    BY <1>1 DEF SteadyNext, Once, Store, NotConverged, ReturnSteady, pseudoVars
  <2>2. Loops' = Loops /\ Steps' = Steps /\ Failures' = Failures /\ Place' < Place
    BY <1>1, <2>1 DEF Loops, Steps, Failures, Place, OnRamp
  <2> QED
    BY <2>2 DEF Measured, Left, Fewer, LexProductOrdering, OpToRel
<1>2. CASE ~(SteadyNext /\ pc = "once")
  <2>1. phase \in {1, 2} /\ phase' \in Int
    BY DEF IInv, TypeOK, SteadyNext, Drive, Return, Again, Leave, NextPhase
  <2>2. \/ pc \in {"after", "result", "pdone"} /\ pc' = "done"
        \/ pc = "after" /\ pc' = "pseudo" /\ phase' = phase
        \/ pc = "pdone" /\ pc' = "pseudo" /\ phase = 1 /\ phase' = phase + 1
    BY <1>2 DEF SteadyNext, Once, Store, NotConverged, ReturnSteady, Drive, Return, Again, Leave,
                PseudoBegin, NextPhase
  <2>3. /\ pc \in {"after", "result"} => Loops = 3
        /\ pc = "pdone" => Loops = 3 - phase
        /\ pc' = "done" => Loops' = 0
        /\ pc' = "pseudo" => Loops' = 3 - phase'
    BY DEF Loops, OnRamp
  <2>4. Loops' < Loops
    BY <2>1, <2>2, <2>3
  <2> QED
    BY <2>4 DEF Measured, Left, Fewer, LexProductOrdering, OpToRel
<1> QED
  BY <1>1, <1>2

(* The analysis is left after finitely many solves, whatever their results *)
(* and whatever the flags.                                                 *)
THEOREM RampDescent == Spec => [][pc # "done" => <<Left', Left>> \in Fewer(4)]_vars
<1>1. IInv /\ IInv' /\ [Next]_vars => [pc # "done" => <<Left', Left>> \in Fewer(4)]_vars
  <2>1. IInv => Measured
    BY IsMeasured
  <2>2. IInv' => Measured'
    BY <2>1, PTL
  <2> QED
    BY <2>1, <2>2, RampDescends, PseudoDescends, SteadyDescends DEF Next, Done
<1> QED
  BY <1>1, AlwaysIInv, PTL DEF Spec

(***************************************************************************)
(* The refinement of Continuation by the ramp when nothing follows it.     *)
(***************************************************************************)
LEMMA StepPromise ==
    ASSUME IInv, [Next]_vars, mode.op, ~(PseudoTimeMethod /\ OpToSteady)
    PROVE  [CN!Next]_(CN!vars)
<1> USE FullType, RampAssumption, PriorAssumption
<1>1. pc \in {"ramp", "check", "while", "after", "done"}
  BY DEF IInv, TypeOK, LoopInv, EndInv
<1>2. CASE Accept
  <2>1. pc = "check" /\ pc' = "while" /\ node' = step
    BY <1>2 DEF Accept, PostSolve
  <2>2. step \in 1 .. Full /\ dstep \in 1 .. Unit
    BY <2>1 DEF IInv, TypeOK, RampInv, OnRamp
  <2>3. CASE started
    <3>1. node \in Int /\ step = dstep + node
      BY <2>1, <2>3 DEF IInv, RampInv, OnRamp
    <3>2. step \in (node + 1) .. (node + Unit) /\ step <= Full
      BY <2>2, <3>1
    <3> QED
      BY <2>1, <3>1, <3>2 DEF CN!Next, CN!Advance, CN!vars
  <2>4. CASE ~started
    <3>1. node = Prior /\ step = dstep
      BY <2>1, <2>2, <2>4 DEF IInv, RampInv, OnRamp
    <3> QED
      BY <2>1, <2>2, <3>1 DEF CN!Next, CN!Begin, CN!vars
  <2> QED
    BY <2>3, <2>4
<1>3. CASE Return
  <2>1. pc = "after" /\ pc' = "done" /\ ierr' = ierr /\ node' = node
    BY <1>3 DEF Return, vectorVars
  <2>2. ierr = 1 \/ (ierr = 0 /\ node = Full)
    BY <2>1 DEF IInv, TypeOK, EndInv, OnRamp
  <2> QED
    BY <2>1, <2>2 DEF CN!Next, CN!Complete, CN!Fail, CN!vars
<1>4. CASE Solve \/ Retry \/ GiveUp \/ While
  BY <1>4 DEF Solve, SnesSolve, Retry, GiveUp, While, vectorVars, CN!vars
<1>5. CASE Done \/ UNCHANGED vars
  BY <1>5 DEF Done, vars, vectorVars, CN!vars
<1>6. ~(SteadyNext \/ Drive \/ PseudoStep \/ Again \/ Leave)
  BY <1>1 DEF SteadyNext, Once, Store, NotConverged, ReturnSteady, Drive, PseudoStep,
              PseudoSolve, PseudoOut, PseudoRetry, PseudoGiveUp, PseudoAccept, Again, Leave
<1> QED
  BY <1>2, <1>3, <1>4, <1>5, <1>6 DEF Next, RampNext

(* The ramp stores solutions each further along than the one before, by no *)
(* more than the limits allow, and reports success at the full sources.    *)
THEOREM KeepsPromise == Spec => Promise
<1>1. IInv /\ [Next]_vars =>
         [mode.op /\ ~(PseudoTimeMethod /\ OpToSteady) => [CN!Next]_(CN!vars)]_vars
  BY StepPromise
<1> QED
  BY <1>1, AlwaysIInv, PTL DEF Spec, Promise
==============================================================================
