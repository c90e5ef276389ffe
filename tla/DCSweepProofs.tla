---------------------------- MODULE DCSweepProofs ----------------------------
(***************************************************************************)
(* Proofs about DCSweep and MixSweep, for every start, stop, step, longest *)
(* step, stack bound and resolution.                                       *)
(***************************************************************************)
EXTENDS MixSweep, Descent, SequenceTheorems, TLAPS

(***************************************************************************)
(* Facts about the operators the loop is built from.                       *)
(***************************************************************************)

(* A growing step never shrinks and never passes the longest step.         *)
LEMMA GrownBounds ==
    ASSUME NEW s \in Nat \ {0}, s <= LongestStep
    PROVE  /\ Grown(s) \in Nat \ {0}
           /\ s <= Grown(s)
           /\ Grown(s) <= LongestStep
  BY SweepAssumption DEF Grown, LongestStep

(* Clipping a step of length s, when the step has grown to t since, goes    *)
(* forward by at most s, and past the stop only from the stop itself.      *)
LEMMA ClippedBounds ==
    ASSUME NEW v \in Int, NEW s \in Nat \ {0}, NEW t \in Nat \ {0},
           s <= t, v <= VStop
    PROVE  /\ Clipped(v + s, t) \in Int
           /\ v <= Clipped(v + s, t)
           /\ Clipped(v + s, t) <= v + s
           /\ Clipped(v + s, t) > VStop => v = VStop
  BY SweepAssumption DEF Clipped

(* The point half way lies between the last good bias and the failed one.  *)
LEMMA HalfwayBetween ==
    ASSUME Vs1 \in Int, NEW v \in Int, Vs1 <= v
    PROVE  /\ Halfway(v) \in Int
           /\ Vs1 <= Halfway(v)
           /\ Halfway(v) <= v
  BY DEF Halfway

(* Putting a failed bias on the stack.                                     *)
LEMMA Pushed ==
    ASSUME NEW s \in Seq(Int), NEW v \in Int, NEW t, t = <<v>> \o s
    PROVE  /\ t \in Seq(Int)
           /\ Len(t) = Len(s) + 1
           /\ t # << >>
           /\ t[1] = v
           /\ \A i \in 2 .. Len(t) : t[i] = s[i - 1]
<1>1. <<v>> \in Seq(Int) /\ Len(<<v>>) = 1 /\ <<v>>[1] = v
  OBVIOUS
<1>2. /\ t \in Seq(Int)
      /\ Len(t) = 1 + Len(s)
      /\ \A i \in 1 .. 1 + Len(s) : t[i] = IF i <= 1 THEN <<v>>[i] ELSE s[i - 1]
  BY <1>1, ConcatProperties, Zenon
<1>3. Len(s) \in Nat
  OBVIOUS
<1>4. t # << >>
  BY <1>2, <1>3
<1> QED
  BY <1>1, <1>2, <1>3, <1>4

(***************************************************************************)
(* The inductive invariant: the invariants the runs check, and what they   *)
(* rest on.                                                                *)
(***************************************************************************)
LoopInv ==
    /\ DC_Cycles = 0 => V_retry = << >> /\ Vscan = VStart
    /\ pc = "check" => InRange(Vscan)
    /\ VStep <= step /\ step <= LongestStep
    /\ DC_Cycles > 0 =>
          /\ Vscan <= Vs1 + LongestStep
          /\ \A i \in 1 .. Len(V_retry) : V_retry[i] <= Vs1 + LongestStep
          /\ Vscan > VStop => Vs1 = VStop

IInv == TypeOK /\ RetryOrdered /\ StoredIsLast /\ LoopInv

(* A Newton solve keeps the types of the vector and of the circuits.       *)
LEMMA SnesType ==
    ASSUME VectorType, NEW x0, NEW b, SnesSolve(x0, b)
    PROVE  VectorType'
  BY DEF VectorType, SnesSolve, Converges, Fails

LEMMA InitIInv == Init => IInv
<1> SUFFICES ASSUME Init PROVE IInv
  OBVIOUS
<1> USE SweepAssumption, PriorAssumption DEF Init
<1>1. TypeOK
  BY DEF TypeOK, VectorInit, VectorType, CycleCap
<1>2. RetryOrdered /\ StoredIsLast
  BY DEF RetryOrdered, StoredIsLast, VectorInit
<1>3. LoopInv
  BY DEF LoopInv, LongestStep, InRange
<1> QED
  BY <1>1, <1>2, <1>3 DEF IInv

(* The loop in a circuit is no longer than that of an electrode.           *)
LEMMA MixInside ==
    ASSUME IInv, MixInRange(Vscan)
    PROVE  InRange(Vscan)
  BY SweepAssumption DEF IInv, TypeOK, MixInRange, InRange

LEMMA SolveIInv == IInv /\ (Solve \/ MixSolve) => IInv'
<1> SUFFICES ASSUME IInv, Solve \/ MixSolve PROVE IInv'
  OBVIOUS
<1>1. /\ node' = node /\ pc' = "check" /\ InRange(Vscan)
      /\ UNCHANGED <<Vscan, step, Vs1, Vs2, Vs3, V_retry, DC_Cycles, ierr>>
  BY MixInside DEF Solve, MixSolve, SnesSolve
<1>2. TypeOK'
  <2>1. VectorType'
    BY SnesType DEF IInv, TypeOK, Solve, MixSolve
  <2> QED
    BY <1>1, <2>1 DEF IInv, TypeOK
<1>3. RetryOrdered' /\ StoredIsLast'
  BY <1>1 DEF IInv, RetryOrdered, StoredIsLast
<1>4. LoopInv'
  BY <1>1 DEF IInv, LoopInv, InRange
<1> QED
  BY <1>2, <1>3, <1>4 DEF IInv

LEMMA AcceptIInv == IInv /\ Accept => IInv'
<1> SUFFICES ASSUME IInv, Accept PROVE IInv'
  OBVIOUS
<1> USE SweepAssumption
<1>1. /\ pc' = "head" /\ node' = Vscan /\ Vs1' = Vscan /\ Vs2' = Vs1 /\ Vs3' = Vs2
      /\ DC_Cycles' \in 1 .. CycleCap
  BY DEF Accept, PostSolve, IInv, TypeOK, CycleCap
<1>2. /\ Vscan \in Int /\ step \in Nat \ {0} /\ V_retry \in Seq(Int)
      /\ Len(V_retry) <= MaxRetry /\ Vscan <= VStop
      /\ VStep <= step /\ step <= LongestStep
  BY DEF IInv, TypeOK, LoopInv, Accept, InRange
<1>3. step' \in Nat \ {0} /\ step <= step' /\ step' <= LongestStep /\ LongestStep \in Nat
  BY <1>2, GrownBounds DEF Accept, LongestStep
<1>4. CASE V_retry = << >>
  <2>1. V_retry' = << >> /\ Vscan' = Clipped(Vscan + step, step')
    BY <1>4 DEF Accept, NextBias
  <2>2. /\ Vscan' \in Int /\ Vscan <= Vscan' /\ Vscan' <= Vscan + LongestStep
        /\ Vscan' > VStop => Vscan = VStop
    <3>1. /\ Clipped(Vscan + step, step') \in Int
          /\ Vscan <= Clipped(Vscan + step, step')
          /\ Clipped(Vscan + step, step') <= Vscan + step
          /\ Clipped(Vscan + step, step') > VStop => Vscan = VStop
      BY <1>2, <1>3, ClippedBounds
    <3> QED
      BY <2>1, <1>2, <1>3, <3>1
  <2>3. TypeOK'
    BY <1>1, <1>2, <1>3, <2>1, <2>2
    DEF IInv, TypeOK, VectorType, Accept, PostSolve, Projected, Extrapolated
  <2>4. RetryOrdered' /\ StoredIsLast'
    BY <1>1, <1>2, <2>1, <2>2 DEF RetryOrdered, StoredIsLast
  <2>5. LoopInv'
    BY <1>1, <1>2, <1>3, <2>1, <2>2 DEF LoopInv
  <2> QED
    BY <2>3, <2>4, <2>5 DEF IInv
<1>5. CASE V_retry # << >>
  <2>0. DC_Cycles > 0
    BY <1>5 DEF IInv, LoopInv, TypeOK
  <2>1. /\ Len(V_retry) \in Nat \ {0}
        /\ V_retry' = Tail(V_retry)
        /\ V_retry' \in Seq(Int)
        /\ Len(V_retry') = Len(V_retry) - 1
        /\ \A i \in 1 .. Len(V_retry') : V_retry'[i] = V_retry[i + 1]
    BY <1>2, <1>5, HeadTailProperties, EmptySeq DEF Accept
  <2>2. /\ Vscan <= V_retry[1]
        /\ \A i \in 1 .. Len(V_retry) :
              /\ V_retry[i] \in Int
              /\ V_retry[i] <= VStop
              /\ V_retry[i] <= Vs1 + LongestStep
              /\ \A j \in i .. Len(V_retry) : V_retry[i] <= V_retry[j]
        /\ Vs1 \in Int /\ Vs1 <= Vscan
    BY <1>2, <1>5, <2>0 DEF IInv, TypeOK, RetryOrdered, LoopInv
  <2>3. Vscan' = V_retry[1]
    <3>1. NextBias = V_retry[1]
      BY <1>2, <1>5 DEF NextBias
    <3>2. V_retry[1] \in Int /\ V_retry[1] <= VStop
      BY <2>1, <2>2
    <3> QED
      BY <3>1, <3>2 DEF Accept, Clipped
  <2>4. Vscan' \in Int /\ Vscan' <= VStop /\ Vscan' <= Vscan + LongestStep
    BY <1>2, <1>3, <2>1, <2>2, <2>3
  <2>5. TypeOK'
    BY <1>1, <1>2, <1>3, <2>1, <2>4
    DEF IInv, TypeOK, VectorType, Accept, PostSolve, Projected, Extrapolated
  <2>6. RetryOrdered'
    <3>1. V_retry' # << >> => Vscan' <= V_retry'[1]
      BY <2>1, <2>2, <2>3
    <3>2. \A i \in 1 .. Len(V_retry') :
              /\ V_retry'[i] <= VStop
              /\ \A j \in i .. Len(V_retry') : V_retry'[i] <= V_retry'[j]
      <4> TAKE i \in 1 .. Len(V_retry')
      <4>1. V_retry'[i] = V_retry[i + 1] /\ i + 1 \in 1 .. Len(V_retry)
        BY <2>1
      <4>2. ASSUME NEW j \in i .. Len(V_retry')
            PROVE  V_retry'[i] <= V_retry'[j]
        <5>1. V_retry'[j] = V_retry[j + 1] /\ j + 1 \in (i + 1) .. Len(V_retry)
          BY <2>1
        <5> QED
          BY <4>1, <5>1, <2>2
      <4> QED
        BY <4>1, <4>2, <2>2
    <3> QED
      BY <1>1, <2>2, <2>3, <3>1, <3>2 DEF RetryOrdered
  <2>7. StoredIsLast'
    BY <1>1, <1>2 DEF StoredIsLast
  <2>8. LoopInv'
    <3>1. \A i \in 1 .. Len(V_retry') : V_retry'[i] <= Vs1' + LongestStep
      BY <1>1, <1>2, <1>3, <2>1, <2>2
    <3> QED
      BY <1>1, <1>2, <1>3, <2>4, <3>1 DEF LoopInv
  <2> QED
    BY <2>5, <2>6, <2>7, <2>8 DEF IInv
<1> QED
  BY <1>4, <1>5

LEMMA RetryIInv == IInv /\ (Retry \/ MixRetry) => IInv'
<1> SUFFICES ASSUME IInv, Retry \/ MixRetry PROVE IInv'
  OBVIOUS
<1> USE SweepAssumption
<1>1. /\ pc' = "head" /\ DC_Cycles > 0 /\ Len(V_retry) < MaxRetry
      /\ V_retry' = <<Vscan>> \o V_retry /\ Vscan' = Halfway(Vscan)
      /\ UNCHANGED <<node, ls, reason, step, Vs1, Vs2, Vs3, DC_Cycles, ierr>>
      /\ pc = "check" /\ ve' \in {ve, "node"}
      /\ x' \in {Projected(Filled, DC_Cycles, Vs1, Vs2, Vs3),
                 Projected("mixed", DC_Cycles, Vs1, Vs2, Vs3)}
  BY DEF Retry, MixRetry, Recovered, CanRetry, DivergedRecovery
<1>2. /\ Vscan \in Int /\ Vs1 \in Int /\ V_retry \in Seq(Int)
      /\ Vscan <= VStop /\ Vs1 <= Vscan /\ Len(V_retry) \in Nat
  BY <1>1 DEF IInv, TypeOK, LoopInv, RetryOrdered, InRange
<1>3. Vscan' \in Int /\ Vs1 <= Vscan' /\ Vscan' <= Vscan
  BY <1>1, <1>2, HalfwayBetween
<1>4. /\ V_retry' \in Seq(Int)
      /\ Len(V_retry') = Len(V_retry) + 1
      /\ V_retry' # << >>
      /\ V_retry'[1] = Vscan
      /\ \A i \in 2 .. Len(V_retry') : V_retry'[i] = V_retry[i - 1]
  BY <1>1, <1>2, Pushed
<1>5. /\ \A i \in 1 .. Len(V_retry) :
            /\ V_retry[i] \in Int
            /\ Vscan <= V_retry[i]
            /\ V_retry[i] <= VStop
            /\ V_retry[i] <= Vs1 + LongestStep
            /\ \A j \in i .. Len(V_retry) : V_retry[i] <= V_retry[j]
      /\ Vscan <= Vs1 + LongestStep
  <2>1. ASSUME NEW i \in 1 .. Len(V_retry)
        PROVE  V_retry[i] \in Int /\ V_retry[1] \in Int
               /\ Vscan <= V_retry[1] /\ V_retry[1] <= V_retry[i]
    BY <1>1, <1>2 DEF IInv, RetryOrdered
  <2>2. ASSUME NEW i \in 1 .. Len(V_retry) PROVE Vscan <= V_retry[i]
    BY <1>2, <2>1
  <2> QED
    BY <1>1, <1>2, <2>1, <2>2 DEF IInv, RetryOrdered, LoopInv
<1>6. TypeOK'
  BY <1>1, <1>2, <1>3, <1>4
  DEF IInv, TypeOK, VectorType, Projected, Extrapolated, Filled
<1>7. RetryOrdered'
  <2>1. ASSUME NEW i \in 1 .. Len(V_retry')
        PROVE  /\ V_retry'[i] <= VStop
               /\ \A j \in i .. Len(V_retry') : V_retry'[i] <= V_retry'[j]
    <3>1. V_retry'[i] <= VStop
      <4>1. CASE i = 1
        BY <1>2, <1>4, <4>1
      <4>2. CASE i # 1
        <5>1. i - 1 \in 1 .. Len(V_retry) /\ V_retry'[i] = V_retry[i - 1]
          BY <1>2, <1>4, <4>2
        <5> QED
          BY <1>5, <5>1
      <4> QED
        BY <4>1, <4>2
    <3>2. ASSUME NEW j \in i .. Len(V_retry') PROVE V_retry'[i] <= V_retry'[j]
      <4>1. CASE i = 1
        BY <1>2, <1>4, <1>5, <4>1
      <4>2. CASE i # 1
        <5>1. /\ i - 1 \in 1 .. Len(V_retry) /\ j - 1 \in (i - 1) .. Len(V_retry)
              /\ V_retry'[i] = V_retry[i - 1] /\ V_retry'[j] = V_retry[j - 1]
          BY <1>2, <1>4, <4>2
        <5> QED
          BY <1>5, <5>1
      <4> QED
        BY <4>1, <4>2
    <3> QED
      BY <3>1, <3>2
  <2> QED
    BY <1>1, <1>3, <1>4, <2>1 DEF RetryOrdered
<1>8. StoredIsLast'
  BY <1>1 DEF IInv, StoredIsLast
<1>9. LoopInv'
  <2>1. \A i \in 1 .. Len(V_retry') : V_retry'[i] <= Vs1' + LongestStep
    BY <1>1, <1>2, <1>4, <1>5
  <2>2. LongestStep \in Nat
    BY DEF LongestStep
  <2> QED
    BY <1>1, <1>2, <1>3, <1>5, <2>1, <2>2 DEF IInv, LoopInv, TypeOK
<1> QED
  BY <1>6, <1>7, <1>8, <1>9 DEF IInv

(* Leaving the loop and standing still change nothing the invariant reads. *)
LEMMA LeaveIInv == IInv /\ (Exit \/ GiveUp \/ UNCHANGED vars) => IInv'
<1> SUFFICES ASSUME IInv, Exit \/ GiveUp \/ UNCHANGED vars PROVE IInv'
  OBVIOUS
<1>1. /\ UNCHANGED <<vectorVars, Vscan, step, Vs1, Vs2, Vs3, V_retry, DC_Cycles>>
      /\ pc' \in {"done", pc}
      /\ ierr' \in {ierr, 1}
  BY DEF Exit, GiveUp, vars, sweepVars
<1>2. TypeOK'
  BY <1>1 DEF IInv, TypeOK, VectorType, vectorVars
<1>3. RetryOrdered' /\ StoredIsLast' /\ LoopInv'
  BY <1>1 DEF IInv, RetryOrdered, StoredIsLast, LoopInv, vectorVars, InRange
<1> QED
  BY <1>2, <1>3 DEF IInv

LEMMA StepIInv == IInv /\ [Next]_vars => IInv'
  BY SolveIInv, AcceptIInv, RetryIInv, LeaveIInv DEF Next, Done

LEMMA AlwaysIInv == Spec => []IInv
  BY InitIInv, StepIInv, PTL DEF Spec

(* Every variable keeps its type; at most MaxRetry failed biases wait.     *)
THEOREM TypeCorrect == Spec => []TypeOK
<1>1. IInv => TypeOK
  BY DEF IInv
<1> QED
  BY <1>1, AlwaysIInv, PTL

(* The failed biases of solve_dcsweep always wait in the order of the scan.*)
THEOREM RetryOrder == Spec => []RetryOrdered
<1>1. IInv => RetryOrdered
  BY DEF IInv
<1> QED
  BY <1>1, AlwaysIInv, PTL

(* Recovery always goes back to the last converged bias.                   *)
THEOREM StoredLast == Spec => []StoredIsLast
<1>1. IInv => StoredIsLast
  BY DEF IInv
<1> QED
  BY <1>1, AlwaysIInv, PTL

(***************************************************************************)
(* Success means that the stop bias is solved, when it does not lie on the *)
(* far side of zero.                                                       *)
(***************************************************************************)
LeftInv ==
    /\ pc # "done" => ierr = 0
    /\ pc = "done" /\ ierr = 0 => ~InRange(Vscan)

LEMMA StepLeftInv == LeftInv /\ [Next]_vars => LeftInv'
<1> SUFFICES ASSUME LeftInv, [Next]_vars PROVE LeftInv'
  OBVIOUS
<1>1. CASE Solve \/ Accept \/ Retry
  BY <1>1 DEF LeftInv, Solve, Accept, Retry
<1>2. CASE Exit
  BY <1>2 DEF LeftInv, Exit, InRange
<1>3. CASE GiveUp
  BY <1>3 DEF LeftInv, GiveUp
<1>4. CASE Done \/ UNCHANGED vars
  BY <1>4 DEF LeftInv, Done, vars, sweepVars, InRange
<1> QED
  BY <1>1, <1>2, <1>3, <1>4 DEF Next

LEMMA LeftIsStop ==
    ASSUME VStop >= 0, IInv, LeftInv
    PROVE  StopSolved
<1> SUFFICES ASSUME pc = "done", ierr = 0, VStart <= VStop
             PROVE  node = VStop
  BY DEF StopSolved
<1>1. Vscan \in Int /\ DC_Cycles \in 0 .. CycleCap /\ Vscan > VStop
  BY SweepAssumption DEF IInv, TypeOK, LeftInv, InRange
<1>2. DC_Cycles > 0
  BY <1>1, SweepAssumption DEF IInv, LoopInv, CycleCap
<1> QED
  BY <1>1, <1>2 DEF IInv, LoopInv, StoredIsLast

(* solve_dcsweep returns 0 only with the solution at VStop on the nodes.   *)
THEOREM StopIsSolved ==
    ASSUME VStop >= 0
    PROVE  Spec => []StopSolved
<1>1. Init => LeftInv
  BY DEF Init, LeftInv
<1>2. IInv /\ LeftInv => StopSolved
  BY LeftIsStop
<1> QED
  BY <1>1, <1>2, StepLeftInv, AlwaysIInv, PTL DEF Spec

(***************************************************************************)
(* Every step of the loop is a step of the chain of solutions that         *)
(* Continuation promises, or changes nothing of it.                           *)
(***************************************************************************)
LEMMA StepPromise ==
    ASSUME VStop >= 0, IInv, IInv', LeftInv, LeftInv', [Next]_vars
    PROVE  [CN!Next]_(CN!vars)
<1> USE SweepAssumption, PriorAssumption DEF CN!vars
<1>1. CASE Solve \/ Retry
  <2>1. node' = node /\ pc # "done" /\ pc' # "done"
    BY <1>1 DEF Solve, Retry, SnesSolve
  <2> QED
    BY <2>1
<1>2. CASE Accept
  <2>1. node' = Vscan /\ Vscan \in Int /\ Vscan <= VStop /\ pc # "done" /\ pc' # "done"
    BY <1>2 DEF Accept, PostSolve, IInv, TypeOK, LoopInv, InRange
  <2>2. CASE DC_Cycles = 0
    <3>1. node = Prior /\ Vscan = VStart
      BY <2>2 DEF IInv, StoredIsLast, LoopInv
    <3>2. CN!Begin
      BY <2>1, <3>1 DEF CN!Begin
    <3> QED
      BY <3>2 DEF CN!Next
  <2>3. CASE DC_Cycles # 0
    <3>1. DC_Cycles > 0
      BY <2>3 DEF IInv, TypeOK, CycleCap
    <3>2. /\ node = Vs1 /\ Vs1 \in Int /\ node # Prior
          /\ Vs1 <= Vscan /\ Vscan <= Vs1 + LongestStep
      BY <3>1 DEF IInv, TypeOK, StoredIsLast, RetryOrdered, LoopInv
    <3>3. CASE Vscan = Vs1
      BY <2>1, <3>2, <3>3
    <3>4. CASE Vscan # Vs1
      <4>1. LongestStep \in Int
        BY DEF LongestStep
      <4>2. Vscan \in (node + 1) .. (node + LongestStep)
        BY <2>1, <3>2, <3>4, <4>1
      <4>3. CN!Advance
        BY <2>1, <3>2, <4>2 DEF CN!Advance
      <4> QED
        BY <4>3 DEF CN!Next
    <3> QED
      BY <3>3, <3>4
  <2> QED
    BY <2>2, <2>3
<1>3. CASE Exit
  <2>1. pc = "head" /\ pc' = "done" /\ node' = node /\ ierr' = 0 /\ Vscan > VStop
    BY <1>3 DEF Exit, LeftInv, IInv, TypeOK, InRange, vectorVars
  <2>2. node = VStop \/ (node = Prior /\ VStart > VStop)
    <3>1. CASE DC_Cycles = 0
      BY <2>1, <3>1 DEF IInv, LoopInv, StoredIsLast
    <3>2. CASE DC_Cycles # 0
      BY <2>1, <3>2 DEF IInv, TypeOK, LoopInv, StoredIsLast, CycleCap
    <3> QED
      BY <3>1, <3>2
  <2>3. CN!Complete
    BY <2>1, <2>2 DEF CN!Complete
  <2> QED
    BY <2>3 DEF CN!Next
<1>4. CASE GiveUp
  <2>1. pc = "check" /\ pc' = "done" /\ node' = node /\ ierr' = 1
    BY <1>4 DEF GiveUp, vectorVars
  <2>2. CN!Fail
    BY <2>1 DEF CN!Fail
  <2> QED
    BY <2>2 DEF CN!Next
<1>5. CASE Done \/ UNCHANGED vars
  BY <1>5 DEF Done, vars, vectorVars, sweepVars
<1> QED
  BY <1>1, <1>2, <1>3, <1>4, <1>5 DEF Next

(* solve_dcsweep stores a chain of solutions from the start to the stop.   *)
THEOREM KeepsPromise ==
    ASSUME VStop >= 0
    PROVE  Spec => Promise
<1>1. Init => CN!Init
  BY DEF Init, VectorInit, CN!Init
<1>2. Init => LeftInv
  BY DEF Init, LeftInv
<1>3. IInv /\ IInv' /\ LeftInv /\ LeftInv' /\ [Next]_vars => [CN!Next]_(CN!vars)
  BY StepPromise
<1> QED
  BY <1>1, <1>2, <1>3, StepLeftInv, AlwaysIInv, PTL DEF Spec, Promise, CN!Spec

(***************************************************************************)
(* As long as the stop has not been solved, and when a small enough step   *)
(* converges, the biases to solve are pairwise different.                  *)
(***************************************************************************)
Apart ==
    /\ Vs1 < Vscan
    /\ V_retry # << >> => Vscan < V_retry[1]
    /\ \A i \in 1 .. Len(V_retry) :
          \A j \in (i + 1) .. Len(V_retry) : V_retry[i] < V_retry[j]

(* The projection from pairwise different biases.                          *)
LEMMA ProjectedFinite ==
    ASSUME NEW c \in 0 .. CycleCap, NEW a \in Int, NEW b \in Int, NEW d \in Int,
           NEW x0 \in {"node", "mixed"},
           c >= 2 => b < a, c >= 3 => d < b
    PROVE  /\ Projected(x0, c, a, b, d) \in StartVector
           /\ x0 = "mixed" => Projected(x0, c, a, b, d) = "mixed"
  BY DEF Projected, ZeroDivisor, CycleCap, Extrapolated, StartVector

(* Taking the next bias from the stack keeps them pairwise different.      *)
LEMMA PopApart ==
    ASSUME IInv, Apart, Accept, V_retry # << >>
    PROVE  Apart'
<1> USE SweepAssumption
<1>0. /\ pc' = "head" /\ Vs1' = Vscan /\ Vscan \in Int /\ V_retry \in Seq(Int)
      /\ DC_Cycles > 0
  BY DEF Accept, IInv, TypeOK, LoopInv, CycleCap
<1>1. /\ Len(V_retry) \in Nat \ {0}
      /\ V_retry' = Tail(V_retry)
      /\ Len(V_retry') = Len(V_retry) - 1
      /\ V_retry' # << >> => 1 \in 1 .. Len(V_retry')
      /\ \A i \in 1 .. Len(V_retry') : V_retry'[i] = V_retry[i + 1]
  <2>1. Tail(V_retry) \in Seq(Int) /\ V_retry' = Tail(V_retry)
    BY <1>0, HeadTailProperties DEF Accept
  <2> QED
    BY <1>0, <2>1, HeadTailProperties, EmptySeq
<1>2. /\ Vscan < V_retry[1]
      /\ \A i \in 1 .. Len(V_retry) :
            /\ V_retry[i] \in Int
            /\ V_retry[i] <= VStop
            /\ \A j \in (i + 1) .. Len(V_retry) : V_retry[i] < V_retry[j]
  BY <1>0 DEF IInv, RetryOrdered, Apart
<1>3. Vscan' = V_retry[1]
  <2>1. NextBias = V_retry[1]
    BY <1>0 DEF NextBias
  <2>2. V_retry[1] \in Int /\ V_retry[1] <= VStop
    BY <1>1, <1>2
  <2> QED
    BY <2>1, <2>2 DEF Accept, Clipped
<1>4. V_retry' # << >> => Vscan' < V_retry'[1]
  <2> SUFFICES ASSUME V_retry' # << >> PROVE Vscan' < V_retry'[1]
    OBVIOUS
  <2>1. V_retry'[1] = V_retry[2] /\ 1 \in 1 .. Len(V_retry) /\ 2 \in 2 .. Len(V_retry)
    BY <1>1
  <2> QED
    BY <1>2, <1>3, <2>1
<1>5. ASSUME NEW i \in 1 .. Len(V_retry'), NEW j \in (i + 1) .. Len(V_retry')
      PROVE  V_retry'[i] < V_retry'[j]
  <2>1. /\ V_retry'[i] = V_retry[i + 1] /\ V_retry'[j] = V_retry[j + 1]
        /\ i + 1 \in 1 .. Len(V_retry) /\ j + 1 \in ((i + 1) + 1) .. Len(V_retry)
    BY <1>1
  <2> QED
    BY <1>2, <2>1
<1> QED
  BY <1>0, <1>2, <1>3, <1>4, <1>5 DEF Apart

(* Halving keeps the biases pairwise different, with either recovery.      *)
LEMMA RetryApart ==
    ASSUME Resolution >= 1, IInv, Apart, Retry \/ MixRetry,
           Vscan > Vs1 + Resolution
    PROVE  Apart'
<1> USE SweepAssumption
<1>1. /\ pc' = "head" /\ DC_Cycles > 0
      /\ V_retry' = <<Vscan>> \o V_retry /\ Vscan' = Halfway(Vscan)
      /\ UNCHANGED <<step, Vs1, Vs2, Vs3, DC_Cycles>>
      /\ Vscan \in Int /\ Vs1 \in Int
      /\ V_retry \in Seq(Int) /\ Len(V_retry) \in Nat
  BY DEF Retry, MixRetry, CanRetry, IInv, TypeOK
<1>2. Vs1 < Vscan' /\ Vscan' < Vscan
  BY <1>1 DEF Halfway
<1>3. /\ Len(V_retry') = Len(V_retry) + 1
      /\ V_retry'[1] = Vscan
      /\ \A i \in 2 .. Len(V_retry') : V_retry'[i] = V_retry[i - 1]
  BY <1>1, Pushed
<1>4. \A i \in 1 .. Len(V_retry) :
          /\ V_retry[i] \in Int
          /\ Vscan < V_retry[i]
          /\ \A j \in (i + 1) .. Len(V_retry) : V_retry[i] < V_retry[j]
  <2> TAKE i \in 1 .. Len(V_retry)
  <2>1. /\ V_retry[i] \in Int /\ V_retry[1] \in Int
        /\ Vscan < V_retry[1] /\ V_retry[1] <= V_retry[i]
    BY <1>1 DEF IInv, RetryOrdered, Apart
  <2> QED
    BY <1>1, <2>1 DEF Apart
<1>5. ASSUME NEW i \in 1 .. Len(V_retry'), NEW j \in (i + 1) .. Len(V_retry')
      PROVE  V_retry'[i] < V_retry'[j]
  <2>1. V_retry'[j] = V_retry[j - 1] /\ j - 1 \in 1 .. Len(V_retry)
    BY <1>1, <1>3
  <2>2. CASE i = 1
    BY <1>3, <1>4, <2>1, <2>2
  <2>3. CASE i # 1
    <3>1. /\ V_retry'[i] = V_retry[i - 1] /\ i - 1 \in 1 .. Len(V_retry)
          /\ j - 1 \in ((i - 1) + 1) .. Len(V_retry)
      BY <1>1, <1>3, <2>3
    <3> QED
      BY <1>4, <2>1, <3>1
  <2> QED
    BY <2>2, <2>3
<1> QED
  BY <1>1, <1>2, <1>3, <1>5 DEF Apart

(***************************************************************************)
(* The sweep of a source in a circuit beside that of an electrode: the     *)
(* start vector and the recovery are its own, and the loop may be left at  *)
(* a stop of zero. The runs check SweepsSpec.                              *)
(***************************************************************************)
LEMMA MixLeaves ==
    ASSUME VStop > 0
    PROVE  MixExit => Exit
  BY SweepAssumption DEF MixExit, Exit, MixInRange, InRange

LEMMA MixIInv == IInv /\ MixNext => IInv'
<1>1. IInv /\ MixExit => IInv'
  <2> SUFFICES ASSUME IInv, MixExit PROVE IInv'
    OBVIOUS
  <2>1. /\ UNCHANGED <<vectorVars, Vscan, step, Vs1, Vs2, Vs3, V_retry, DC_Cycles, ierr>>
        /\ pc' = "done"
    BY DEF MixExit
  <2> QED
    BY <2>1 DEF IInv, TypeOK, VectorType, vectorVars, RetryOrdered, StoredIsLast, LoopInv
<1> QED
  BY <1>1, SolveIInv, AcceptIInv, RetryIInv, LeaveIInv DEF MixNext, Done

LEMMA SweepsSteps ==
    ASSUME [SweepsNext]_sweepsVars
    PROVE  [Next]_vars \/ MixNext
  BY DEF SweepsNext, Device, Circuit, sweepsVars

LEMMA SweepsIInv == SweepsSpec => []IInv
<1>1. SweepsInit => IInv
  BY InitIInv DEF SweepsInit
<1>2. IInv /\ [SweepsNext]_sweepsVars => IInv'
  BY SweepsSteps, StepIInv, MixIInv
<1> QED
  BY <1>1, <1>2, PTL DEF SweepsSpec

(* In a circuit too the failed biases wait in order, no more than MaxRetry *)
(* of them, and recovery goes back to the last converged bias.             *)
THEOREM SweepsOrdered == SweepsSpec => [](TypeOK /\ RetryOrdered /\ StoredIsLast)
<1>1. IInv => TypeOK /\ RetryOrdered /\ StoredIsLast
  BY DEF IInv
<1> QED
  BY <1>1, SweepsIInv, PTL

(* For a stop above zero both loops are left with the stop solved, or with *)
(* an error. (A stop at zero is never solved in a circuit.)                *)
LEMMA SweepsLeft ==
    ASSUME VStop > 0
    PROVE  SweepsSpec => []LeftInv
<1>1. SweepsInit => LeftInv
  BY DEF SweepsInit, Init, LeftInv
<1>2. IInv /\ LeftInv /\ MixNext => LeftInv'
  <2>1. LeftInv /\ (MixSolve \/ MixRetry) => LeftInv'
    BY DEF LeftInv, MixSolve, MixRetry
  <2> QED
    BY <2>1, MixLeaves, StepLeftInv DEF MixNext, Next
<1>3. IInv /\ LeftInv /\ [SweepsNext]_sweepsVars => LeftInv'
  BY <1>2, SweepsSteps, StepLeftInv
<1> QED
  BY <1>1, <1>3, SweepsIInv, PTL DEF SweepsSpec

(* A sweep of an electrode or in a circuit that was not given up holds the *)
(* solution at VStop.                                                      *)
THEOREM SweepsReachStop ==
    ASSUME VStop > 0
    PROVE  SweepsSpec => []StopSolved
<1>1. IInv /\ LeftInv => StopSolved
  BY SweepAssumption, LeftIsStop
<1> QED
  BY <1>1, SweepsLeft, SweepsIInv, PTL

(* Either sweep stores a chain of solutions from the start to the stop.    *)
THEOREM SweepsKeepPromise ==
    ASSUME VStop > 0
    PROVE  SweepsSpec => Promise
<1>1. SweepsInit => CN!Init
  BY DEF SweepsInit, Init, VectorInit, CN!Init
<1>2. ASSUME IInv, IInv', LeftInv, LeftInv', [SweepsNext]_sweepsVars
      PROVE  [CN!Next]_(CN!vars)
  <2>1. CASE [Next]_vars
    BY <1>2, <2>1, SweepAssumption, StepPromise
  <2>2. CASE MixSolve \/ MixRetry
    BY <2>2 DEF MixSolve, MixRetry, SnesSolve, CN!vars
  <2>3. CASE MixNext /\ ~(MixSolve \/ MixRetry)
    BY <1>2, <2>3, SweepAssumption, MixLeaves, StepPromise DEF MixNext, Next
  <2> QED
    BY <1>2, <2>1, <2>2, <2>3, SweepsSteps
<1> QED
  BY <1>1, <1>2, SweepsLeft, SweepsIInv, PTL DEF SweepsSpec, Promise, CN!Spec

(***************************************************************************)
(* However the steps grow: as long as the stop has not been solved, the    *)
(* biases are pairwise different and a solve fails in a long step only.    *)
(* Once it has, it may be solved again, but only while the step grows. Or  *)
(* nothing converges any more.                                             *)
(***************************************************************************)
Different == (DC_Cycles >= 2 => Vs2 < Vs1) /\ (DC_Cycles >= 3 => Vs3 < Vs2)

Sound ==
    /\ Apart /\ Different
    /\ pc = "head" => IsNumber(x)
    /\ pc = "check" /\ reason = "diverged" => Vscan > Vs1 + Resolution

AtStop ==
    /\ Vs1 = VStop /\ VStop <= Vscan /\ V_retry = << >>
    /\ pc = "head" => IsNumber(x)
    /\ pc = "check" => reason = "converged"

Divides == Predict /\ ZeroDivisor(DC_Cycles, Vs1, Vs2, Vs3)

Hopeless ==
    /\ pc = "head" => ~IsNumber(x)
    /\ pc = "check" => reason = "diverged"
    /\ Divides \/ (ve = "nan" /\ ~mixed)
    /\ Divides => Vs1 = VStop

Sorted == DC_Cycles > 0 => Sound \/ AtStop \/ Hopeless

(* What the last branch left to start from; in a circuit it has also       *)
(* brought the potentials back to the stored solution.                     *)
HeadInv ==
    pc = "head" /\ DC_Cycles > 0 =>
        /\ mixed => ve = "node"
        /\ x \in StartVector \/ (x = "nan" /\ Divides)

LEMMA StepHead ==
    ASSUME IInv, HeadInv, [SweepsNext]_sweepsVars
    PROVE  HeadInv'
<1>1. CASE Solve \/ MixSolve \/ Exit \/ MixExit \/ GiveUp
  BY <1>1 DEF HeadInv, Solve, MixSolve, Exit, MixExit, GiveUp
<1>2. CASE Accept
  <2>1. ve' = "node" /\ x' = Projected("node", DC_Cycles', Vs1', Vs2', Vs3')
    BY <1>2 DEF Accept, PostSolve
  <2>2. DC_Cycles' \in Int
    BY <1>2 DEF Accept, IInv, TypeOK, CycleCap
  <2> QED
    BY <2>1, <2>2 DEF HeadInv, Projected, Extrapolated, StartVector, Divides
<1>3. CASE (Retry /\ ~mixed /\ mixed' = mixed) \/ MixRetry
  <2>1. /\ mixed' => ve' = "node"
        /\ x' \in {Projected(Filled, DC_Cycles', Vs1', Vs2', Vs3'),
                   Projected("mixed", DC_Cycles', Vs1', Vs2', Vs3')}
    BY <1>3 DEF Retry, MixRetry, Recovered, DivergedRecovery
  <2>2. DC_Cycles' \in Int
    BY <1>3 DEF Retry, MixRetry, IInv, TypeOK, CycleCap
  <2> QED
    BY <2>1, <2>2 DEF HeadInv, Projected, Extrapolated, Filled, StartVector, Divides
<1>4. CASE UNCHANGED <<vars, mixed>>
  BY <1>4 DEF HeadInv, Divides, vars, vectorVars, sweepVars
<1> QED
  BY <1>1, <1>2, <1>3, <1>4
  DEF SweepsNext, Device, Circuit, Next, MixNext, Done, sweepsVars

LEMMA SolveSorted ==
    ASSUME IInv, HeadInv, Sorted, mixed' = mixed,
           (Solve /\ ~mixed) \/ (MixSolve /\ mixed)
    PROVE  Sorted'
<1> USE SweepAssumption
<1>1. /\ pc = "head" /\ pc' = "check" /\ InRange(Vscan)
      /\ UNCHANGED <<Vscan, step, Vs1, Vs2, Vs3, V_retry, DC_Cycles>>
  BY MixInside DEF Solve, MixSolve
<1> SUFFICES ASSUME DC_Cycles > 0 PROVE Sound' \/ AtStop' \/ Hopeless'
  BY <1>1 DEF Sorted
<1>2. Vscan \in Int /\ Vs1 \in Int /\ DC_Cycles # 0
  BY DEF IInv, TypeOK, CycleCap
<1>3. PICK x0 \in {x, WithCircuit(x)} :
         /\ SnesSolve(x0, DC_Cycles = 0 \/ Vscan > Vs1 + Resolution)
         /\ IsNumber(x0) <=> IsNumber(x)
  <2>1. CASE Solve
    BY <1>2, <2>1 DEF Solve, PreSolve
  <2>2. CASE MixSolve /\ mixed
    <3>1. ve = "node" /\ x \in StartVector \cup {"nan"}
      BY <1>1, <2>2 DEF HeadInv
    <3>2. IsNumber(WithCircuit(x)) <=> IsNumber(x)
      BY <3>1 DEF WithCircuit, Filled, IsNumber, StartVector
    <3> QED
      BY <1>2, <2>2, <3>2 DEF MixSolve, MixStart
  <2> QED
    BY <2>1, <2>2
<1>4. IF IsNumber(x)
      THEN reason' = "converged" \/ (Vscan > Vs1 + Resolution /\ reason' = "diverged")
      ELSE reason' = "diverged" /\ ve' = "nan"
  BY <1>2, <1>3 DEF SnesSolve, Converges, Fails
<1>5. CASE Sound
  BY <1>1, <1>4, <1>5 DEF Sound, Apart, Different
<1>6. CASE AtStop
  <2>1. ~(Vscan > Vs1 + Resolution)
    BY <1>1, <1>2, <1>6 DEF AtStop, InRange
  <2> QED
    BY <1>1, <1>4, <1>6, <2>1 DEF AtStop
<1>7. CASE Hopeless
  BY <1>1, <1>4, <1>7 DEF Hopeless, Divides
<1> QED
  BY <1>5, <1>6, <1>7 DEF Sorted

(* When the stop converges no failed bias is left.                         *)
LEMMA StopEmpties ==
    ASSUME IInv, Sorted, Accept, Vscan = VStop
    PROVE  V_retry = << >>
<1> SUFFICES ASSUME V_retry # << >> PROVE FALSE
  OBVIOUS
<1>1. DC_Cycles > 0 /\ V_retry \in Seq(Int)
  BY DEF IInv, TypeOK, LoopInv, CycleCap
<1>2. Sound
  BY <1>1 DEF Sorted, AtStop, Hopeless, Accept
<1>3. Len(V_retry) \in Nat \ {0}
  BY <1>1, EmptySeq, LenProperties
<1>4. V_retry[1] <= VStop /\ Vscan < V_retry[1] /\ V_retry[1] \in Int
  BY <1>1, <1>2, <1>3 DEF Sound, Apart, IInv, RetryOrdered
<1> QED
  BY <1>4, SweepAssumption

LEMMA AcceptSorted ==
    ASSUME IInv, Sorted, Accept
    PROVE  Sorted'
<1> USE SweepAssumption
<1>0. DC_Cycles > 0 => Sound \/ AtStop
  BY DEF Sorted, Hopeless, Accept
<1>1. /\ pc = "check" /\ pc' = "head" /\ ve' = "node"
      /\ Vs1' = Vscan /\ Vs2' = Vs1 /\ Vs3' = Vs2
      /\ Vscan \in Int /\ Vs1 \in Int /\ Vs2 \in Int /\ Vscan <= VStop
      /\ step \in Nat \ {0} /\ step' = Grown(step) /\ step <= LongestStep
      /\ V_retry \in Seq(Int)
      /\ DC_Cycles \in 0 .. CycleCap /\ DC_Cycles' \in 1 .. CycleCap
      /\ DC_Cycles' >= 2 => DC_Cycles > 0
      /\ DC_Cycles' >= 3 => DC_Cycles >= 2
      /\ DC_Cycles = 0 => V_retry = << >>
      /\ x' = Projected("node", DC_Cycles', Vs1', Vs2', Vs3')
  BY DEF IInv, TypeOK, LoopInv, Accept, PostSolve, InRange, CycleCap
<1>2. step' \in Nat \ {0} /\ step <= step'
  BY <1>1, GrownBounds
<1>3. IF Divides' THEN x' = "nan" ELSE IsNumber(x)'
  BY <1>1 DEF Divides, Projected, ZeroDivisor, Extrapolated, IsNumber, CycleCap
<1>4. CASE Vscan = VStop
  <2>1. CASE Divides'
    BY <1>1, <1>3, <1>4, <2>1 DEF Sorted, Hopeless, IsNumber
  <2>2. CASE ~Divides'
    <3>1. V_retry = << >>
      BY <1>4, StopEmpties
    <3>2. V_retry' = << >> /\ Vscan' = Clipped(VStop + step, step')
      BY <1>4, <3>1 DEF Accept, NextBias
    <3>3. VStop <= Vscan'
      BY <1>1, <1>2, <3>2 DEF Clipped
    <3> QED
      BY <1>1, <1>3, <1>4, <2>2, <3>2, <3>3 DEF Sorted, AtStop
  <2> QED
    BY <2>1, <2>2
<1>5. CASE Vscan < VStop
  <2>1. DC_Cycles > 0 => Sound
    BY <1>0, <1>1, <1>5 DEF AtStop
  <2>2. Different'
    BY <1>1, <2>1 DEF Sound, Apart, Different, CycleCap
  <2>3. ~Divides'
    BY <1>1, <2>2 DEF Different, Divides, ZeroDivisor
  <2>4. Apart'
    <3>1. CASE V_retry = << >>
      <4>1. V_retry' = << >> /\ Vscan' = Clipped(Vscan + step, step')
        BY <3>1 DEF Accept, NextBias
      <4>2. Vscan < Vscan'
        BY <1>1, <1>2, <1>5, <4>1 DEF Clipped
      <4> QED
        BY <1>1, <4>1, <4>2 DEF Apart
    <3>2. CASE V_retry # << >>
      BY <1>1, <2>1, <3>2, PopApart DEF Sound, CycleCap
    <3> QED
      BY <3>1, <3>2
  <2> QED
    BY <1>1, <1>3, <2>2, <2>3, <2>4 DEF Sorted, Sound
<1> QED
  BY <1>1, <1>4, <1>5

LEMMA RetrySorted ==
    ASSUME Resolution >= 1, IInv, Sorted, mixed' = mixed,
           (Retry /\ ~mixed) \/ (MixRetry /\ mixed)
    PROVE  Sorted'
<1> USE SweepAssumption
<1>1. /\ pc = "check" /\ reason = "diverged" /\ pc' = "head" /\ DC_Cycles > 0
      /\ UNCHANGED <<step, Vs1, Vs2, Vs3, DC_Cycles>>
      /\ DC_Cycles \in 0 .. CycleCap /\ Vs1 \in Int /\ Vs2 \in Int /\ Vs3 \in Int
      /\ ve' = IF mixed THEN "node" ELSE ve
      /\ x' = Projected(IF mixed THEN "mixed" ELSE Filled, DC_Cycles, Vs1, Vs2, Vs3)
  BY DEF Retry, MixRetry, Recovered, CanRetry, DivergedRecovery, IInv, TypeOK
<1>2. CASE Hopeless
  <2>1. (Divides' <=> Divides) /\ (Divides => Vs1' = VStop)
    BY <1>1, <1>2 DEF Divides, Hopeless
  <2>2. CASE Divides
    <3>1. x' = "nan"
      BY <1>1, <2>2 DEF Divides, Projected, ZeroDivisor, CycleCap
    <3> QED
      BY <1>1, <2>1, <2>2, <3>1 DEF Sorted, Hopeless, IsNumber
  <2>3. CASE ve = "nan" /\ ~mixed
    <3>1. x' \in {"mixed", "nan"} /\ ve' = "nan"
      BY <1>1, <2>3 DEF Projected, Extrapolated, Filled
    <3> QED
      BY <1>1, <2>1, <2>3, <3>1 DEF Sorted, Hopeless, IsNumber
  <2> QED
    BY <1>2, <2>2, <2>3 DEF Hopeless
<1>3. CASE Sound
  <2>1. /\ Projected(Filled, DC_Cycles, Vs1, Vs2, Vs3) \in StartVector
        /\ Projected("mixed", DC_Cycles, Vs1, Vs2, Vs3) \in StartVector
        /\ Filled = "mixed" => Projected(Filled, DC_Cycles, Vs1, Vs2, Vs3) = "mixed"
    BY <1>1, <1>3, ProjectedFinite DEF Sound, Different, Filled
  <2>2. CASE ve = "nan" /\ ~mixed
    <3>1. x' = "mixed" /\ ve' = "nan"
      BY <1>1, <2>1, <2>2 DEF Filled
    <3>2. ~Divides'
      BY <1>1, <1>3 DEF Sound, Different, Divides, ZeroDivisor
    <3> QED
      BY <1>1, <2>2, <3>1, <3>2 DEF Sorted, Hopeless, IsNumber
  <2>3. CASE ~(ve = "nan" /\ ~mixed)
    <3>1. x' \in StartVector /\ ve' # "nan"
      BY <1>1, <2>1, <2>3
    <3>2. IsNumber(x)'
      BY <3>1 DEF StartVector, IsNumber
    <3>3. Apart'
      BY <1>1, <1>3, RetryApart DEF Sound
    <3>4. Different'
      BY <1>1, <1>3 DEF Sound, Different
    <3> QED
      BY <1>1, <3>2, <3>3, <3>4 DEF Sorted, Sound
  <2> QED
    BY <2>2, <2>3
<1>4. ~AtStop
  BY <1>1 DEF AtStop
<1> QED
  BY <1>1, <1>2, <1>3, <1>4 DEF Sorted

LEMMA LeaveSorted ==
    ASSUME Sorted, mixed' = mixed, Exit \/ MixExit \/ GiveUp \/ UNCHANGED vars
    PROVE  Sorted'
<1>1. /\ UNCHANGED <<vectorVars, Vscan, step, Vs1, Vs2, Vs3, V_retry, DC_Cycles>>
      /\ pc' \in {"done", pc}
  BY DEF Exit, MixExit, GiveUp, vars, sweepVars
<1> QED
  BY <1>1 DEF Sorted, Sound, AtStop, Hopeless, Divides, Apart, Different, IsNumber, vectorVars

LEMMA SweepsHead == SweepsSpec => []HeadInv
<1>1. SweepsInit => HeadInv
  BY DEF SweepsInit, Init, HeadInv
<1>2. IInv /\ HeadInv /\ [SweepsNext]_sweepsVars => HeadInv'
  BY StepHead
<1> QED
  BY <1>1, <1>2, SweepsIInv, PTL DEF SweepsSpec

LEMMA SweepsSorted ==
    ASSUME Resolution >= 1
    PROVE  SweepsSpec => []Sorted
<1>1. SweepsInit => Sorted
  BY DEF SweepsInit, Init, Sorted
<1>2. IInv /\ HeadInv /\ Sorted /\ [SweepsNext]_sweepsVars => Sorted'
  <2> SUFFICES ASSUME IInv, HeadInv, Sorted, [SweepsNext]_sweepsVars PROVE Sorted'
    OBVIOUS
  <2>1. CASE Device
    BY <2>1, SolveSorted, AcceptSorted, RetrySorted, LeaveSorted DEF Device, Next, Done
  <2>2. CASE Circuit
    BY <2>2, SolveSorted, AcceptSorted, RetrySorted, LeaveSorted DEF Circuit, MixNext, Done
  <2>3. CASE UNCHANGED sweepsVars
    BY <2>3, LeaveSorted DEF sweepsVars
  <2> QED
    BY <2>1, <2>2, <2>3 DEF SweepsNext
<1> QED
  BY <1>1, <1>2, SweepsIInv, SweepsHead, PTL DEF SweepsSpec

(* Only a projection over the stop, solved twice, divides by zero.         *)
LEMMA StartIsFinite ==
    ASSUME IInv, HeadInv, ~Predict \/ Sorted
    PROVE  SolveStart
<1> SUFFICES ASSUME pc = "head", node # VStop
             PROVE  PreSolve(DC_Cycles = 0) \in StartVector
  BY DEF SolveStart
<1>1. CASE DC_Cycles = 0
  BY <1>1 DEF PreSolve, Filled, StartVector
<1>2. CASE DC_Cycles # 0
  <2>1. DC_Cycles > 0 /\ Vs1 # VStop
    BY <1>2 DEF IInv, TypeOK, StoredIsLast, CycleCap
  <2>2. ~Divides
    <3>1. CASE Sorted
      BY <2>1, <3>1 DEF Sorted, Sound, AtStop, Hopeless, Different, Divides, ZeroDivisor,
                        IInv, TypeOK
    <3>2. CASE ~Predict
      BY <3>2 DEF Divides
    <3> QED
      BY <3>1, <3>2
  <2> QED
    BY <1>2, <2>1, <2>2 DEF HeadInv, PreSolve
<1> QED
  BY <1>1, <1>2

(* On its way to the stop every solve of either sweep starts from the      *)
(* stored solution, a mixture of it and an iterate, or a finite            *)
(* projection, whatever fails and however the steps grow: when it does not *)
(* predict, or when small enough steps converge.                           *)
THEOREM SweepsStartFromNumbers ==
    ASSUME ~Predict \/ Resolution >= 1
    PROVE  SweepsSpec => []SolveStart
<1>1. CASE ~Predict
  <2>1. IInv /\ HeadInv => SolveStart
    BY <1>1, StartIsFinite
  <2> QED
    BY <2>1, SweepsIInv, SweepsHead, PTL
<1>2. CASE Resolution >= 1
  <2>1. IInv /\ HeadInv /\ Sorted => SolveStart
    BY StartIsFinite
  <2>2. SweepsSpec => []Sorted
    BY <1>2, SweepsSorted
  <2> QED
    BY <2>1, <2>2, SweepsIInv, SweepsHead, PTL
<1> QED
  BY <1>1, <1>2

(* A step of the loop after the stop has converged.                        *)
StopStep ==
    pc = "check" /\ reason = "converged" /\ Vscan = VStop
      => ~InRange(Vscan') \/ (Vscan' = VStop /\ step' > step)

LEMMA AcceptAtStop ==
    ASSUME IInv, Sorted, Accept
    PROVE  StopStep
<1> USE SweepAssumption
<1> SUFFICES ASSUME Vscan = VStop
             PROVE  ~InRange(Vscan') \/ (Vscan' = VStop /\ step' > step)
  BY DEF StopStep
<1>1. step \in Nat \ {0} /\ step <= LongestStep /\ step' = Grown(step)
  BY DEF IInv, TypeOK, LoopInv, Accept
<1>2. step' \in Nat \ {0} /\ step <= step'
  BY <1>1, GrownBounds
<1>3. Vscan' = Clipped(VStop + step, step')
  BY StopEmpties DEF Accept, NextBias
<1>4. CASE step' = step
  BY <1>1, <1>3, <1>4 DEF Clipped, InRange
<1>5. CASE step' > step
  BY <1>1, <1>2, <1>3, <1>5 DEF Clipped
<1> QED
  BY <1>1, <1>2, <1>4, <1>5

(* Once the stop has converged either sweep is left, or solves the stop    *)
(* again because its step has just grown; without growing steps (VStepMax  *)
(* at most VStep) that cannot be, and the stop is solved once.             *)
THEOREM SweepsStopLast ==
    ASSUME Resolution >= 1
    PROVE  SweepsSpec => StopIsLast
<1>1. IInv /\ Sorted /\ [SweepsNext]_sweepsVars => [StopStep]_vars
  <2> SUFFICES ASSUME IInv, Sorted, [SweepsNext]_sweepsVars PROVE [StopStep]_vars
    OBVIOUS
  <2>1. CASE Accept
    BY <2>1, AcceptAtStop
  <2>2. CASE Solve \/ MixSolve \/ Exit \/ MixExit \/ Retry \/ MixRetry \/ GiveUp
    BY <2>2 DEF StopStep, Solve, MixSolve, Exit, MixExit, Retry, MixRetry, GiveUp
  <2>3. CASE UNCHANGED vars
    BY <2>3
  <2> QED
    BY <2>1, <2>2, <2>3 DEF SweepsNext, Device, Circuit, Next, MixNext, Done, sweepsVars
<1>2. SweepsSpec => []Sorted
  BY SweepsSorted
<1> QED
  BY <1>1, <1>2, SweepsIInv, PTL DEF SweepsSpec, StopIsLast, StopStep

(***************************************************************************)
(* Every step of the loop uses up what is left of the sweep: the way from  *)
(* the last converged bias to the stop, the room for the step to grow, the *)
(* room on the stack, the place in the loop.                               *)
(***************************************************************************)
ToStop ==
    IF DC_Cycles > 0 THEN VStop - Vs1
    ELSE IF VStart <= VStop THEN VStop - VStart + 1 ELSE 0

Growth == IF InRange(Vscan) THEN LongestStep - step + 1 ELSE 0

Place == IF pc = "head" THEN 2 ELSE IF pc = "check" THEN 1 ELSE 0

Left == <<ToStop, Growth, MaxRetry - Len(V_retry), Place>>

Measured ==
    /\ ToStop \in Nat /\ Growth \in Nat /\ MaxRetry - Len(V_retry) \in Nat /\ Place \in Nat

LEMMA IsMeasured == IInv => Measured
<1> SUFFICES ASSUME IInv PROVE Measured
  OBVIOUS
<1> USE SweepAssumption
<1>1. ToStop \in Nat
  BY DEF IInv, TypeOK, StoredIsLast, ToStop, CycleCap
<1>2. Growth \in Nat
  <2>1. step \in Nat /\ step <= LongestStep /\ LongestStep \in Nat
    BY DEF IInv, TypeOK, LoopInv, LongestStep
  <2> QED
    BY <2>1 DEF Growth
<1>3. MaxRetry - Len(V_retry) \in Nat
  <2>1. Len(V_retry) \in Nat /\ Len(V_retry) <= MaxRetry
    BY LenProperties DEF IInv, TypeOK
  <2> QED
    BY <2>1
<1> QED
  BY <1>1, <1>2, <1>3 DEF Measured, Place

LEMMA SolveDescends ==
    ASSUME Measured, Measured', Solve \/ MixSolve \/ Exit \/ MixExit \/ GiveUp
    PROVE  <<Left', Left>> \in Fewer(4)
<1>1. /\ UNCHANGED <<Vscan, step, Vs1, V_retry, DC_Cycles>>
      /\ \/ pc = "head" /\ pc' \in {"check", "done"}
         \/ pc = "check" /\ pc' = "done"
  BY DEF Solve, MixSolve, Exit, MixExit, GiveUp
<1>2. ToStop' = ToStop /\ Growth' = Growth /\ Len(V_retry') = Len(V_retry)
  BY <1>1 DEF ToStop, Growth, InRange
<1>3. Place' < Place
  BY <1>1 DEF Place
<1> QED
  BY <1>2, <1>3 DEF Measured, Left, Fewer, LexProductOrdering, OpToRel

(* A bias that failed goes onto the stack, and a lower one is tried.       *)
LEMMA RetryDescends ==
    ASSUME IInv, Measured, Measured', Retry \/ MixRetry
    PROVE  <<Left', Left>> \in Fewer(4)
<1> USE SweepAssumption
<1>1. /\ pc = "check" /\ V_retry' = <<Vscan>> \o V_retry /\ Vscan' = Halfway(Vscan)
      /\ UNCHANGED <<step, Vs1, DC_Cycles>>
      /\ DC_Cycles > 0 /\ Vscan \in Int /\ Vs1 \in Int /\ Vs1 <= Vscan /\ V_retry \in Seq(Int)
      /\ InRange(Vscan)
  BY DEF Retry, MixRetry, CanRetry, IInv, TypeOK, RetryOrdered, LoopInv
<1>2. InRange(Vscan)'
  <2>1. Vscan' \in Int /\ Vscan' <= Vscan
    BY <1>1, HalfwayBetween
  <2> QED
    BY <1>1, <2>1 DEF InRange
<1>3. ToStop' = ToStop /\ Growth' = Growth
  BY <1>1, <1>2 DEF ToStop, Growth
<1>4. MaxRetry - Len(V_retry') < MaxRetry - Len(V_retry)
  <2>1. Len(V_retry') = Len(V_retry) + 1 /\ Len(V_retry) \in Nat
    BY <1>1, Pushed
  <2> QED
    BY <2>1
<1> QED
  BY <1>3, <1>4 DEF Measured, Left, Fewer, LexProductOrdering, OpToRel

(* A bias that converged is nearer to the stop, or it is the stop itself,  *)
(* solved once more after a step that had grown.                           *)
LEMMA AcceptDescends ==
    ASSUME IInv, Sorted, Measured, Measured', Accept
    PROVE  <<Left', Left>> \in Fewer(4)
<1> USE SweepAssumption
<1>1. /\ pc = "check" /\ Vs1' = Vscan /\ Vscan \in Int /\ Vs1 \in Int /\ Vscan <= VStop
      /\ InRange(Vscan) /\ DC_Cycles \in 0 .. CycleCap /\ DC_Cycles' > 0
      /\ (DC_Cycles = 0 => Vscan = VStart)
      /\ step \in Nat \ {0} /\ step <= LongestStep /\ step' = Grown(step)
  BY DEF IInv, TypeOK, LoopInv, Accept, InRange, CycleCap
<1>2. ToStop' = VStop - Vscan
  BY <1>1 DEF ToStop
<1>3. CASE DC_Cycles = 0
  <2>1. ToStop = VStop - Vscan + 1
    BY <1>1, <1>3 DEF ToStop
  <2>2. ToStop' < ToStop
    BY <1>1, <1>2, <2>1
  <2> QED
    BY <2>2 DEF Measured, Left, Fewer, LexProductOrdering, OpToRel
<1>4. CASE DC_Cycles > 0 /\ Sound
  <2>1. ToStop = VStop - Vs1 /\ Vs1 < Vscan
    BY <1>4 DEF ToStop, Sound, Apart
  <2>2. ToStop' < ToStop
    BY <1>1, <1>2, <2>1
  <2> QED
    BY <2>2 DEF Measured, Left, Fewer, LexProductOrdering, OpToRel
<1>5. CASE DC_Cycles > 0 /\ AtStop
  <2>1. Vscan = VStop /\ Vs1 = VStop /\ V_retry = << >> /\ ToStop' = ToStop
    BY <1>1, <1>2, <1>5 DEF AtStop, ToStop
  <2>2. /\ step' \in Nat \ {0} /\ step <= step' /\ step' <= LongestStep /\ LongestStep \in Nat
    BY <1>1, GrownBounds DEF LongestStep
  <2>3. Vscan' = Clipped(VStop + step, step')
    BY <2>1 DEF Accept, NextBias
  <2>4. Growth = LongestStep - step + 1
    BY <1>1 DEF Growth
  <2>5. step' = step => ~InRange(Vscan)'
    BY <1>1, <2>3 DEF Clipped, InRange
  <2>6. Growth' \in {0, LongestStep - step' + 1} /\ (step' = step => Growth' = 0)
    BY <2>5 DEF Growth
  <2>7. Growth' < Growth
    BY <1>1, <2>2, <2>4, <2>6
  <2> QED
    BY <2>1, <2>7 DEF Measured, Left, Fewer, LexProductOrdering, OpToRel
<1>6. ~(DC_Cycles > 0 /\ Hopeless)
  BY <1>1 DEF Hopeless, Accept
<1> QED
  BY <1>1, <1>3, <1>4, <1>5, <1>6 DEF Sorted, CycleCap

(* Either sweep is left after finitely many solves, whichever of them fail *)
(* and however the steps grow, when small enough steps converge. (The stop *)
(* may be solved more than once, but not for ever.)                        *)
THEOREM SweepsDescend ==
    ASSUME Resolution >= 1
    PROVE  SweepsSpec => [][pc # "done" => <<Left', Left>> \in Fewer(4)]_sweepsVars
<1>1. IInv /\ IInv' /\ Sorted /\ [SweepsNext]_sweepsVars
         => [pc # "done" => <<Left', Left>> \in Fewer(4)]_sweepsVars
  <2>1. IInv => Measured
    BY IsMeasured
  <2>2. IInv' => Measured'
    BY <2>1, PTL
  <2> QED
    BY <2>1, <2>2, SolveDescends, RetryDescends, AcceptDescends
    DEF SweepsNext, Device, Circuit, Next, MixNext, Done
<1> QED
  BY <1>1, SweepsIInv, SweepsSorted, PTL DEF SweepsSpec
==============================================================================
