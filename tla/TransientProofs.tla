--------------------------- MODULE TransientProofs ---------------------------
(***************************************************************************)
(* Proofs about Transient, for every interval, step, limit, order, control *)
(* of the step and bound on the failures, and about CircuitMarch, for all  *)
(* values of the elements and all potentials and currents.                 *)
(***************************************************************************)
EXTENDS CircuitMarch, Descent, SequenceTheorems, TLAPS

(***************************************************************************)
(* Facts about the operators the loop is built from.                       *)
(***************************************************************************)

(* Halving a step keeps the clock in step with the stored solution.  *)
LEMMA HalvedStep ==
    ASSUME NEW n \in Int, NEW d \in Nat \ {0}, NEW t, t = n + d, TStart <= n
    PROVE  /\ Half(d) \in Nat \ {0}
           /\ ClockBack(t, d - Half(d)) = n + Half(d)
  BY MarchAssumption DEF ClockBack, Half, Larger

(* So does cutting a rejected step.                                        *)
LEMMA CutStep ==
    ASSUME NEW n \in Int, NEW d \in Nat \ {0}, NEW t, t = n + d,
           NEW e \in 1 .. (81 * d) \div 100
    PROVE  e \in Nat \ {0} /\ t - d + e = n + e
  OBVIOUS

LEMMA CutShorter ==
    ASSUME NEW d \in Nat \ {0}, NEW e \in 1 .. (81 * d) \div 100
    PROVE  e \in Nat \ {0} /\ e <= d
  OBVIOUS

LEMMA CutBack ==
    ASSUME NEW c \in Int, NEW d \in Nat, NEW e \in Nat, e <= d
    PROVE  c - d + e \in Int /\ c - d + e <= c
  OBVIOUS

(* A clipped step ends at the stop.                                        *)
LEMMA ClippedStep ==
    ASSUME NEW t \in Int, NEW e \in Nat \ {0}, PastStop(t + e, e)
    PROVE  /\ e - (t + e - TStop) \in Nat \ {0}
           /\ TStop = t + (e - (t + e - TStop))
  BY MarchAssumption DEF PastStop

(* The window of accepted steps.                                           *)
LEMMA RecentType ==
    ASSUME time_step_success \in Seq(Nat \ {0}), Len(time_step_success) <= Window,
           dt \in Nat \ {0}
    PROVE  Recent \in Seq(Nat \ {0}) /\ Len(Recent) <= Window
<1> DEFINE all == Append(time_step_success, dt)
<1>1. all \in Seq(Nat \ {0}) /\ Len(all) = Len(time_step_success) + 1
  BY AppendProperties
<1>2. all # << >> => Tail(all) \in Seq(Nat \ {0}) /\ Len(Tail(all)) = Len(all) - 1
  BY <1>1, HeadTailProperties
<1>3. all # << >>
  BY <1>1
<1> QED
  BY <1>1, <1>2, <1>3, MarchAssumption DEF Recent

(***************************************************************************)
(* The inductive invariant.                                                *)
(***************************************************************************)
LoopInv ==
    /\ node \in Int /\ TStart <= node
    /\ clock = node + dt
    /\ diverged_retry < MaxDiverged \/ pc = "done"

HistoryInv ==
    /\ T_Cycles >= 1 => node_last \in Int /\ dt_last = node - node_last
    /\ ~BDF2_LowerOrder => T_Cycles >= 1
    /\ Saves =>
          /\ T_Cycles >= 1 => x_n = node
          /\ T_Cycles >= 2 => x_n1 \in Int /\ dt_last = x_n - x_n1
          /\ T_Cycles >= 3 => x_n2 \in Int /\ dt_last_last = x_n1 - x_n2

IInv == TypeOK /\ LoopInv /\ HistoryInv

LEMMA InitIInv == Init => IInv
<1> SUFFICES ASSUME Init PROVE IInv
  OBVIOUS
<1> USE MarchAssumption DEF Init
<1>1. TypeOK
  <2>1. time_step_success \in Seq(Nat \ {0}) /\ Len(time_step_success) = 0
    OBVIOUS
  <2>2. VectorType
    BY DEF VectorInit, VectorType
  <2>3. clock \in Int /\ dt \in Nat \ {0}
    OBVIOUS
  <2>4. autostep_retry \in BOOLEAN /\ BDF2_LowerOrder \in BOOLEAN
    BY Zenon DEF LowerOrderAtStart
  <2>5. T_Cycles \in 0 .. CycleCap /\ diverged_retry \in 0 .. MaxDiverged
        /\ Len(time_step_success) <= Window
    BY <2>1 DEF CycleCap
  <2> HIDE DEF Init
  <2>6. /\ pc = "head" /\ ierr = 0 /\ dt_last = Prior /\ dt_last_last = Prior
        /\ node_last = Prior /\ x_n = Prior /\ x_n1 = Prior /\ x_n2 = Prior
    BY DEF Init
  <2> QED
    BY <2>1, <2>2, <2>3, <2>4, <2>5, <2>6 DEF TypeOK, Points
<1>2. LoopInv
  BY DEF LoopInv, VectorInit
<1>3. HistoryInv
  BY DEF HistoryInv, LowerOrderAtStart
<1> QED
  BY <1>1, <1>2, <1>3 DEF IInv

LEMMA SolveIInv == IInv /\ Solve => IInv'
<1> SUFFICES ASSUME IInv, Solve PROVE IInv'
  OBVIOUS
<1>1. /\ pc = "head" /\ pc' = "check" /\ node' = node
      /\ UNCHANGED <<clock, dt, diverged_retry, autostep_retry, history, ierr>>
  BY DEF Solve, SnesSolve
<1>2. TypeOK'
  <2>1. VectorType'
    BY DEF IInv, TypeOK, Solve, SnesSolve, Converges, Fails, VectorType
  <2> QED
    BY <1>1, <2>1 DEF IInv, TypeOK, history
<1>4. LoopInv'
  BY <1>1 DEF IInv, LoopInv
<1>5. HistoryInv'
  BY <1>1 DEF IInv, HistoryInv, history
<1> QED
  BY <1>2, <1>4, <1>5 DEF IInv

LEMMA RetryIInv == IInv /\ Retry => IInv'
<1> SUFFICES ASSUME IInv, Retry PROVE IInv'
  OBVIOUS
<1> USE MarchAssumption
<1>1. /\ pc = "check" /\ pc' = "while" /\ node' = node /\ x' \in StartVector
      /\ diverged_retry' = diverged_retry + 1 /\ diverged_retry' < MaxDiverged
      /\ dt' = Half(dt) /\ clock' = ClockBack(clock, dt - dt')
      /\ UNCHANGED <<ve, ls, reason, autostep_retry, history, ierr>>
  BY DEF Retry, Projected, Extrapolated, DivergedRecovery, Filled, StartVector
<1>3. dt' \in Nat \ {0} /\ clock' = node + dt'
  BY <1>1, HalvedStep DEF IInv, LoopInv, TypeOK
<1>4. TypeOK'
  BY <1>1, <1>3 DEF IInv, LoopInv, TypeOK, VectorType, StartVector, history
<1>5. LoopInv'
  BY <1>1, <1>3 DEF IInv, LoopInv, StartVector
<1>6. HistoryInv'
  BY <1>1 DEF IInv, HistoryInv, history
<1> QED
  BY <1>4, <1>5, <1>6 DEF IInv

LEMMA RejectIInv == IInv /\ Reject => IInv'
<1> SUFFICES ASSUME IInv, Reject PROVE IInv'
  OBVIOUS
<1> USE MarchAssumption
<1>1. /\ pc = "check" /\ pc' = "while" /\ x' = "projected"
      /\ diverged_retry' = 0 /\ autostep_retry' = TRUE
      /\ dt' \in RejectedSteps /\ clock' = clock - dt + dt'
      /\ UNCHANGED <<node, ve, ls, reason, history, ierr>>
  BY DEF Reject
<1>2. dt' \in Nat \ {0} /\ clock' = node + dt'
  BY <1>1, CutStep DEF IInv, LoopInv, TypeOK, RejectedSteps
<1>3. TypeOK'
  BY <1>1, <1>2 DEF IInv, LoopInv, TypeOK, VectorType, history
<1>4. LoopInv'
  <2>1. node' \in Int /\ TStart <= node' /\ clock' = node' + dt'
    BY <1>1, <1>2 DEF IInv, LoopInv
  <2>2. pc' # "check" /\ diverged_retry' < MaxDiverged
    BY <1>1
  <2> QED
    BY <2>1, <2>2 DEF LoopInv
<1>5. HistoryInv'
  BY <1>1 DEF IInv, HistoryInv, history
<1> QED
  BY <1>3, <1>4, <1>5 DEF IInv

(* The next clock and step, however the step was found.                    *)
LEMMA AcceptedStep ==
    ASSUME IInv, Accept
    PROVE  dt' \in Nat \ {0} /\ clock' = clock + dt'
<1>1. PICK d \in Scaled :
         \E e \in limit_dt(Bounded(Smaller(TwiceAverage(Recent), d))) :
            IF PastStop(clock + e, e)
            THEN clock' = TStop /\ dt' = e - (clock + e - TStop)
            ELSE clock' = clock + e /\ dt' = e
  BY DEF Accept
<1>2. PICK e \in limit_dt(Bounded(Smaller(TwiceAverage(Recent), d))) :
         IF PastStop(clock + e, e)
         THEN clock' = TStop /\ dt' = e - (clock + e - TStop)
         ELSE clock' = clock + e /\ dt' = e
  BY <1>1
<1>3. e \in Nat \ {0}
  BY <1>2 DEF limit_dt
<1>4. clock \in Int
  BY DEF IInv, TypeOK
<1>5. CASE PastStop(clock + e, e)
  BY <1>2, <1>3, <1>4, <1>5, ClippedStep
<1>6. CASE ~PastStop(clock + e, e)
  BY <1>2, <1>3, <1>4, <1>6
<1> QED
  BY <1>5, <1>6

LEMMA AcceptIInv == IInv /\ Accept => IInv'
<1> SUFFICES ASSUME IInv, Accept PROVE IInv'
  OBVIOUS
<1> USE MarchAssumption
<1>1. /\ pc = "check" /\ pc' = "while" /\ node' = clock /\ node_last' = node
      /\ x' \in StartVector /\ ve' = "node" /\ diverged_retry' = 0
      /\ time_step_success' = Recent
      /\ autostep_retry' \in BOOLEAN /\ BDF2_LowerOrder' \in BOOLEAN
      /\ dt_last_last' = dt_last /\ dt_last' = dt
      /\ IF Saves THEN x_n2' = x_n1 /\ x_n1' = x_n /\ x_n' = clock
                  ELSE UNCHANGED <<x_n, x_n1, x_n2>>
      /\ UNCHANGED <<ls, reason, ierr>>
  BY DEF Accept, PostSolve, Projected, Extrapolated, StartVector, IInv, TypeOK
<1>2. /\ T_Cycles \in 0 .. CycleCap /\ T_Cycles' \in 1 .. CycleCap
      /\ T_Cycles' >= 2 => T_Cycles >= 1
      /\ T_Cycles' >= 3 => T_Cycles >= 2
  BY DEF Accept, IInv, TypeOK, CycleCap
<1>3. /\ node \in Int /\ clock \in Int /\ dt \in Nat \ {0}
      /\ TStart <= node /\ dt = clock - node /\ TStart <= clock
  BY DEF IInv, TypeOK, LoopInv
<1>4. dt' \in Nat \ {0} /\ clock' = clock + dt' /\ clock' \in Int
  BY <1>3, AcceptedStep
<1>5. TypeOK'
  <2>1. time_step_success' \in Seq(Nat \ {0}) /\ Len(time_step_success') <= Window
    BY <1>1, <1>3, RecentType DEF IInv, TypeOK
  <2>2. VectorType'
    BY <1>1, <1>3 DEF IInv, TypeOK, VectorType, StartVector
  <2>3. x_n' \in Points /\ x_n1' \in Points /\ x_n2' \in Points
    BY <1>1, <1>3 DEF IInv, TypeOK, Points
  <2> QED
    BY <1>1, <1>2, <1>3, <1>4, <2>1, <2>2, <2>3 DEF IInv, TypeOK, Points, CycleCap
<1>6. LoopInv'
  BY <1>1, <1>3, <1>4 DEF LoopInv, StartVector
<1>7. HistoryInv'
  <2>1. T_Cycles' >= 1 /\ node_last' \in Int /\ dt_last' = node' - node_last'
    BY <1>1, <1>2, <1>3 DEF CycleCap
  <2>2. ASSUME Saves
        PROVE  /\ x_n' = node'
               /\ T_Cycles' >= 2 => x_n1' \in Int /\ dt_last' = x_n' - x_n1'
               /\ T_Cycles' >= 3 => x_n2' \in Int /\ dt_last_last' = x_n1' - x_n2'
    <3>1. x_n' = node' /\ x_n1' = x_n /\ x_n2' = x_n1
      BY <1>1, <2>2
    <3>2. T_Cycles' >= 2 => x_n1' = node /\ dt_last' = x_n' - x_n1'
      BY <1>1, <1>2, <1>3, <2>2, <3>1 DEF IInv, HistoryInv
    <3>3. T_Cycles' >= 3 => x_n2' \in Int /\ dt_last_last' = x_n1' - x_n2'
      BY <1>1, <1>2, <2>2, <3>1 DEF IInv, HistoryInv
    <3> QED
      BY <1>3, <3>1, <3>2, <3>3
  <2> QED
    BY <2>1, <2>2 DEF HistoryInv, Saves
<1> QED
  BY <1>5, <1>6, <1>7 DEF IInv

(* Leaving the loop and standing still change nothing the invariant reads. *)
LEMMA LeaveIInv == IInv /\ (GiveUp \/ While \/ UNCHANGED vars) => IInv'
<1> SUFFICES ASSUME IInv, GiveUp \/ While \/ UNCHANGED vars PROVE IInv'
  OBVIOUS
<1> USE MarchAssumption
<1>1. CASE GiveUp
  <2>1. /\ pc = "check" /\ pc' = "done" /\ ierr' = 1
        /\ diverged_retry' = diverged_retry + 1
        /\ diverged_retry < MaxDiverged
        /\ UNCHANGED <<vectorVars, clock, dt, autostep_retry, history>>
    BY <1>1 DEF GiveUp, IInv, LoopInv
  <2>2. TypeOK'
    BY <2>1 DEF IInv, TypeOK, VectorType, vectorVars, history
  <2> QED
    BY <2>1, <2>2 DEF IInv, LoopInv, HistoryInv, vectorVars, history
<1>2. CASE While
  <2>1. /\ pc' \in {"head", "done"}
        /\ UNCHANGED <<vectorVars, clock, dt, diverged_retry, autostep_retry,
                       history, ierr>>
    BY <1>2 DEF While
  <2>2. TypeOK'
    BY <2>1 DEF IInv, TypeOK, VectorType, vectorVars, history
  <2> QED
    BY <1>2, <2>1, <2>2 DEF IInv, LoopInv, HistoryInv, While, vectorVars, history
<1>3. CASE UNCHANGED vars
  <2>1. TypeOK'
    BY <1>3 DEF IInv, TypeOK, VectorType, vars, marchVars, vectorVars, history
  <2> QED
    BY <1>3, <2>1
    DEF IInv, LoopInv, HistoryInv, vars, marchVars, vectorVars, history
<1> QED
  BY <1>1, <1>2, <1>3

LEMMA StepIInv == IInv /\ [Next]_vars => IInv'
  BY SolveIInv, RetryIInv, RejectIInv, AcceptIInv, LeaveIInv DEF Next, Done

LEMMA AlwaysIInv == Spec => []IInv
  BY InitIInv, StepIInv, PTL DEF Spec

(* Every variable keeps its type; no step is empty.                        *)
THEOREM TypeCorrect == Spec => []TypeOK
<1>1. IInv => TypeOK
  BY DEF IInv
<1> QED
  BY <1>1, AlwaysIInv, PTL

(* The march neither skips time nor integrates it twice.                   *)
THEOREM ClockFollows == Spec => []ClockMatches
<1>1. IInv => ClockMatches
  BY DEF IInv, LoopInv, ClockMatches
<1> QED
  BY <1>1, AlwaysIInv, PTL

(* The saved vectors and steps are those of the last accepted solutions.   *)
THEOREM HistoryFollows == Spec => []HistoryMatches
<1>1. IInv => HistoryMatches
  BY MarchAssumption
  DEF IInv, TypeOK, LoopInv, HistoryInv, HistoryMatches, HistoryReady, Saves, CycleCap
<1> QED
  BY <1>1, AlwaysIInv, PTL

(* The second order formula always has the two solutions it reads.         *)
THEOREM SecondOrderSafe == Spec => []SecondOrderReady
<1>1. IInv => SecondOrderReady
  BY DEF IInv, LoopInv, HistoryInv, SecondOrderReady
<1> QED
  BY <1>1, AlwaysIInv, PTL

(***************************************************************************)
(* Every step of the loop uses up what is left of the march: the time to   *)
(* the stop, the step, the failures in a row that are still allowed, its   *)
(* place in the loop. Halving alone does not, a step of one unit stays.    *)
(***************************************************************************)
BeforeStop == pc \in {"head", "check"} => node < TStop

Place == CASE pc = "while" -> 3 [] pc = "head" -> 2 [] pc = "check" -> 1 [] OTHER -> 0

ToStop == IF node < TStop THEN TStop - node ELSE 0

Left == <<ToStop, dt, MaxDiverged - diverged_retry, Place>>

Measured ==
    /\ ToStop \in Nat /\ dt \in Nat /\ MaxDiverged - diverged_retry \in Nat
    /\ Place \in Nat

LEMMA IsMeasured == IInv => Measured
<1> SUFFICES ASSUME IInv PROVE Measured
  OBVIOUS
<1>1. ASSUME NEW n \in 0 .. MaxDiverged PROVE MaxDiverged - n \in Nat
  BY MarchAssumption
<1>2. diverged_retry \in 0 .. MaxDiverged /\ node \in Int /\ dt \in Nat
  BY DEF IInv, TypeOK, LoopInv
<1>3. ToStop \in Nat
  BY <1>2, MarchAssumption DEF ToStop
<1> QED
  BY <1>1, <1>2, <1>3 DEF Measured, Place

LEMMA StepBeforeStop == IInv /\ BeforeStop /\ [Next]_vars => BeforeStop'
<1> SUFFICES ASSUME IInv, BeforeStop, [Next]_vars PROVE BeforeStop'
  OBVIOUS
<1>1. CASE Solve
  BY <1>1 DEF Solve, SnesSolve, BeforeStop
<1>2. CASE Retry \/ GiveUp \/ Reject \/ Accept
  BY <1>2 DEF Retry, GiveUp, Reject, Accept, BeforeStop
<1>3. CASE While
  <2>1. node \in Int /\ dt \in Nat \ {0} /\ (pc = "while" => clock = node + dt)
    BY DEF IInv, TypeOK, LoopInv
  <2>2. pc = "while" /\ node' = node /\ (pc' = "head" => Continues(clock, dt))
        /\ pc' # "check"
    BY <1>3 DEF While, vectorVars
  <2> QED
    BY <2>1, <2>2, MarchAssumption DEF Continues, BeforeStop
<1>4. CASE UNCHANGED vars
  BY <1>4 DEF vars, marchVars, vectorVars, BeforeStop
<1> QED
  BY <1>1, <1>2, <1>3, <1>4 DEF Next, Done

LEMMA StepDescends ==
    ASSUME IInv, BeforeStop, Measured, Measured', Next, pc # "done"
    PROVE  <<Left', Left>> \in Fewer(4)
<1> USE MarchAssumption
<1>0. /\ node \in Int /\ dt \in Nat \ {0} /\ clock = node + dt
      /\ diverged_retry \in 0 .. MaxDiverged
  BY DEF IInv, TypeOK, LoopInv
<1>1. CASE Solve
  <2>1. /\ node' = node /\ dt' = dt /\ diverged_retry' = diverged_retry
        /\ pc = "head" /\ pc' = "check"
    BY <1>1 DEF Solve, SnesSolve
  <2>2. ToStop' = ToStop /\ Place' < Place
    BY <2>1 DEF ToStop, Place
  <2> QED
    BY <2>1, <2>2 DEF Measured, Left, Fewer, LexProductOrdering, OpToRel
<1>2. CASE Retry \/ GiveUp
  <2>1. /\ node' = node /\ dt' \in {Half(dt), dt}
        /\ diverged_retry' = diverged_retry + 1
    BY <1>2 DEF Retry, GiveUp, vectorVars
  <2>2. ToStop' = ToStop /\ (dt' < dt \/ dt' = dt)
    BY <1>0, <2>1 DEF ToStop, Half
  <2>3. MaxDiverged - diverged_retry' < MaxDiverged - diverged_retry
    BY <1>0, <2>1
  <2> QED
    BY <2>2, <2>3 DEF Measured, Left, Fewer, LexProductOrdering, OpToRel
<1>3. CASE Reject
  <2>1. node' = node /\ dt' \in RejectedSteps
    BY <1>3 DEF Reject
  <2>2. ToStop' = ToStop /\ dt' < dt
    BY <1>0, <2>1 DEF ToStop, RejectedSteps
  <2> QED
    BY <2>2 DEF Measured, Left, Fewer, LexProductOrdering, OpToRel
<1>4. CASE Accept
  <2>1. pc = "check" /\ node' = clock
    BY <1>4 DEF Accept, PostSolve
  <2>2. ToStop' < ToStop
    BY <1>0, <2>1 DEF ToStop, BeforeStop
  <2> QED
    BY <2>2 DEF Measured, Left, Fewer, LexProductOrdering, OpToRel
<1>5. CASE While
  <2>1. /\ node' = node /\ dt' = dt /\ diverged_retry' = diverged_retry
        /\ pc = "while" /\ pc' \in {"head", "done"}
    BY <1>5 DEF While, vectorVars
  <2>2. ToStop' = ToStop /\ Place' < Place
    BY <2>1 DEF ToStop, Place
  <2> QED
    BY <2>1, <2>2 DEF Measured, Left, Fewer, LexProductOrdering, OpToRel
<1> QED
  BY <1>1, <1>2, <1>3, <1>4, <1>5 DEF Next, Done

(* The march is left after finitely many solves, whatever their results    *)
(* and whatever steps the error control and the sources ask for.           *)
THEOREM MarchDescends == Spec => [][pc # "done" => <<Left', Left>> \in Fewer(4)]_vars
<1>1. Init => BeforeStop
  BY MarchAssumption DEF Init, VectorInit, BeforeStop
<1>2. IInv /\ IInv' /\ BeforeStop /\ [Next]_vars
         => [pc # "done" => <<Left', Left>> \in Fewer(4)]_vars
  <2>1. IInv => Measured
    BY IsMeasured
  <2>2. IInv' => Measured'
    BY <2>1, PTL
  <2> QED
    BY <2>1, <2>2, StepDescends
<1> QED
  BY <1>1, <1>2, AlwaysIInv, StepBeforeStop, PTL DEF Spec

(***************************************************************************)
(* The refinement of Continuation. Nothing past the stop is solved, unless *)
(* the stop has been stored and the loop is about to be left.              *)
(***************************************************************************)
AheadInv ==
    /\ node <= TStop
    /\ pc \in {"head", "check"} => clock <= TStop
    /\ pc = "while" => clock <= TStop \/ node = TStop
    /\ ierr = 1 => pc = "done"

LEMMA StepAhead == IInv /\ AheadInv /\ [Next]_vars => AheadInv'
<1> SUFFICES ASSUME IInv, AheadInv, [Next]_vars PROVE AheadInv'
  OBVIOUS
<1> USE MarchAssumption
<1>0. /\ node \in Int /\ clock \in Int /\ dt \in Nat \ {0} /\ clock = node + dt
      /\ TStart <= node
  BY DEF IInv, TypeOK, LoopInv
<1>1. CASE Solve
  <2>1. /\ pc = "head" /\ pc' = "check"
        /\ UNCHANGED <<node, clock, ierr>>
    BY <1>1 DEF Solve, SnesSolve
  <2> QED
    BY <2>1 DEF AheadInv
<1>2. CASE Retry
  <2>1. /\ pc = "check" /\ pc' = "while"
        /\ clock' = ClockBack(clock, dt - Half(dt))
        /\ UNCHANGED <<node, ierr>>
    BY <1>2 DEF Retry
  <2>2. clock' = node + Half(dt)
    BY <1>0, <2>1, HalvedStep
  <2>3. clock' \in Int /\ clock' <= clock
    BY <1>0, <2>2 DEF Half
  <2> QED
    BY <1>0, <2>1, <2>3 DEF AheadInv
<1>3. CASE Reject
  <2>1. /\ pc = "check" /\ pc' = "while" /\ dt' \in RejectedSteps
        /\ clock' = clock - dt + dt'
        /\ UNCHANGED <<node, ierr>>
    BY <1>3 DEF Reject
  <2>2. dt' \in Nat \ {0} /\ dt' <= dt
    BY <1>0, <2>1, CutShorter DEF RejectedSteps
  <2>3. clock' \in Int /\ clock' <= clock
    BY <1>0, <2>1, <2>2, CutBack, Zenon
  <2> QED
    BY <1>0, <2>1, <2>3 DEF AheadInv
<1>4. CASE Accept
  <2>1. pc = "check" /\ pc' = "while" /\ node' = clock /\ UNCHANGED ierr
    BY <1>4 DEF Accept, PostSolve
  <2>2. clock' <= TStop \/ clock = TStop
    <3>1. PICK d \in Scaled :
             \E e \in limit_dt(Bounded(Smaller(TwiceAverage(Recent), d))) :
                IF PastStop(clock + e, e)
                THEN clock' = TStop /\ dt' = e - (clock + e - TStop)
                ELSE clock' = clock + e /\ dt' = e
      BY <1>4 DEF Accept
    <3>2. PICK e \in limit_dt(Bounded(Smaller(TwiceAverage(Recent), d))) :
             IF PastStop(clock + e, e)
             THEN clock' = TStop /\ dt' = e - (clock + e - TStop)
             ELSE clock' = clock + e /\ dt' = e
      BY <3>1
    <3>3. e \in Nat \ {0} /\ clock <= TStop
      BY <2>1, <3>2 DEF limit_dt, AheadInv
    <3>4. CASE PastStop(clock + e, e)
      BY <3>2, <3>4
    <3>5. CASE ~PastStop(clock + e, e)
      BY <1>0, <3>2, <3>3, <3>5 DEF PastStop
    <3> QED
      BY <3>4, <3>5
  <2> QED
    BY <2>1, <2>2 DEF AheadInv
<1>5. CASE GiveUp
  BY <1>5 DEF GiveUp, AheadInv, vectorVars
<1>6. CASE While
  <2>1. /\ pc = "while" /\ UNCHANGED <<node, clock, ierr>>
        /\ pc' = "done" \/ (pc' = "head" /\ Continues(clock, dt))
    BY <1>6 DEF While, vectorVars
  <2>2. pc' = "head" => clock <= TStop
    BY <1>0, <2>1 DEF AheadInv, Continues
  <2> QED
    BY <2>1, <2>2 DEF AheadInv
<1>7. CASE Done \/ UNCHANGED vars
  BY <1>7 DEF Done, AheadInv, vars, vectorVars, marchVars
<1> QED
  BY <1>1, <1>2, <1>3, <1>4, <1>5, <1>6, <1>7 DEF Next

LEMMA StepPromise ==
    ASSUME IInv, AheadInv, [Next]_vars
    PROVE  [CN!Next]_(CN!vars)
<1> USE MarchAssumption DEF CN!vars
<1>0. /\ node \in Int /\ clock \in Int /\ dt \in Nat \ {0} /\ clock = node + dt
      /\ TStart <= node /\ node <= TStop
      /\ pc # "done" => ierr = 0
  BY DEF IInv, TypeOK, LoopInv, AheadInv
<1>1. CASE Solve \/ Retry \/ Reject
  <2>1. pc # "done" /\ pc' # "done" /\ node' = node
    BY <1>1 DEF Solve, SnesSolve, Retry, Reject
  <2> QED
    BY <2>1
<1>2. CASE Accept
  <2>1. pc = "check" /\ pc' = "while" /\ node' = clock
    BY <1>2 DEF Accept, PostSolve
  <2>2. clock \in (node + 1) .. (node + (TStop - TStart)) /\ clock <= TStop
    BY <1>0, <2>1 DEF AheadInv
  <2>3. CN!Advance
    BY <1>0, <2>1, <2>2 DEF CN!Advance
  <2> QED
    BY <2>3 DEF CN!Next
<1>3. CASE GiveUp
  <2>1. pc = "check" /\ pc' = "done" /\ node' = node /\ ierr' = 1
    BY <1>3 DEF GiveUp, vectorVars
  <2>2. CN!Fail
    BY <2>1 DEF CN!Fail
  <2> QED
    BY <2>2 DEF CN!Next
<1>4. CASE While
  <2>1. /\ pc = "while" /\ node' = node /\ ierr' = ierr
        /\ pc' = IF Continues(clock, dt) THEN "head" ELSE "done"
    BY <1>4 DEF While, vectorVars
  <2>2. CASE Continues(clock, dt)
    BY <2>1, <2>2
  <2>3. CASE ~Continues(clock, dt)
    <3>1. node = TStop
      BY <1>0, <2>1, <2>3 DEF AheadInv, Continues
    <3>2. CN!Complete
      BY <1>0, <2>1, <2>3, <3>1 DEF CN!Complete
    <3> QED
      BY <3>2 DEF CN!Next
  <2> QED
    BY <2>2, <2>3
<1>5. CASE Done \/ UNCHANGED vars
  BY <1>5 DEF Done, vars, vectorVars, marchVars
<1> QED
  BY <1>1, <1>2, <1>3, <1>4, <1>5 DEF Next

(* The march stores a chain of solutions from TStart to TStop, when the    *)
(* first step, which solve_transient does not clip, ends before TStop.     *)
THEOREM KeepsPromise ==
    ASSUME TStart + TStep <= TStop
    PROVE  Spec => Promise
<1>1. Init => CN!Init
  BY DEF Init, VectorInit, CN!Init
<1>2. Init => AheadInv
  BY MarchAssumption DEF Init, VectorInit, AheadInv
<1>3. IInv /\ AheadInv /\ [Next]_vars => [CN!Next]_(CN!vars)
  BY StepPromise
<1> QED
  BY <1>1, <1>2, <1>3, StepAhead, AlwaysIInv, PTL DEF Spec, Promise, CN!Spec

(***************************************************************************)
(* The march with a circuit at an electrode.                               *)
(***************************************************************************)
(* A circuit with no capacitor beside its inductor, nor beside a current   *)
(* source: _cap_current, which is never computed, is not missed.           *)
Plain(c) ==
    \/ c.kind = "PI"
    \/ c.C = 0
    \/ c.driven = "voltage" /\ c.L = 0

(* What update() has kept is the state the stored solution has left.       *)
KeptInv ==
    /\ circuit \in Circuits
    /\ present \in [V : Int, I : Int, V1 : Int]
    /\ old \in [V : Int, I : Int, V1 : Int]
    /\ old.V = stored.V /\ old.V1 = stored.V1
    /\ circuit.C = 0 => old.I = stored.J
    /\ stored.J \in Int
    /\ error = 0

LEMMA IteratesType == circuit \in Circuits => Iterates \subseteq [V : Int, I : Int, V1 : Int]
<1> DEFINE Some(c) == IF c THEN Values ELSE {0}
<1>1. Some(circuit.C > 0) \subseteq Int /\ Some(circuit.L > 0) \subseteq Int
      /\ Some(circuit.kind = "PI") \subseteq Int
  BY CircuitAssumption
<1> HIDE DEF Some
<1>2. [V : Some(circuit.C > 0), I : Some(circuit.L > 0), V1 : Some(circuit.kind = "PI")]
         \subseteq [V : Int, I : Int, V1 : Int]
  BY <1>1
<1> QED
  BY <1>2 DEF Iterates, Some

(* A step of the march with a circuit is a step of the march.              *)
LEMMA CircuitStepIsStep == [CircuitNext]_circuitMarchVars => [Next]_vars
  BY DEF CircuitNext, SolveBoth, AcceptBoth, OtherDevice, Next, circuitMarchVars

LEMMA CircuitIInv == CircuitSpec => []IInv
  BY CircuitStepIsStep, InitIInv, StepIInv, PTL DEF CircuitSpec, CircuitInit

(* The circuit decides nothing of the march: whatever is proved of every   *)
(* behaviour of solve_transient holds with a circuit at the electrode.     *)
THEOREM CircuitKeepsMarch == CircuitSpec => Spec
<1>1. CircuitInit => Init
  BY DEF CircuitInit
<1> QED
  BY <1>1, CircuitStepIsStep, PTL DEF CircuitSpec, Spec

(* In a plain circuit the current of the inductor is the one kept, and the *)
(* code's equation is that of Kirchhoff.                                   *)
LEMMA PlainUpdate ==
    ASSUME NEW d \in Nat \ {0}, KeptInv, Plain(circuit)
    PROVE  /\ Supplied(d) = Kirchhoff(d)
           /\ Supplied(d) \in Int
           /\ Branch(d, stored) \in Int
           /\ circuit.C = 0 => Branch(d, stored) = present.I
<1>1. /\ circuit \in [kind : {"RCL", "PI"}, driven : {"voltage", "current"},
                      C : Nat, C1 : Nat, L : Nat]
      /\ present \in [V : Int, I : Int, V1 : Int]
      /\ old \in [V : Int, I : Int, V1 : Int]
      /\ old.V = stored.V /\ old.V1 = stored.V1 /\ stored.J \in Int
      /\ circuit.C = 0 => old.I = stored.J
  BY CircuitAssumption DEF KeptInv
<1>2. /\ ChargeC(old) = ChargeC(stored) /\ ChargeC1(old) = ChargeC1(stored)
      /\ ChargeC(stored) \in Int /\ ChargeC1(stored) \in Int
      /\ circuit.C = 0 => ChargeC(stored) = 0
  BY <1>1 DEF ChargeC, ChargeC1
<1>3. /\ Branch(d, old) = Branch(d, stored) /\ Branch(d, stored) \in Int
      /\ circuit.C = 0 => Branch(d, stored) = present.I
  BY <1>1, <1>2 DEF Branch
<1>4. CASE circuit.kind = "PI"
  <2>1. Supplied(d) = Kirchhoff(d)
    BY <1>2, <1>4 DEF Supplied, Kirchhoff
  <2>2. Supplied(d) \in Int
    BY <1>2, <1>4 DEF Supplied
  <2> QED
    BY <1>3, <2>1, <2>2
<1>5. CASE circuit.kind # "PI" /\ circuit.driven = "current"
  <2>1. ChargeC(stored) = 0
    BY <1>1, <1>2, <1>5 DEF Plain
  <2> QED
    BY <1>1, <1>3, <1>5, <2>1 DEF Supplied, Kirchhoff, CapCurrentOld
<1>6. CASE circuit.kind # "PI" /\ circuit.driven = "voltage"
  <2> DEFINE rest == d * present.V + d * present.I + ChargeC(stored)
             flux(J) == circuit.L * (Branch(d, stored) - J)
  <2>1. rest \in Int
    BY <1>1, <1>2
  <2>2. /\ Supplied(d) = rest + circuit.L * (Branch(d, stored) - old.I - 0)
        /\ Kirchhoff(d) = rest + flux(stored.J)
    BY <1>2, <1>3, <1>6 DEF Supplied, Kirchhoff, CapCurrentOld
  <2>3. circuit.L * (Branch(d, stored) - old.I - 0) = flux(old.I) /\ flux(old.I) \in Int
    BY <1>1, <1>3
  <2>4. flux(old.I) = flux(stored.J)
    <3>1. CASE circuit.C = 0
      BY <1>1, <3>1
    <3>2. CASE circuit.L = 0
      BY <1>1, <1>3, <3>2
    <3> QED
      BY <1>6, <3>1, <3>2 DEF Plain
  <2> QED
    BY <1>3, <2>1, <2>2, <2>3, <2>4
<1> QED
  BY <1>1, <1>4, <1>5, <1>6

LEMMA CircuitStep ==
    ASSUME \A c \in Circuits : Plain(c), IInv, KeptInv, [CircuitNext]_circuitMarchVars
    PROVE  KeptInv'
<1>1. dt \in Nat \ {0} /\ Plain(circuit)
  BY DEF IInv, TypeOK, KeptInv
<1>2. CASE SolveBoth
  <2>1. present' \in Iterates /\ UNCHANGED <<circuit, old, stored, error>>
    BY <1>2 DEF SolveBoth, Evaluate
  <2>2. present' \in [V : Int, I : Int, V1 : Int]
    BY <2>1, IteratesType DEF KeptInv
  <2> QED
    BY <2>1, <2>2 DEF KeptInv
<1>3. CASE AcceptBoth
  <2>1. /\ old' = present /\ UNCHANGED <<circuit, present>>
        /\ stored' = [V |-> present.V, V1 |-> present.V1, J |-> Branch(dt, stored)]
        /\ error' = error + Supplied(dt) - Kirchhoff(dt)
    BY <1>3 DEF AcceptBoth, Update, Kept
  <2>2. /\ Supplied(dt) = Kirchhoff(dt) /\ Supplied(dt) \in Int
        /\ Branch(dt, stored) \in Int
        /\ circuit.C = 0 => Branch(dt, stored) = present.I
    BY <1>1, PlainUpdate
  <2> QED
    BY <2>1, <2>2 DEF KeptInv
<1>4. CASE OtherDevice \/ UNCHANGED circuitMarchVars
  BY <1>4 DEF OtherDevice, circuitMarchVars, circuitVars, KeptInv
<1> QED
  BY <1>2, <1>3, <1>4 DEF CircuitNext

(* Every stored step satisfies Kirchhoff's laws in the circuit, whatever   *)
(* was solved and not stored before it, for all circuits but those that    *)
(* run circuit_rcl and the figure of external_circuit_rcl.h are about.     *)
THEOREM KirchhoffKept ==
    ASSUME \A c \in Circuits : Plain(c)
    PROVE  CircuitSpec => []KirchhoffHolds
<1>1. CircuitInit => KeptInv
  <2> SUFFICES ASSUME CircuitInit PROVE KeptInv
    OBVIOUS
  <2>1. /\ circuit \in Circuits /\ present \in Iterates /\ old = present
        /\ stored = [V |-> present.V, V1 |-> present.V1, J |-> present.I]
        /\ error = 0
    BY DEF CircuitInit, TranOpInit
  <2>2. present \in [V : Int, I : Int, V1 : Int]
    BY <2>1, IteratesType
  <2> QED
    BY <2>1, <2>2 DEF KeptInv
<1>2. IInv /\ KeptInv /\ [CircuitNext]_circuitMarchVars => KeptInv'
  BY CircuitStep
<1>3. KeptInv => KirchhoffHolds
  BY DEF KeptInv, KirchhoffHolds
<1> QED
  BY <1>1, <1>2, <1>3, CircuitIInv, PTL DEF CircuitSpec
==============================================================================
