----------------------------- MODULE MixProofs -----------------------------
(***************************************************************************)
(* Proofs about MixMarch and MixOp: the operating point of a device in a   *)
(* circuit and the march that may follow it, for every number of steps of  *)
(* the ramp and of gmin, every interval, step, limit and order.            *)
(***************************************************************************)
EXTENDS MixMarch, Descent, TLAPS

(***************************************************************************)
(* The operating point. The stored solution is the one of the step before  *)
(* the next, counted in the present steps of the ramp, and the finest      *)
(* steps start from a stored solution and so converge.                     *)
(***************************************************************************)
OpType ==
    /\ VectorType
    /\ dcop \in {"idle", "ramp", "rcheck", "gmin", "gcheck", "return"}
    /\ rampup_steps \in Divisions
    /\ step \in Nat /\ sources \in Nat
    /\ gmin \in Nat

OnRamp ==
    dcop \in {"ramp", "rcheck"} =>
        /\ step \in 1 .. rampup_steps /\ ~given_up
        /\ IF DC_Cycles THEN node = Position(step - 1, rampup_steps) ELSE step = 1

OpInv ==
    /\ pc # "dcop" => dcop = "idle"
    /\ dcop = "idle" /\ pc = "dcop" =>
          step = 1 /\ rampup_steps = RampSteps /\ ~DC_Cycles /\ ~given_up
    /\ OnRamp
    /\ dcop = "ramp" /\ (DC_Cycles \/ rampup_steps = Finest) =>
          x \in {"node", "mixed"} /\ ve = "node"
    /\ dcop = "rcheck" =>
          /\ sources = Position(step, rampup_steps)
          /\ reason = "diverged" => rampup_steps < Finest
    /\ dcop \in {"gmin", "gcheck"} /\ ~given_up => sources = Finest /\ node = Finest
    /\ dcop = "gmin" /\ ~given_up => gmin_node = gmin /\ x = "node" /\ ve = "node"
    /\ OpWhole

(***************************************************************************)
(* The march, as in Transient, and what the circuit keeps beside it.       *)
(***************************************************************************)
MarchType ==
    /\ pc \in {"dcop", "begin", "head", "check", "while", "done"}
    /\ clock \in Int /\ dt \in Nat \ {0}
    /\ T_Cycles \in 0 .. MixCycleCap
    /\ diverged_retry \in Nat
    /\ ierr \in {0, 1}

MarchInv ==
    /\ pc \in {"dcop", "begin"} =>
          clock = TStart + TStep /\ dt = TStep /\ T_Cycles = 0 /\ diverged_retry = 0
    /\ OnMarch => node \in Int /\ TStart <= node /\ clock = node + dt
    /\ OnMarch /\ modeinittran =>
          pc = "head" /\ T_Cycles = 0 /\ diverged_retry = 0 /\ (clean => ve = "node")
    /\ pc \in {"head", "while"} =>
          /\ T_Cycles > 0 => x \in StartVector
          /\ diverged_retry > 0 => ve = "node"

(* The charges are those at the times of the stored solutions ...          *)
StatesInv ==
    OnMarch =>
        /\ T_Cycles > 0 => state1 = node
        /\ T_Cycles > 1 \/ (T_Cycles = 1 /\ clean) => state2 = node_last
        /\ T_Cycles = 0 /\ clean /\ ~modeinittran => state1 = node

(* ... and so are the saved vectors.                                       *)
HistoryInv ==
    /\ T_Cycles >= 1 => dt_last = node - node_last
    /\ Saves => /\ T_Cycles >= 1 => x_n = node
                /\ T_Cycles >= 2 => x_n1 = node_last

IInv == OpType /\ OpInv /\ MarchType /\ MarchInv /\ StatesInv /\ HistoryInv

LEMMA WholeParts ==
    ASSUME NEW f \in Nat, NEW n \in Nat \ {0}, f % n = 0
    PROVE  f \div n \in Nat /\ f = n * (f \div n)
  OBVIOUS

LEMMA SameFactor ==
    ASSUME NEW n \in Nat \ {0}, NEW a \in Nat, NEW b \in Nat, n * a = n * b
    PROVE  a = b
<1>1. CASE a < b
  BY <1>1
<1>2. CASE b < a
  BY <1>2
<1> QED
  BY <1>1, <1>2

(* Positions on the ramp are whole; the last one is the whole ramp, and it *)
(* does not matter whether they are counted in steps or in half steps.     *)
LEMMA RampEnd == \A n \in Divisions : Position(n, n) = Finest
  BY WholeParts, MixOpAssumption DEF Divisions, Position

LEMMA PositionType ==
    ASSUME NEW n \in Divisions, NEW s \in Nat
    PROVE  Position(s, n) \in Nat
  BY WholeParts, MixOpAssumption DEF Divisions, Position

LEMMA HalfSteps ==
    ASSUME NEW n \in Divisions, NEW s \in 1 .. n, n < Finest
    PROVE  /\ Doubled(s) \in 1 .. 2 * n
           /\ Position(Doubled(s) - 1, 2 * n) = Position(s - 1, n)
<1> DEFINE a == Finest \div n
           b == Finest \div (2 * n)
<1>1. n \in Nat \ {0} /\ Finest \in Nat /\ 2 * n \in Nat \ {0}
  BY MixOpAssumption DEF Divisions
<1>2. Finest % n = 0 /\ Finest % (2 * n) = 0
  BY MixOpAssumption DEF Divisions
<1>3. a \in Nat /\ Finest = n * a
  BY <1>1, <1>2, WholeParts
<1>4. b \in Nat /\ Finest = (2 * n) * b
  BY <1>1, <1>2, WholeParts
<1> HIDE DEF a, b
<1>5. n * a = n * (2 * b)
  BY <1>1, <1>3, <1>4
<1>6. a = 2 * b
  BY <1>1, <1>3, <1>4, <1>5, SameFactor
<1>7. Doubled(s) - 1 = 2 * (s - 1) /\ Doubled(s) \in 1 .. 2 * n
  BY <1>1 DEF Doubled
<1>8. (2 * (s - 1)) * b = (s - 1) * (2 * b)
  BY <1>1, <1>4
<1> QED
  BY <1>6, <1>7, <1>8 DEF Position, a, b

(***************************************************************************)
(* The invariant holds at first and is kept by every step.                 *)
(***************************************************************************)
LEMMA InitIInv == MixInit => IInv
<1> SUFFICES ASSUME MixInit PROVE IInv
  OBVIOUS
<1> USE MixOpAssumption, MarchAssumption
<1>1. OpType
  BY DEF MixInit, VectorInit, OpInit, OpType, VectorType
<1>2. OpInv
  BY DEF MixInit, OpInit, OpInv, OnRamp, OpWhole
<1>3. MarchType
  BY DEF MixInit, MarchType, MixCycleCap
<1>4. MarchInv /\ StatesInv /\ HistoryInv
  BY DEF MixInit, MarchInv, StatesInv, HistoryInv, OnMarch
<1> QED
  BY <1>1, <1>2, <1>3, <1>4 DEF IInv

(* The march does not move while the operating point is solved for.        *)
LEMMA MarchWaits ==
    ASSUME IInv, pc = "dcop", UNCHANGED marchVars
    PROVE  MarchType' /\ MarchInv' /\ StatesInv' /\ HistoryInv'
  BY DEF IInv, MarchType, MarchInv, StatesInv, HistoryInv, OnMarch, marchVars, history, Saves

LEMMA RampIInv ==
    ASSUME IInv, pc = "dcop", pc' = pc, Start \/ RampSolve \/ RampAccept \/ RampRetry \/ RampGiveUp
    PROVE  OpType' /\ OpInv'
<1> USE MixOpAssumption
<1>1. CASE Start
  BY <1>1 DEF Start, IInv, OpType, VectorType, OpInv, OnRamp, OpWhole, vectorVars, opResult
<1>2. CASE RampSolve
  <2>1. /\ dcop = "ramp" /\ dcop' = "rcheck" /\ sources' = Position(step, rampup_steps)
        /\ node' = node
        /\ UNCHANGED <<step, rampup_steps, retry, DC_Cycles, gmin, gmin_node, given_up>>
    BY <1>2 DEF RampSolve, SnesSolve
  <2>2. OpType'
    <3>1. VectorType'
      BY <1>2 DEF RampSolve, SnesSolve, Converges, Fails, IInv, OpType, VectorType
    <3>2. sources' \in Nat
      BY <2>1, PositionType DEF IInv, OpType
    <3> QED
      BY <2>1, <3>1, <3>2 DEF IInv, OpType
  <2>3. reason' = "diverged" => rampup_steps < Finest
    <3>1. rampup_steps \in Nat /\ rampup_steps <= Finest
      BY DEF IInv, OpType, Divisions
    <3>2. CASE rampup_steps = Finest
      BY <1>2, <2>1, <3>2
      DEF RampSolve, SnesSolve, Converges, MixStart, WithCircuit, Filled, IsNumber, IInv, OpInv
    <3> QED
      BY <3>1, <3>2
  <2> QED
    BY <2>1, <2>2, <2>3 DEF IInv, OpInv, OnRamp, OpWhole
<1>3. CASE RampAccept
  <2>1. /\ dcop = "rcheck" /\ node' = sources /\ ve' = "node" /\ x' = "node"
        /\ gmin_node' = gmin /\ DC_Cycles' = TRUE /\ step' = step + 1
        /\ dcop' = IF step' <= rampup_steps THEN "ramp" ELSE "gmin"
        /\ UNCHANGED <<ls, reason, rampup_steps, sources, gmin, given_up>>
    BY <1>3 DEF RampAccept, PostSolve
  <2>2. /\ sources = Position(step, rampup_steps) /\ step \in 1 .. rampup_steps /\ ~given_up
        /\ rampup_steps \in Nat /\ rampup_steps \in Divisions
    BY <2>1 DEF IInv, OpType, OpInv, OnRamp, Divisions
  <2>3. OpType'
    BY <2>1, <2>2 DEF IInv, OpType, VectorType
  <2>4. CASE step < rampup_steps
    <3>1. dcop' = "ramp" /\ step' \in 1 .. rampup_steps /\ step' - 1 = step
      BY <2>1, <2>2, <2>4
    <3> QED
      BY <2>1, <2>2, <2>3, <3>1 DEF IInv, OpInv, OnRamp, OpWhole
  <2>5. CASE step = rampup_steps
    <3>1. dcop' = "gmin" /\ sources = Finest
      BY <2>1, <2>2, <2>5, RampEnd
    <3> QED
      BY <2>1, <2>2, <2>3, <3>1 DEF IInv, OpInv, OnRamp, OpWhole
  <2> QED
    BY <2>2, <2>4, <2>5
<1>4. CASE RampRetry
  <2>1. /\ dcop = "rcheck" /\ dcop' = "ramp" /\ reason = "diverged" /\ x' = "mixed" /\ ve' = "node"
        /\ step' = Doubled(step) /\ rampup_steps' = 2 * rampup_steps
        /\ UNCHANGED <<node, ls, reason, DC_Cycles, sources, gmin, gmin_node, given_up>>
    BY <1>4 DEF RampRetry, MixRecovery, Recovered
  <2>2. rampup_steps < Finest /\ step \in 1 .. rampup_steps /\ rampup_steps \in Divisions
    BY <2>1 DEF IInv, OpType, OpInv, OnRamp
  <2>3. /\ rampup_steps' \in Divisions /\ step' \in 1 .. rampup_steps'
        /\ Position(step' - 1, rampup_steps') = Position(step - 1, rampup_steps)
    BY <2>1, <2>2, HalfSteps
  <2>4. step = 1 => step' = 1
    BY <2>1 DEF Doubled
  <2>5. step' \in Nat
    BY <2>3 DEF Divisions
  <2>6. OpType'
    BY <2>1, <2>3, <2>5 DEF IInv, OpType, VectorType
  <2> QED
    BY <2>1, <2>3, <2>4, <2>6 DEF IInv, OpInv, OnRamp, OpWhole
<1>5. CASE RampGiveUp
  BY <1>5 DEF RampGiveUp, IInv, OpType, VectorType, OpInv, OnRamp, OpWhole, vectorVars
<1> QED
  BY <1>1, <1>2, <1>3, <1>4, <1>5

LEMMA GminIInv ==
    ASSUME IInv, pc = "dcop", pc' = pc, GminSolve \/ GminStored \/ GminFailed \/ GminDone
    PROVE  OpType' /\ OpInv'
<1> USE MixOpAssumption
<1>1. CASE GminSolve
  <2>1. /\ dcop = "gmin" /\ gmin > 0 /\ dcop' = "gcheck" /\ gmin' = gmin - 1 /\ node' = node
        /\ UNCHANGED <<step, rampup_steps, retry, DC_Cycles, sources, gmin_node, given_up>>
    BY <1>1 DEF GminSolve, GminLeft, SnesSolve
  <2>2. VectorType'
    BY <1>1 DEF GminSolve, SnesSolve, Converges, Fails, IInv, OpType, VectorType
  <2>3. OpType'
    BY <2>1, <2>2 DEF IInv, OpType
  <2> QED
    BY <2>1, <2>3 DEF IInv, OpInv, OnRamp, OpWhole
<1>2. CASE GminStored
  BY <1>2 DEF GminStored, PostSolve, IInv, OpType, VectorType, OpInv, OnRamp, OpWhole
<1>3. CASE GminFailed
  BY <1>3 DEF GminFailed, IInv, OpType, VectorType, OpInv, OnRamp, OpWhole, vectorVars
<1>4. CASE GminDone
  BY <1>4 DEF GminDone, GminLeft, IInv, OpType, VectorType, OpInv, OnRamp, OpWhole, vectorVars,
              opResult
<1> QED
  BY <1>1, <1>2, <1>3, <1>4

LEMMA DcopIInv == IInv /\ Dcop => IInv'
<1> SUFFICES ASSUME IInv, Dcop PROVE IInv'
  OBVIOUS
<1>1. pc = "dcop" /\ pc' = pc /\ OpNext /\ UNCHANGED marchVars
  BY DEF Dcop, marchVars
<1>2. OpType' /\ OpInv'
  BY <1>1, RampIInv, GminIInv DEF OpNext
<1> QED
  BY <1>1, <1>2, MarchWaits DEF IInv

LEMMA EntryIInv == IInv /\ (OpReturn \/ Begin) => IInv'
<1> SUFFICES ASSUME IInv, OpReturn \/ Begin PROVE IInv'
  OBVIOUS
<1> USE MixOpAssumption, MarchAssumption
<1>1. CASE OpReturn
  <2>1. /\ pc = "dcop" /\ pc' \in {"done", "begin"} /\ dcop' = "idle"
        /\ step' = 1 /\ rampup_steps' = RampSteps
        /\ UNCHANGED <<vectorVars, clock, dt, diverged_retry, autostep_retry, history,
                       ierr, analysis, circuitStates, growing, clean, sources, gmin>>
    BY <1>1 DEF OpReturn, OpEnd
  <2>2. OpType' /\ OpInv'
    BY <2>1 DEF IInv, OpType, VectorType, OpInv, OnRamp, OpWhole, vectorVars
  <2>3. MarchType' /\ MarchInv' /\ StatesInv' /\ HistoryInv'
    BY <2>1 DEF IInv, MarchType, MarchInv, StatesInv, HistoryInv, OnMarch, history, Saves
  <2> QED
    BY <2>2, <2>3 DEF IInv
<1>2. CASE Begin
  <2>1. /\ pc = "begin" /\ pc' = "head" /\ node' = TStart /\ modeinittran' = TRUE
        /\ clean' = (ve = "node")
        /\ UNCHANGED <<x, ve, ls, reason, opVars, clock, dt, diverged_retry, autostep_retry,
                       history, ierr, analysis, state1, state2, growing>>
    BY <1>2 DEF Begin
  <2>2. OpType' /\ OpInv'
    BY <2>1 DEF IInv, OpType, VectorType, OpInv, OnRamp, OpWhole, opVars, opResult
  <2>3. modeinittran' /\ (clean' <=> ve = "node")
    BY <2>1, Zenon
  <2>4. MarchType'
    BY <2>1 DEF IInv, MarchType, history
  <2>5. MarchInv'
    BY <2>1, <2>3 DEF IInv, MarchType, MarchInv, OnMarch, history
  <2>6. StatesInv' /\ HistoryInv'
    BY <2>1, <2>3 DEF IInv, MarchInv, StatesInv, HistoryInv, OnMarch, history
  <2> QED
    BY <2>2, <2>4, <2>5, <2>6 DEF IInv
<1> QED
  BY <1>1, <1>2

(* The operating point is over when the march runs.                        *)
LEMMA OpWaits ==
    ASSUME IInv, pc # "dcop", pc' # "dcop", VectorType', UNCHANGED opVars
    PROVE  OpType' /\ OpInv'
  BY DEF IInv, OpType, OpInv, OnRamp, OpWhole, opVars, opResult

LEMMA SolveIInv == IInv /\ MixSolve => IInv'
<1> SUFFICES ASSUME IInv, MixSolve PROVE IInv'
  OBVIOUS
<1>1. /\ pc = "head" /\ pc' = "check" /\ node' = node
      /\ state1' = IF ~modeinittran THEN state1 ELSE IF ve = "node" THEN node ELSE Iterate
      /\ modeinittran' = FALSE
      /\ UNCHANGED <<opVars, clock, dt, diverged_retry, autostep_retry, history, ierr,
                     analysis, state2, growing, clean>>
  BY DEF MixSolve, SnesSolve
<1>2. VectorType'
  BY DEF MixSolve, SnesSolve, Converges, Fails, IInv, OpType, VectorType
<1>3. OpType' /\ OpInv'
  BY <1>1, <1>2, OpWaits
<1>4. MarchType' /\ MarchInv' /\ StatesInv' /\ HistoryInv'
  BY <1>1 DEF IInv, MarchType, MarchInv, StatesInv, HistoryInv, OnMarch, history, Saves
<1> QED
  BY <1>3, <1>4 DEF IInv

(* Halving a step keeps the clock in step with the stored solution; so     *)
(* does cutting a rejected one and clipping one at the stop.               *)
LEMMA HalvedStep ==
    ASSUME NEW n \in Int, NEW d \in Nat \ {0}, NEW t, t = n + d, TStart <= n
    PROVE  /\ Half(d) \in Nat \ {0} /\ Half(d) <= d
           /\ ClockBack(t, d - Half(d)) = n + Half(d)
  BY MarchAssumption DEF ClockBack, Half, Larger

LEMMA CutStep ==
    ASSUME NEW n \in Int, NEW d \in Nat \ {0}, NEW t, t = n + d,
           NEW e \in 1 .. (81 * d) \div 100
    PROVE  e \in Nat \ {0} /\ e <= d /\ t - d + e = n + e
  OBVIOUS

LEMMA ClippedStep ==
    ASSUME NEW t \in Int, NEW e \in Nat \ {0}, PastStop(t + e, e)
    PROVE  /\ e - (t + e - TStop) \in Nat \ {0}
           /\ TStop = t + (e - (t + e - TStop))
  BY MarchAssumption DEF PastStop

LEMMA EarlierTime ==
    ASSUME NEW n \in Int, NEW d \in Nat, NEW e \in Nat, e <= d
    PROVE  n + e \in Int /\ n + e <= n + d
  OBVIOUS

LEMMA AgainIInv == IInv /\ (MixRetry \/ MixReject) => IInv'
<1> SUFFICES ASSUME IInv, MixRetry \/ MixReject PROVE IInv'
  OBVIOUS
<1>0. pc = "check" => node \in Int /\ TStart <= node /\ clock = node + dt /\ dt \in Nat \ {0}
  BY DEF IInv, MarchType, MarchInv, OnMarch
<1>1. CASE MixRetry
  <2>1. /\ pc = "check" /\ pc' = "while" /\ diverged_retry' = diverged_retry + 1
        /\ dt' = Half(dt) /\ clock' = ClockBack(clock, dt - dt')
        /\ x' = "mixed" /\ ve' = "node"
        /\ UNCHANGED <<node, ls, reason, opVars, autostep_retry, history, ierr,
                       analysis, circuitStates, growing, clean>>
    BY <1>1 DEF MixRetry, MixRecovery, Recovered
  <2>2. dt' \in Nat \ {0} /\ clock' = node + dt' /\ clock' \in Int
    BY <1>0, <2>1, HalvedStep
  <2>3. OpType' /\ OpInv'
    <3>1. VectorType'
      BY <2>1 DEF IInv, OpType, VectorType
    <3> QED
      BY <2>1, <3>1, OpWaits
  <2>4. MarchType' /\ MarchInv' /\ StatesInv' /\ HistoryInv'
    BY <2>1, <2>2 DEF IInv, MarchType, MarchInv, StatesInv, HistoryInv, OnMarch, history, Saves,
                      circuitStates, StartVector
  <2> QED
    BY <2>3, <2>4 DEF IInv
<1>2. CASE MixReject
  <2>1. /\ pc = "check" /\ pc' = "while" /\ diverged_retry' = 0
        /\ dt' \in RejectedSteps /\ clock' = clock - dt + dt' /\ x' = "projected"
        /\ UNCHANGED <<node, ve, ls, reason, opVars, history, ierr,
                       analysis, circuitStates, growing, clean>>
    BY <1>2 DEF MixReject
  <2>2. dt' \in Nat \ {0} /\ clock' = node + dt' /\ clock' \in Int
    BY <1>0, <2>1, CutStep DEF RejectedSteps
  <2>3. OpType' /\ OpInv'
    <3>1. VectorType'
      BY <2>1 DEF IInv, OpType, VectorType
    <3> QED
      BY <2>1, <3>1, OpWaits
  <2>4. MarchType' /\ MarchInv' /\ StatesInv' /\ HistoryInv'
    BY <2>1, <2>2 DEF IInv, MarchType, MarchInv, StatesInv, HistoryInv, OnMarch, history, Saves,
                      circuitStates, StartVector
  <2> QED
    BY <2>3, <2>4 DEF IInv
<1> QED
  BY <1>1, <1>2

(* The next clock and step, however the step was found.                    *)
LEMMA AcceptedStep ==
    ASSUME MixAccept, clock \in Int
    PROVE  /\ dt' \in Nat \ {0} /\ clock' = clock + dt'
           /\ clock <= TStop => clock' <= TStop \/ clock = TStop
<1> USE MarchAssumption
<1>1. PICK d \in MixScaled :
         \E e \in limit_dt(Bounded(d)) :
            IF PastStop(clock + e, e)
            THEN clock' = TStop /\ dt' = e - (clock + e - TStop)
            ELSE clock' = clock + e /\ dt' = e
  BY DEF MixAccept
<1>2. PICK e \in limit_dt(Bounded(d)) :
         IF PastStop(clock + e, e)
         THEN clock' = TStop /\ dt' = e - (clock + e - TStop)
         ELSE clock' = clock + e /\ dt' = e
  BY <1>1
<1>3. e \in Nat \ {0}
  BY <1>2 DEF limit_dt
<1>4. CASE PastStop(clock + e, e)
  <2>1. clock' = TStop /\ dt' = e - (clock + e - TStop)
    BY <1>2, <1>4
  <2>2. clock' <= TStop
    BY <2>1
  <2> QED
    BY <1>3, <1>4, <2>1, <2>2, ClippedStep, Zenon
<1>5. CASE ~PastStop(clock + e, e)
  BY <1>2, <1>3, <1>5 DEF PastStop
<1> QED
  BY <1>4, <1>5

LEMMA AcceptIInv == IInv /\ MixAccept => IInv'
<1> SUFFICES ASSUME IInv, MixAccept PROVE IInv'
  OBVIOUS
<1>1. /\ pc = "check" /\ pc' = "while" /\ node' = clock /\ node_last' = node
      /\ x' \in StartVector /\ ve' = "node" /\ diverged_retry' = 0
      /\ dt_last' = dt
      /\ IF Saves THEN x_n2' = x_n1 /\ x_n1' = x_n /\ x_n' = clock
                  ELSE UNCHANGED <<x_n, x_n1, x_n2>>
      /\ state1' = clock /\ state2' = state1
      /\ UNCHANGED <<ls, reason, opVars, time_step_success, ierr, analysis, modeinittran, clean>>
  BY DEF MixAccept, PostSolve, Projected, StartVector, Rotated
<1>2. /\ T_Cycles \in 0 .. MixCycleCap /\ T_Cycles' \in 1 .. MixCycleCap
      /\ T_Cycles' >= 2 => T_Cycles >= 1
      /\ T_Cycles' = 1 => T_Cycles = 0
  BY DEF MixAccept, IInv, MarchType, MixCycleCap
<1>3. /\ node \in Int /\ clock \in Int /\ dt \in Nat \ {0}
      /\ TStart <= node /\ dt = clock - node /\ TStart <= clock
  BY <1>1, MarchAssumption DEF IInv, MarchType, MarchInv, OnMarch
<1>4. dt' \in Nat \ {0} /\ clock' = clock + dt' /\ clock' \in Int
  BY <1>3, AcceptedStep
<1>5. OpType' /\ OpInv'
  <2>1. VectorType'
    BY <1>1, <1>3 DEF IInv, OpType, VectorType, StartVector
  <2> QED
    BY <1>1, <2>1, OpWaits
<1>6. MarchType'
  BY <1>1, <1>2, <1>4 DEF IInv, MarchType
<1>7. MarchInv'
  BY <1>1, <1>3, <1>4 DEF IInv, MarchInv, OnMarch
<1>8. StatesInv'
  BY <1>1, <1>2 DEF IInv, MarchInv, StatesInv, OnMarch, MixCycleCap
<1>9. HistoryInv'
  <2>1. Saves' = Saves
    BY DEF Saves
  <2>2. dt_last' = node' - node_last'
    BY <1>1, <1>3
  <2>3. ASSUME Saves PROVE x_n' = node' /\ (T_Cycles' >= 2 => x_n1' = node_last')
    BY <1>1, <1>2, <2>3 DEF IInv, HistoryInv
  <2> QED
    BY <2>1, <2>2, <2>3 DEF HistoryInv
<1> QED
  BY <1>5, <1>6, <1>7, <1>8, <1>9 DEF IInv

LEMMA LeaveIInv == IInv /\ (MixGiveUp \/ MixWhile \/ UNCHANGED mixVars) => IInv'
<1> SUFFICES ASSUME IInv, MixGiveUp \/ MixWhile \/ UNCHANGED mixVars PROVE IInv'
  OBVIOUS
<1>1. CASE MixGiveUp
  <2>1. /\ pc = "check" /\ pc' = "done" /\ ierr' = 1 /\ diverged_retry' = diverged_retry + 1
        /\ UNCHANGED <<vectorVars, opVars, clock, dt, autostep_retry, history,
                       analysis, circuitStates, growing, clean>>
    BY <1>1 DEF MixGiveUp
  <2>2. OpType' /\ OpInv'
    <3>1. VectorType'
      BY <2>1 DEF IInv, OpType, VectorType, vectorVars
    <3> QED
      BY <2>1, <3>1, OpWaits
  <2>3. MarchType' /\ MarchInv' /\ StatesInv' /\ HistoryInv'
    BY <2>1 DEF IInv, MarchType, MarchInv, StatesInv, HistoryInv, OnMarch, history, Saves,
                vectorVars
  <2> QED
    BY <2>2, <2>3 DEF IInv
<1>2. CASE MixWhile
  <2>1. /\ pc = "while" /\ pc' \in {"head", "done"}
        /\ UNCHANGED <<vectorVars, clock, dt, diverged_retry, autostep_retry, history, ierr>>
        /\ UNCHANGED <<opVars, analysis, circuitStates, growing, clean>>
    BY <1>2 DEF MixWhile, While
  <2>2. OpType' /\ OpInv'
    <3>1. VectorType'
      BY <2>1 DEF IInv, OpType, VectorType, vectorVars
    <3> QED
      BY <2>1, <3>1, OpWaits
  <2>3. MarchType' /\ MarchInv' /\ StatesInv' /\ HistoryInv'
    BY <2>1 DEF IInv, MarchType, MarchInv, StatesInv, HistoryInv, OnMarch, history, Saves,
                vectorVars, circuitStates
  <2> QED
    BY <2>2, <2>3 DEF IInv
<1>3. CASE UNCHANGED mixVars
  <2>1. OpType' /\ OpInv'
    BY <1>3 DEF IInv, OpType, VectorType, OpInv, OnRamp, OpWhole, mixVars, opVars, opResult,
                vars, vectorVars, marchVars
  <2>2. MarchType' /\ MarchInv' /\ StatesInv' /\ HistoryInv'
    BY <1>3 DEF IInv, MarchType, MarchInv, StatesInv, HistoryInv, OnMarch, Saves, mixVars, vars,
                vectorVars, marchVars, history
  <2> QED
    BY <2>1, <2>2 DEF IInv
<1> QED
  BY <1>1, <1>2, <1>3

LEMMA StepIInv == IInv /\ [MixNext]_mixVars => IInv'
  BY DcopIInv, EntryIInv, SolveIInv, AgainIInv, AcceptIInv, LeaveIInv DEF MixNext, MixDone

LEMMA AlwaysIInv == MixSpec => []IInv
  BY InitIInv, StepIInv, PTL DEF MixSpec

(***************************************************************************)
(* The refinement of Continuation: nothing past the stop is solved.        *)
(***************************************************************************)
AheadInv ==
    /\ OnMarch => node <= TStop
    /\ pc \in {"head", "check"} => clock <= TStop
    /\ pc = "while" => clock <= TStop \/ node = TStop
    /\ ierr = 1 => pc = "done"

LEMMA InitAhead ==
    ASSUME TStart + TStep <= TStop
    PROVE  MixInit => AheadInv
  BY MarchAssumption DEF MixInit, AheadInv, OnMarch

LEMMA StepAhead ==
    ASSUME TStart + TStep <= TStop, IInv, AheadInv, [MixNext]_mixVars
    PROVE  AheadInv'
<1> USE MarchAssumption
<1>0. OnMarch => /\ node \in Int /\ clock \in Int /\ dt \in Nat \ {0} /\ clock = node + dt
                 /\ TStart <= node
  BY DEF IInv, MarchType, MarchInv
<1>1. CASE Dcop \/ OpReturn
  BY <1>1 DEF Dcop, OpReturn, marchVars, AheadInv, OnMarch
<1>2. CASE Begin
  <2>1. /\ pc = "begin" /\ pc' = "head" /\ node' = TStart /\ UNCHANGED <<clock, ierr>>
    BY <1>2 DEF Begin
  <2>2. clock <= TStop /\ TStart <= TStop
    BY <2>1 DEF IInv, MarchInv
  <2> QED
    BY <2>1, <2>2 DEF AheadInv, OnMarch
<1>3. CASE MixSolve
  BY <1>3 DEF MixSolve, SnesSolve, AheadInv, OnMarch
<1>4. CASE MixRetry
  <2>1. /\ pc = "check" /\ pc' = "while" /\ dt' = Half(dt)
        /\ clock' = ClockBack(clock, dt - dt') /\ UNCHANGED <<node, ierr>>
    BY <1>4 DEF MixRetry
  <2>2. dt' \in Nat /\ dt' <= dt /\ clock' = node + dt'
    BY <1>0, <2>1, HalvedStep DEF OnMarch
  <2>3. clock' \in Int /\ clock' <= clock
    BY <1>0, <2>1, <2>2, EarlierTime, Zenon DEF OnMarch
  <2> QED
    BY <1>0, <2>1, <2>3 DEF AheadInv, OnMarch
<1>5. CASE MixReject
  <2>1. /\ pc = "check" /\ pc' = "while" /\ dt' \in RejectedSteps
        /\ clock' = clock - dt + dt' /\ UNCHANGED <<node, ierr>>
    BY <1>5 DEF MixReject
  <2>2. dt' \in Nat /\ dt' <= dt /\ clock' = node + dt'
    BY <1>0, <2>1, CutStep DEF RejectedSteps, OnMarch
  <2>3. clock' \in Int /\ clock' <= clock
    BY <1>0, <2>1, <2>2, EarlierTime, Zenon DEF OnMarch
  <2> QED
    BY <1>0, <2>1, <2>3 DEF AheadInv, OnMarch
<1>6. CASE MixAccept
  <2>1. pc = "check" /\ pc' = "while" /\ node' = clock /\ UNCHANGED ierr
    BY <1>6 DEF MixAccept, PostSolve
  <2>2. clock <= TStop /\ clock \in Int
    BY <1>0, <2>1 DEF AheadInv, OnMarch
  <2>3. clock' <= TStop \/ clock = TStop
    BY <1>6, <2>2, AcceptedStep
  <2> QED
    BY <2>1, <2>2, <2>3 DEF AheadInv
<1>7. CASE MixGiveUp
  BY <1>7 DEF MixGiveUp, AheadInv, OnMarch, vectorVars
<1>8. CASE MixWhile
  <2>1. /\ pc = "while" /\ UNCHANGED <<node, clock, ierr>>
        /\ pc' = "done" \/ (pc' = "head" /\ Continues(clock, dt))
    BY <1>8 DEF MixWhile, While, vectorVars
  <2>2. pc' = "head" => clock <= TStop
    BY <1>0, <2>1 DEF AheadInv, Continues, OnMarch
  <2> QED
    BY <2>1, <2>2 DEF AheadInv, OnMarch
<1>9. CASE UNCHANGED mixVars
  BY <1>9 DEF AheadInv, OnMarch, mixVars, vars, vectorVars, marchVars
<1> QED
  BY <1>1, <1>2, <1>3, <1>4, <1>5, <1>6, <1>7, <1>8, <1>9 DEF MixNext, MixDone

LEMMA StepPromise ==
    ASSUME IInv, AheadInv, [MixNext]_mixVars, OnMarch
    PROVE  [CN!Next]_(CN!vars)
<1> USE MarchAssumption
<1>0. /\ node \in Int /\ clock \in Int /\ dt \in Nat \ {0} /\ clock = node + dt
      /\ TStart <= node /\ node <= TStop /\ ierr = 0
  BY DEF IInv, MarchType, MarchInv, AheadInv, OnMarch
<1>1. CASE MixAccept
  <2>1. pc = "check" /\ pc' = "while" /\ node' = clock
    BY <1>1 DEF MixAccept, PostSolve
  <2>2. clock <= TStop /\ clock \in (node + 1) .. (node + (TStop - TStart))
    BY <1>0, <2>1 DEF AheadInv
  <2> QED
    BY <1>0, <2>1, <2>2 DEF CN!Next, CN!Advance, CN!vars
<1>2. CASE MixGiveUp
  <2>1. pc = "check" /\ pc' = "done" /\ ierr' = 1 /\ node' = node
    BY <1>2 DEF MixGiveUp, vectorVars
  <2> QED
    BY <2>1 DEF CN!Next, CN!Fail, CN!vars
<1>3. CASE MixWhile
  <2>1. /\ pc = "while" /\ node' = node /\ ierr' = ierr
        /\ pc' = IF Continues(clock, dt) THEN "head" ELSE "done"
    BY <1>3 DEF MixWhile, While, vectorVars
  <2>2. CASE Continues(clock, dt)
    BY <2>1, <2>2 DEF CN!vars
  <2>3. CASE ~Continues(clock, dt)
    <3>1. node = TStop
      BY <1>0, <2>1, <2>3 DEF AheadInv, Continues
    <3> QED
      BY <1>0, <2>1, <2>3, <3>1 DEF CN!Next, CN!Complete, CN!vars
  <2> QED
    BY <2>2, <2>3
<1>4. CASE MixSolve \/ MixRetry \/ MixReject
  BY <1>4 DEF MixSolve, SnesSolve, MixRetry, MixReject, CN!vars
<1>5. CASE UNCHANGED mixVars
  BY <1>5 DEF CN!vars, mixVars, vars, vectorVars, marchVars
<1>6. ~(Dcop \/ OpReturn \/ Begin \/ MixDone)
  BY DEF OnMarch, Dcop, OpReturn, Begin, MixDone
<1> QED
  BY <1>1, <1>2, <1>3, <1>4, <1>5, <1>6 DEF MixNext

(***************************************************************************)
(* The theorems.                                                           *)
(***************************************************************************)

(* Ramp and march step from the solution stored last, and every solve of   *)
(* theirs starts from a vector that has been filled.                       *)
THEOREM StepsFromStored == MixSpec => []MixStepFromStored
<1>1. IInv => MixStepFromStored
  <2> SUFFICES ASSUME IInv PROVE MixStepFromStored
    OBVIOUS
  <2>1. dcop = "ramp" => /\ IF DC_Cycles THEN node = Position(step - 1, rampup_steps)
                                          ELSE step = 1
                         /\ MixStart(~DC_Cycles) \in StartVector
    BY DEF IInv, OpInv, OnRamp, MixStart, WithCircuit, Filled, StartVector
  <2>2. OnMarch => clock = node + dt
    BY DEF IInv, MarchInv
  <2>3. pc = "head" => MixStart(T_Cycles = 0) \in StartVector
    BY DEF IInv, MarchType, MarchInv, MixStart, WithCircuit, Filled, StartVector, MixCycleCap
  <2> QED
    BY <2>1, <2>2, <2>3 DEF MixStepFromStored
<1> QED
  BY <1>1, AlwaysIInv, PTL

(* The charges of the circuit and the saved vectors are those at the times *)
(* of the stored solutions.                                                *)
THEOREM CircuitIsBehind == MixSpec => []CircuitFollows
<1>1. IInv => CircuitFollows
  <2> SUFFICES ASSUME IInv, OnMarch
               PROVE  /\ pc = "head" /\ diverged_retry > 0 => ve = "node"
                      /\ MixReady /\ Saves => x_n = node /\ x_n1 = node_last /\ dt_last = x_n - x_n1
    BY DEF IInv, StatesInv, CircuitFollows
  <2>1. pc = "head" /\ diverged_retry > 0 => ve = "node"
    BY DEF IInv, MarchInv
  <2>2. MixReady => T_Cycles >= 2
    BY DEF IInv, MarchType, MixReady, MixCycleCap
  <2>3. T_Cycles \in Nat
    BY DEF IInv, MarchType, MixCycleCap
  <2> QED
    BY <2>1, <2>2, <2>3 DEF IInv, HistoryInv
<1> QED
  BY <1>1, AlwaysIInv, PTL

(* An operating point that was not given up is the whole one.              *)
THEOREM OpEndsWhole == MixSpec => []OpWhole
<1>1. IInv => OpWhole
  BY DEF IInv, OpInv
<1> QED
  BY <1>1, AlwaysIInv, PTL

(* The march of the circuit keeps the promise of a continuation, if its    *)
(* first step lies within the interval.                                    *)
THEOREM KeepsPromise ==
    ASSUME TStart + TStep <= TStop
    PROVE  MixSpec => MixPromise
<1>1. IInv /\ AheadInv /\ [MixNext]_mixVars => AheadInv'
  BY StepAhead
<1>2. IInv /\ AheadInv /\ [MixNext]_mixVars => [OnMarch => [CN!Next]_(CN!vars)]_mixVars
  BY StepPromise
<1>3. MixInit => AheadInv
  BY InitAhead
<1> QED
  BY <1>1, <1>2, <1>3, AlwaysIInv, PTL DEF MixSpec, MixPromise

(***************************************************************************)
(* Every step of the analysis uses up what is left of it: what is still to *)
(* run (the ramp, gmin, the march), the rest of the ramp, of gmin or of    *)
(* the interval, the failures allowed on the ramp or the step of the march,*)
(* the failures allowed on the march, the place in the loop.               *)
(***************************************************************************)
BoundInv ==
    /\ dcop = "idle" => retry = 0
    /\ dcop \in {"ramp", "rcheck"} => retry \in 0 .. 3
    /\ OnMarch => diverged_retry < MaxDiverged
    /\ pc \in {"head", "check"} => node < TStop

Ramping == pc = "dcop" /\ dcop \in {"ramp", "rcheck"}
Reducing == pc = "dcop" /\ dcop \in {"gmin", "gcheck"}

Loops ==
    IF OnMarch THEN 1
    ELSE IF Ramping THEN 5
    ELSE IF Reducing THEN 4
    ELSE IF pc = "dcop" THEN (IF dcop = "idle" THEN 6 ELSE 3)
    ELSE IF pc = "begin" THEN 2 ELSE 0

Far ==
    IF OnMarch THEN (IF node < TStop THEN TStop - node ELSE 0)
    ELSE IF Ramping THEN Finest - Position(step - 1, rampup_steps)
    ELSE IF Reducing THEN gmin ELSE 0

Cuts == IF OnMarch THEN dt ELSE IF Ramping THEN 4 - retry ELSE 0

Failures == IF OnMarch THEN MaxDiverged - diverged_retry ELSE 0

Place ==
    IF pc = "while" THEN 3
    ELSE IF pc = "head" \/ dcop \in {"ramp", "gcheck"} THEN 2
    ELSE IF pc = "check" \/ dcop \in {"rcheck", "gmin"} THEN 1 ELSE 0

Left == <<Loops, Far, Cuts, Failures, Place>>

Measured ==
    /\ Loops \in Nat /\ Far \in Nat /\ Cuts \in Nat /\ Failures \in Nat /\ Place \in Nat

(* The next position lies further up the ramp, and none past its end.      *)
LEMMA PositionGrows ==
    ASSUME NEW n \in Divisions, NEW s \in 1 .. n
    PROVE  Position(s - 1, n) < Position(s, n) /\ Position(s, n) <= Finest
<1> DEFINE b == Finest \div n
<1>1. n \in Nat \ {0} /\ Finest \in Nat \ {0} /\ Finest % n = 0 /\ s \in Nat \ {0} /\ s <= n
  BY MixOpAssumption DEF Divisions
<1>2. b \in Nat /\ Finest = n * b
  BY <1>1, WholeParts
<1> HIDE DEF b
<1>3. b # 0
  BY <1>1, <1>2
<1>4. ASSUME NEW i \in Nat, NEW j \in Nat, NEW c \in Nat
      PROVE  (i + j) * c = i * c + j * c /\ j * c \in Nat
  OBVIOUS
<1>5. PICK r \in Nat : n = s + r
  <2>1. n - s \in Nat /\ n = s + (n - s)
    BY <1>1
  <2> QED
    BY <2>1
<1>6. n * b = s * b + r * b /\ r * b \in Nat /\ s * b \in Nat
  BY <1>1, <1>2, <1>4, <1>5
<1>7. s * b <= Finest
  BY <1>2, <1>6
<1>8. s - 1 \in Nat /\ s = (s - 1) + 1
  BY <1>1
<1>9. s * b = (s - 1) * b + 1 * b /\ (s - 1) * b \in Nat
  BY <1>2, <1>4, <1>8
<1>10. (s - 1) * b < s * b
  BY <1>2, <1>3, <1>9
<1> QED
  BY <1>7, <1>10 DEF Position, b

LEMMA RampMeasured ==
    ASSUME IInv, BoundInv, dcop \in {"ramp", "rcheck"}
    PROVE  /\ Position(step - 1, rampup_steps) \in Nat
           /\ Position(step - 1, rampup_steps) < Position(step, rampup_steps)
           /\ Position(step, rampup_steps) <= Finest /\ Position(step, rampup_steps) \in Nat
<1>1. rampup_steps \in Divisions /\ step \in 1 .. rampup_steps
  BY DEF IInv, OpType, OpInv, OnRamp
<1>2. step - 1 \in Nat /\ step \in Nat
  BY <1>1 DEF Divisions
<1> QED
  BY <1>1, <1>2, PositionGrows, PositionType

LEMMA IsMeasured == IInv /\ BoundInv => Measured
<1> SUFFICES ASSUME IInv, BoundInv PROVE Measured
  OBVIOUS
<1> USE MarchAssumption, MixOpAssumption
<1>1. OnMarch => node \in Int /\ dt \in Nat /\ diverged_retry \in Nat
                 /\ MaxDiverged - diverged_retry \in Nat
  BY DEF IInv, MarchType, MarchInv, BoundInv
<1>2. Ramping => Finest - Position(step - 1, rampup_steps) \in Nat
  <2> SUFFICES ASSUME Ramping PROVE Finest - Position(step - 1, rampup_steps) \in Nat
    OBVIOUS
  <2>1. /\ Position(step - 1, rampup_steps) \in Nat /\ Position(step, rampup_steps) \in Nat
        /\ Position(step - 1, rampup_steps) < Position(step, rampup_steps)
        /\ Position(step, rampup_steps) <= Finest
    BY RampMeasured DEF Ramping
  <2>2. ASSUME NEW u \in Nat, NEW v \in Nat, NEW w \in Nat, u < v, v <= w PROVE w - u \in Nat
    BY <2>2
  <2> QED
    BY <2>1, <2>2
<1>3. Ramping => 4 - retry \in Nat
  BY DEF Ramping, BoundInv
<1>4. gmin \in Nat
  BY DEF IInv, OpType
<1>5. OnMarch => (IF node < TStop THEN TStop - node ELSE 0) \in Nat
  BY <1>1
<1>6. Far \in Nat
  BY <1>2, <1>4, <1>5, Zenon DEF Far
<1>7. Cuts \in Nat /\ Failures \in Nat
  BY <1>1, <1>3 DEF Cuts, Failures
<1>8. Loops \in Nat /\ Place \in Nat
  BY DEF Loops, Place
<1> QED
  BY <1>6, <1>7, <1>8 DEF Measured

LEMMA StepBounds == IInv /\ BoundInv /\ [MixNext]_mixVars => BoundInv'
<1> SUFFICES ASSUME IInv, BoundInv, [MixNext]_mixVars PROVE BoundInv'
  OBVIOUS
<1> USE MarchAssumption
<1>1. CASE Dcop
  <2>1. pc = "dcop" /\ pc' = "dcop" /\ OpNext
    BY <1>1 DEF Dcop, marchVars
  <2>2. /\ dcop' = "idle" => FALSE
        /\ dcop' \in {"ramp", "rcheck"} => retry' \in 0 .. 3
    <3>1. CASE Start \/ RampSolve \/ RampAccept
      BY <3>1 DEF Start, RampSolve, RampAccept, opResult, BoundInv
    <3>2. CASE RampRetry
      <4>1. dcop = "rcheck" /\ dcop' = "ramp" /\ retry < 3 /\ retry' = retry + 1
        BY <3>2 DEF RampRetry
      <4> QED
        BY <4>1 DEF BoundInv
    <3>3. CASE RampGiveUp \/ GminSolve \/ GminStored \/ GminFailed \/ GminDone
      BY <3>3 DEF RampGiveUp, GminSolve, GminStored, GminFailed, GminDone
    <3> QED
      BY <2>1, <3>1, <3>2, <3>3 DEF OpNext
  <2> QED
    BY <2>1, <2>2 DEF BoundInv, OnMarch
<1>2. CASE OpReturn
  BY <1>2 DEF OpReturn, OpEnd, BoundInv, OnMarch
<1>3. CASE Begin
  <2>1. /\ pc = "begin" /\ pc' = "head" /\ node' = TStart
        /\ UNCHANGED <<dcop, retry, diverged_retry>>
    BY <1>3 DEF Begin, opVars, opResult
  <2>2. diverged_retry = 0
    BY <2>1 DEF IInv, MarchInv
  <2> QED
    BY <2>1, <2>2 DEF BoundInv
<1>4. CASE MixSolve \/ MixRetry \/ MixGiveUp \/ MixReject \/ MixAccept
  BY <1>4 DEF MixSolve, SnesSolve, MixRetry, MixGiveUp, MixReject, MixAccept, opVars, opResult,
              BoundInv, OnMarch
<1>5. CASE MixWhile
  <2>1. /\ pc = "while" /\ UNCHANGED <<node, dcop, retry, diverged_retry>>
        /\ pc' = "done" \/ (pc' = "head" /\ Continues(clock, dt))
    BY <1>5 DEF MixWhile, While, vectorVars, opVars, opResult
  <2>2. node \in Int /\ dt \in Nat \ {0} /\ clock = node + dt
    BY <2>1 DEF IInv, MarchType, MarchInv, OnMarch
  <2>3. pc' = "head" => node < TStop
    BY <2>1, <2>2 DEF Continues
  <2> QED
    BY <2>1, <2>3 DEF BoundInv, OnMarch
<1>6. CASE UNCHANGED mixVars
  BY <1>6 DEF mixVars, vars, vectorVars, marchVars, opVars, opResult, BoundInv, OnMarch
<1> QED
  BY <1>1, <1>2, <1>3, <1>4, <1>5, <1>6 DEF MixNext, MixDone

(* On the ramp and in the reduction of gmin.                               *)
LEMMA OpDescends ==
    ASSUME IInv, BoundInv, Measured, Measured', Dcop
    PROVE  <<Left', Left>> \in Fewer(5)
<1>0. /\ pc = "dcop" /\ pc' = "dcop" /\ ~OnMarch /\ ~OnMarch' /\ OpNext
      /\ Failures' = Failures
  BY DEF Dcop, marchVars, OnMarch, Failures
<1>1. CASE Start \/ RampGiveUp \/ GminFailed \/ GminDone
  <2>1. \/ dcop = "idle" /\ dcop' = "ramp"
        \/ dcop = "rcheck" /\ dcop' = "gmin"
        \/ dcop \in {"gmin", "gcheck"} /\ dcop' = "return"
    BY <1>1 DEF Start, RampGiveUp, GminFailed, GminDone
  <2>2. Loops' < Loops
    BY <1>0, <2>1 DEF Loops, Ramping, Reducing
  <2> QED
    BY <2>2 DEF Measured, Left, Fewer, LexProductOrdering, OpToRel
<1>2. CASE RampSolve
  <2>1. dcop = "ramp" /\ dcop' = "rcheck" /\ UNCHANGED <<step, rampup_steps, retry>>
    BY <1>2 DEF RampSolve
  <2>2. Ramping /\ Ramping' /\ Loops' = Loops
    BY <1>0, <2>1 DEF Ramping, Loops
  <2>3. Far' = Far /\ Cuts' = Cuts
    BY <1>0, <2>1, <2>2 DEF Far, Cuts, Position
  <2>4. Place' < Place
    BY <1>0, <2>1 DEF Place
  <2> QED
    BY <1>0, <2>2, <2>3, <2>4 DEF Measured, Left, Fewer, LexProductOrdering, OpToRel
<1>3. CASE RampAccept
  <2>1. /\ dcop = "rcheck" /\ step' = step + 1 /\ rampup_steps' = rampup_steps
        /\ dcop' \in {"ramp", "gmin"}
    BY <1>3 DEF RampAccept
  <2>2. CASE dcop' = "gmin"
    <3>1. Loops' < Loops
      BY <1>0, <2>1, <2>2 DEF Loops, Ramping, Reducing
    <3> QED
      BY <3>1 DEF Measured, Left, Fewer, LexProductOrdering, OpToRel
  <2>3. CASE dcop' = "ramp"
    <3>1. Ramping /\ Ramping' /\ Loops' = Loops
      BY <1>0, <2>1, <2>3 DEF Ramping, Loops
    <3>2. step' - 1 = step
      BY <2>1 DEF IInv, OpType
    <3>3. Far' = Finest - Position(step, rampup_steps)
      BY <1>0, <2>1, <3>1, <3>2 DEF Far, Position
    <3>4. Far = Finest - Position(step - 1, rampup_steps)
      BY <1>0, <3>1 DEF Far
    <3>5. ASSUME NEW u \in Nat, NEW v \in Nat, NEW w \in Nat, u < v, v <= w
          PROVE  w - v < w - u
      BY <3>5
    <3>6. Far' < Far
      <4>1. /\ Position(step - 1, rampup_steps) \in Nat /\ Position(step, rampup_steps) \in Nat
            /\ Position(step - 1, rampup_steps) < Position(step, rampup_steps)
            /\ Position(step, rampup_steps) <= Finest /\ Finest \in Nat
        BY <2>1, RampMeasured, MixOpAssumption
      <4> QED
        BY <3>3, <3>4, <3>5, <4>1, Zenon
    <3> QED
      BY <3>1, <3>6 DEF Measured, Left, Fewer, LexProductOrdering, OpToRel
  <2> QED
    BY <2>1, <2>2, <2>3
<1>4. CASE RampRetry
  <2>1. /\ dcop = "rcheck" /\ dcop' = "ramp" /\ reason = "diverged" /\ retry' = retry + 1
        /\ step' = Doubled(step) /\ rampup_steps' = 2 * rampup_steps
    BY <1>4 DEF RampRetry
  <2>2. Ramping /\ Ramping' /\ Loops' = Loops
    BY <1>0, <2>1 DEF Ramping, Loops
  <2>3. Position(step' - 1, rampup_steps') = Position(step - 1, rampup_steps)
    <3>1. rampup_steps \in Divisions /\ step \in 1 .. rampup_steps /\ rampup_steps < Finest
      BY <2>1 DEF IInv, OpType, OpInv, OnRamp
    <3> QED
      BY <2>1, <3>1, HalfSteps
  <2>4. Far' = Far
    BY <1>0, <2>2, <2>3 DEF Far, Position
  <2>5. Cuts' < Cuts
    <3>1. retry \in 0 .. 3
      BY <2>1 DEF BoundInv
    <3> QED
      BY <1>0, <2>1, <2>2, <3>1 DEF Cuts
  <2> QED
    BY <2>2, <2>4, <2>5 DEF Measured, Left, Fewer, LexProductOrdering, OpToRel
<1>5. CASE GminSolve
  <2>1. dcop = "gmin" /\ dcop' = "gcheck" /\ gmin' = gmin - 1 /\ gmin \in Nat
    BY <1>5 DEF GminSolve, IInv, OpType
  <2>2. Loops' = Loops
    BY <1>0, <2>1 DEF Loops, Ramping, Reducing
  <2>3. Far = gmin /\ Far' = gmin'
    BY <1>0, <2>1 DEF Far, Ramping, Reducing
  <2>4. Far' < Far
    BY <2>1, <2>3
  <2> QED
    BY <2>2, <2>4 DEF Measured, Left, Fewer, LexProductOrdering, OpToRel
<1>6. CASE GminStored
  <2>1. dcop = "gcheck" /\ dcop' = "gmin" /\ gmin' = gmin
    BY <1>6 DEF GminStored
  <2>2. Loops' = Loops /\ Far' = Far /\ Cuts' = Cuts
    BY <1>0, <2>1 DEF Loops, Far, Cuts, Ramping, Reducing
  <2>3. Place' < Place
    BY <1>0, <2>1 DEF Place
  <2> QED
    BY <1>0, <2>2, <2>3 DEF Measured, Left, Fewer, LexProductOrdering, OpToRel
<1> QED
  BY <1>0, <1>1, <1>2, <1>3, <1>4, <1>5, <1>6 DEF OpNext

(* On the way to the march and on it.                                      *)
LEMMA MarchDescends ==
    ASSUME IInv, BoundInv, Measured, Measured',
           OpReturn \/ Begin \/ MixSolve \/ MixRetry \/ MixGiveUp \/ MixReject \/ MixAccept
           \/ MixWhile
    PROVE  <<Left', Left>> \in Fewer(5)
<1> USE MarchAssumption
<1>0. OnMarch => /\ node \in Int /\ dt \in Nat \ {0} /\ clock = node + dt
                 /\ diverged_retry \in Nat /\ dcop = "idle"
  BY DEF IInv, MarchType, MarchInv, OpInv, OnMarch
<1>1. CASE OpReturn \/ Begin \/ MixGiveUp \/ (MixWhile /\ pc' = "done")
  <2>1. \/ pc = "dcop" /\ dcop = "return" /\ pc' \in {"done", "begin"}
        \/ pc = "begin" /\ pc' = "head"
        \/ pc \in {"check", "while"} /\ pc' = "done"
    BY <1>1 DEF OpReturn, Begin, MixGiveUp, MixWhile, While
  <2>2. Loops' < Loops
    BY <2>1 DEF Loops, OnMarch, Ramping, Reducing
  <2> QED
    BY <2>2 DEF Measured, Left, Fewer, LexProductOrdering, OpToRel
<1>2. CASE MixSolve \/ (MixWhile /\ pc' # "done")
  <2>1. /\ UNCHANGED <<node, dt, diverged_retry, dcop>>
        /\ \/ pc = "head" /\ pc' = "check"
           \/ pc = "while" /\ pc' = "head"
    BY <1>2 DEF MixSolve, SnesSolve, MixWhile, While, vectorVars, opVars
  <2>2. /\ OnMarch /\ OnMarch' /\ Loops' = Loops
        /\ Far' = Far /\ Cuts' = Cuts /\ Failures' = Failures
    BY <2>1 DEF OnMarch, Loops, Far, Cuts, Failures
  <2>3. Place' < Place
    BY <1>0, <2>1, <2>2 DEF Place
  <2> QED
    BY <2>2, <2>3 DEF Measured, Left, Fewer, LexProductOrdering, OpToRel
<1>3. CASE MixRetry
  <2>1. /\ pc = "check" /\ pc' = "while" /\ node' = node /\ dt' = Half(dt)
        /\ diverged_retry' = diverged_retry + 1
    BY <1>3 DEF MixRetry
  <2>2. OnMarch /\ OnMarch' /\ Loops' = Loops /\ Far' = Far
    BY <2>1 DEF OnMarch, Loops, Far
  <2>3. dt' < dt \/ dt' = dt
    BY <1>0, <2>1, <2>2 DEF Half
  <2>4. Cuts' < Cuts \/ Cuts' = Cuts
    BY <2>2, <2>3 DEF Cuts
  <2>5. Failures' < Failures
    BY <1>0, <2>1, <2>2 DEF Failures
  <2> QED
    BY <2>2, <2>4, <2>5 DEF Measured, Left, Fewer, LexProductOrdering, OpToRel
<1>4. CASE MixReject
  <2>1. pc = "check" /\ pc' = "while" /\ node' = node /\ dt' \in RejectedSteps
    BY <1>4 DEF MixReject
  <2>2. OnMarch /\ OnMarch' /\ Loops' = Loops /\ Far' = Far
    BY <2>1 DEF OnMarch, Loops, Far
  <2>3. dt' < dt
    BY <1>0, <2>1, <2>2 DEF RejectedSteps
  <2>4. Cuts' < Cuts
    BY <2>2, <2>3 DEF Cuts
  <2> QED
    BY <2>2, <2>4 DEF Measured, Left, Fewer, LexProductOrdering, OpToRel
<1>5. CASE MixAccept
  <2>1. pc = "check" /\ pc' = "while" /\ node' = clock
    BY <1>5 DEF MixAccept, PostSolve
  <2>2. OnMarch /\ OnMarch' /\ Loops' = Loops /\ node < TStop
    BY <2>1 DEF OnMarch, Loops, BoundInv
  <2>3. Far' < Far
    BY <1>0, <2>1, <2>2 DEF Far
  <2> QED
    BY <2>2, <2>3 DEF Measured, Left, Fewer, LexProductOrdering, OpToRel
<1> QED
  BY <1>1, <1>2, <1>3, <1>4, <1>5

(* The analysis of a circuit is left after finitely many solves, whatever  *)
(* their results and whatever steps are asked for.                         *)
THEOREM MixDescends == MixSpec => [][pc # "done" => <<Left', Left>> \in Fewer(5)]_mixVars
<1>1. MixInit => BoundInv
  BY MarchAssumption DEF MixInit, OpInit, BoundInv, OnMarch
<1>2. /\ IInv /\ IInv' /\ BoundInv /\ BoundInv' /\ [MixNext]_mixVars
         => [pc # "done" => <<Left', Left>> \in Fewer(5)]_mixVars
  <2>1. IInv /\ BoundInv => Measured
    BY IsMeasured
  <2>2. IInv' /\ BoundInv' => Measured'
    BY <2>1, PTL
  <2> QED
    BY <2>1, <2>2, OpDescends, MarchDescends DEF MixNext, MixDone
<1> QED
  BY <1>1, <1>2, AlwaysIInv, StepBounds, PTL DEF MixSpec
==============================================================================
