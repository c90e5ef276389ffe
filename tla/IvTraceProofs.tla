---------------------------- MODULE IvTraceProofs ----------------------------
(***************************************************************************)
(* Proofs about IvTrace: the curve trace of every curve, first step and    *)
(* bound on recoveries.                                                    *)
(***************************************************************************)
EXTENDS IvTrace, Descent, TLAPS

Past == PastVStop \cup PastIStop

(* At VStop a trace of voltage ends; a voltage of 0 lies before it.        *)
TraceOfVoltage == ZeroBeforeStop /\ PastIStop = {}

(***************************************************************************)
(* The inductive invariant. The voltage aimed at and the step are taken    *)
(* back together; the failures since the outer loop was entered are fewer  *)
(* than would end it.                                                      *)
(***************************************************************************)
StepInv ==
    /\ StepFromStored
    /\ pc \in {"head", "try", "check"} => node \in Int
    /\ pc \in {"try", "check"} => recovery <= MaxRecovery

(* The outer loop compares the point stored last; after a rejection it     *)
(* compares the current of the rejected one, but then the stored one is    *)
(* not past the stop, for a step was tried from it.                        *)
EndInv ==
    /\ pc \in {"try", "check"} => node \notin Past
    /\ pc = "head" => \/ I = node /\ Potential = node
                      \/ node \notin Past /\ Potential = Zero
    /\ pc = "done" /\ error = 0 /\ TraceOfVoltage => node \in Past

IInv == TypeOK /\ StepInv /\ EndInv

LEMMA HalfType == ASSUME NEW d \in Nat \ {0} PROVE Half(d) \in Nat \ {0}
  BY DEF Half

LEMMA RetreatUndone ==
    ASSUME NEW v \in Int, NEW n \in Int, NEW d \in Nat, v = n + d
    PROVE  Retreat(v, d) = n /\ Retreat(v, d) \in Int
  BY DEF Retreat

LEMMA NextStepsType ==
    ASSUME VStep \in Nat \ {0}
    PROVE  NextSteps \subseteq Nat \ {0}
  BY HalfType DEF NextSteps

LEMMA FilledType == Filled \in {"node", "mixed"}
  BY DEF Filled

LEMMA SolveKeepsType ==
    ASSUME VectorType, NEW x0, NEW mayFail, SnesSolve(x0, mayFail)
    PROVE  VectorType' /\ node' = node
  BY DEF SnesSolve, Converges, Fails, VectorType

LEMMA InitIInv == Init => IInv
<1> SUFFICES ASSUME Init PROVE IInv
  OBVIOUS
<1>1. first_step \in BOOLEAN
  BY Zenon DEF Init
<1>2. VectorType
  BY DEF Init, VectorInit, VectorType
<1>3. TypeOK
  BY <1>1, <1>2, TraceAssumption DEF Init, TypeOK
<1> QED
  BY <1>3 DEF Init, IInv, StepInv, StepFromStored, EndInv

LEMMA SolveIInv == IInv /\ (InitialSolve \/ Try) => IInv'
<1> SUFFICES ASSUME IInv, InitialSolve \/ Try PROVE IInv'
  OBVIOUS
<1>1. VectorType' /\ node' = node
  BY SolveKeepsType DEF IInv, TypeOK, InitialSolve, Try
<1>2. CASE InitialSolve
  BY <1>1, <1>2 DEF InitialSolve, IInv, TypeOK, StepInv, StepFromStored, EndInv
<1>3. CASE Try
  <2>1. V' \in Int /\ V' = node + VStep /\ node \in Int
    BY <1>3 DEF Try, IInv, TypeOK, StepInv, StepFromStored
  <2> QED
    BY <1>1, <1>3, <2>1 DEF Try, IInv, TypeOK, StepInv, StepFromStored, EndInv
<1> QED
  BY <1>2, <1>3

LEMMA RetryIInv == IInv /\ Retry => IInv'
<1> SUFFICES ASSUME IInv, Retry PROVE IInv'
  OBVIOUS
<1>1. /\ pc = "check" /\ UNCHANGED <<node, ve, ls, reason, I, Potential, potential_old, first_step>>
      /\ x' \in {"node", "mixed"}
      /\ VStep' \in Nat \ {0}
      /\ V' = node /\ node \in Int
  BY FilledType, HalfType, RetreatUndone
     DEF Retry, DivergedRecovery, Reduced, IInv, TypeOK, StepInv, StepFromStored
<1>2. /\ recovery' \in 0 .. MaxRecovery + 1
      /\ \/ error' = 1 /\ pc' = "done"
         \/ error' = error /\ pc' = "try" /\ recovery' <= MaxRecovery
  BY TraceAssumption DEF Retry, TooMany, IInv, TypeOK, StepInv
<1>3. TypeOK'
  BY <1>1, <1>2 DEF IInv, TypeOK, VectorType
<1>4. StepInv'
  BY <1>1, <1>2 DEF StepInv, StepFromStored
<1>5. EndInv'
  BY <1>1, <1>2 DEF IInv, EndInv, Past
<1> QED
  BY <1>3, <1>4, <1>5 DEF IInv

LEMMA RejectIInv == IInv /\ Reject => IInv'
<1> SUFFICES ASSUME IInv, Reject PROVE IInv'
  OBVIOUS
<1>1. /\ pc = "check" /\ pc' = "head"
      /\ UNCHANGED <<node, ve, ls, reason, potential_old, first_step, recovery, error>>
      /\ x' \in {"node", "mixed"}
      /\ VStep' \in Nat \ {0}
      /\ V' = node /\ node \in Int
      /\ I' = V /\ Potential' = Zero
  BY FilledType, HalfType, RetreatUndone
     DEF Reject, DivergedRecovery, Reduced, PotentialAfterReject, IInv, TypeOK, StepInv,
         StepFromStored
<1>2. TypeOK'
  BY <1>1 DEF IInv, TypeOK, VectorType
<1>3. StepInv'
  BY <1>1 DEF StepInv, StepFromStored
<1>4. EndInv'
  BY <1>1 DEF IInv, EndInv, Past
<1> QED
  BY <1>2, <1>3, <1>4 DEF IInv

(* The solution at V is stored: by the initial solve or by a step.         *)
LEMMA StoredIInv == IInv /\ (InitialStored \/ Accept) => IInv'
<1> SUFFICES ASSUME IInv, InitialStored \/ Accept PROVE IInv'
  OBVIOUS
<1>1. /\ pc' \in {"head", "aborted"}
      /\ node' = V /\ ve' = "node" /\ potential_old' = V /\ x' = "node"
      /\ I' = V /\ Potential' = V
      /\ UNCHANGED <<ls, reason, V, recovery, error>>
  BY DEF InitialStored, Accept, PostSolve
<1>2. VStep' \in Nat \ {0}
  BY NextStepsType DEF InitialStored, Accept, IInv, TypeOK
<1>3. first_step' \in BOOLEAN
  <2>1. CASE InitialStored
    BY <2>1 DEF InitialStored, IInv, TypeOK
  <2>2. first_step' = FALSE => first_step' \in BOOLEAN
    BY Zenon
  <2>3. CASE Accept
    <3>1. first_step' = first_step \/ first_step' = FALSE
      BY <2>3, Zenon DEF Accept
    <3> QED
      BY <3>1, <2>2 DEF IInv, TypeOK
  <2> QED
    BY <2>1, <2>3
<1>4. V \in Int
  BY DEF IInv, TypeOK
<1>5. TypeOK'
  BY <1>1, <1>2, <1>3, <1>4 DEF IInv, TypeOK, VectorType
<1>6. StepInv'
  BY <1>1, <1>4 DEF StepInv, StepFromStored
<1>7. EndInv'
  BY <1>1 DEF EndInv
<1> QED
  BY <1>5, <1>6, <1>7 DEF IInv

LEMMA HeadIInv == IInv /\ (Enter \/ Leave) => IInv'
<1> SUFFICES ASSUME IInv, Enter \/ Leave PROVE IInv'
  OBVIOUS
<1>1. /\ pc = "head" /\ node \in Int
      /\ UNCHANGED <<vectorVars, V, VStep, I, Potential, potential_old, first_step, error>>
  BY DEF Enter, Leave, IInv, StepInv
<1>2. UNCHANGED <<x, node, ve, ls, reason>>
  BY <1>1 DEF vectorVars
<1>3. recovery' \in 0 .. MaxRecovery + 1
  BY TraceAssumption DEF Enter, Leave, IInv, TypeOK
<1>4. CASE Enter
  <2>1. node \notin Past
    BY <1>1, <1>4, TraceAssumption DEF Enter, Going, BelowVStop, IInv, EndInv, Past
  <2>2. pc' = "try" /\ recovery' = 0
    BY <1>4 DEF Enter
  <2>3. recovery' <= MaxRecovery
    BY <2>2, TraceAssumption
  <2> QED
    BY <1>1, <1>2, <1>3, <2>1, <2>2, <2>3
       DEF IInv, TypeOK, VectorType, StepInv, StepFromStored, EndInv, Past
<1>5. CASE Leave
  <2>1. TraceOfVoltage => node \in Past
    BY <1>1, <1>5, TraceAssumption
       DEF Leave, TraceOfVoltage, Going, BelowVStop, IInv, EndInv, Past
  <2>2. pc' = "done"
    BY <1>5 DEF Leave
  <2> QED
    BY <1>1, <1>2, <1>3, <2>1, <2>2
       DEF IInv, TypeOK, VectorType, StepInv, StepFromStored, EndInv, Past, TraceOfVoltage
<1> QED
  BY <1>4, <1>5

LEMMA NextIInv == IInv /\ [Next]_vars => IInv'
<1> SUFFICES ASSUME IInv, [Next]_vars PROVE IInv'
  OBVIOUS
<1>1. CASE UNCHANGED vars
  <2>1. UNCHANGED <<x, node, ve, ls, reason, pc, V, VStep, I, Potential, potential_old,
                    first_step, recovery, error>>
    BY <1>1 DEF vars, vectorVars, traceVars
  <2> QED
    BY <2>1 DEF IInv, TypeOK, VectorType, StepInv, StepFromStored, EndInv, Past, TraceOfVoltage
<1>2. CASE InitialFailed
  <2>1. UNCHANGED <<x, node, ve, ls, reason>>
    BY <1>2 DEF InitialFailed, vectorVars
  <2> QED
    BY <1>2, <2>1 DEF InitialFailed, IInv, TypeOK, VectorType, StepInv, StepFromStored, EndInv
<1> QED
  BY <1>1, <1>2, SolveIInv, RetryIInv, RejectIInv, StoredIInv, HeadIInv DEF Next, Stopped

LEMMA Invariance == Spec => []IInv
  BY InitIInv, NextIInv, PTL DEF Spec

------------------------------------------------------------------------------
(* Type correctness: no step along the curve vanishes, however often it is *)
(* halved, and no failure is counted after the one that ends the trace.    *)
THEOREM TypeCorrect == Spec => []TypeOK
<1>1. IInv => TypeOK
  BY DEF IInv
<1> QED
  BY <1>1, Invariance, PTL

(* Every step along the curve starts from the load line of the solution    *)
(* stored last, on each of the paths that take V and VStep back.           *)
THEOREM StepsFromStored == Spec => []StepFromStored
<1>1. IInv => StepFromStored
  BY DEF IInv, StepInv
<1> QED
  BY <1>1, Invariance, PTL

(* No step is tried from a stored point that has reached VStop or IStop,   *)
(* whatever was rejected on the way to it: half of EndReached, here for    *)
(* every kind of trace.                                                    *)
THEOREM NoStepPastEnd == Spec => [](pc = "try" => node \notin Past)
<1>1. IInv => (pc = "try" => node \notin Past)
  BY DEF IInv, EndInv
<1> QED
  BY <1>1, Invariance, PTL

(* A trace of voltage that returns 0 has stored a point past VStop, and    *)
(* has tried no step from one. The hypothesis is needed for the first: the *)
(* loop compares a potential of 0, and the current of the rejected point,  *)
(* after a rejection, and may end there.                                   *)
THEOREM EndIsReached ==
    ASSUME TraceOfVoltage
    PROVE  Spec => []EndReached
<1>1. IInv => EndReached
  BY TraceOfVoltage DEF IInv, EndInv, EndReached, Past
<1> QED
  BY <1>1, Invariance, PTL

(***************************************************************************)
(* What is left of a trace whose curve lies past the stop from the point N *)
(* on: the way of the stored point to N, the step, which every rejection   *)
(* shortens, the failures that are survived, the place in the loop. The    *)
(* outer loop forgets the failures, so that there the third entry is above *)
(* any number of them.                                                     *)
(***************************************************************************)
Tracing == pc \notin {"done", "aborted"}

Short(N, p) == IF p < N THEN N - p ELSE 0

Way(N) ==
    IF pc \in {"initial", "icheck"} THEN Short(N, V) + 1
    ELSE IF Tracing THEN Short(N, node) ELSE 0

Patience == IF pc = "head" THEN MaxRecovery + 2 ELSE MaxRecovery + 1 - recovery

Place ==
    IF pc \in {"initial", "try"} THEN 2
    ELSE IF pc \in {"icheck", "check"} THEN 1 ELSE 0

Left(N) == <<Way(N), VStep, Patience, Place>>

Measured(N) == Way(N) \in Nat /\ VStep \in Nat /\ Patience \in Nat /\ Place \in Nat

LEMMA ShortType ==
    ASSUME NEW N \in Int, NEW p \in Int
    PROVE  /\ Short(N, p) \in Nat
           /\ \A q \in Int : p < N /\ p < q => Short(N, q) < Short(N, p)
  BY DEF Short

LEMMA LeftType ==
    ASSUME NEW N \in Int, IInv
    PROVE  Measured(N)
<1>1. Way(N) \in Nat
  <2>1. V \in Int /\ (pc \in {"head", "try", "check"} => node \in Int)
    BY DEF IInv, TypeOK, StepInv
  <2>2. pc \in {"initial", "icheck", "head", "try", "check", "done", "aborted"}
    BY DEF IInv, TypeOK
  <2>3. Short(N, V) \in Nat /\ (pc \in {"head", "try", "check"} => Short(N, node) \in Nat)
    BY <2>1, ShortType
  <2> QED
    BY <2>2, <2>3 DEF Way, Tracing
<1>2. Patience \in Nat
  <2>1. MaxRecovery \in Nat /\ recovery \in 0 .. MaxRecovery + 1
    BY TraceAssumption DEF IInv, TypeOK
  <2> QED
    BY <2>1 DEF Patience
<1> QED
  BY <1>1, <1>2 DEF Measured, Place, IInv, TypeOK

(* A solve, and the entry to the inner loop and the exit from the outer.   *)
LEMMA PlaceDescends ==
    ASSUME NEW N \in Int, IInv, IInv', InitialSolve \/ Try \/ Enter \/ Leave
    PROVE  /\ Way(N)' <= Way(N) /\ VStep' = VStep
           /\ \/ Patience' < Patience
              \/ Patience' = Patience /\ Place' < Place
<1>1. V \in Int /\ VStep' = VStep /\ MaxRecovery \in Nat /\ recovery \in 0 .. MaxRecovery + 1
  BY TraceAssumption DEF InitialSolve, Try, Enter, Leave, IInv, TypeOK
<1>2. CASE InitialSolve
  BY <1>1, <1>2, ShortType DEF InitialSolve, Way, Patience, Place
<1>3. CASE Try
  <2>1. node' = node /\ node \in Int
    BY <1>3 DEF Try, SnesSolve, IInv, StepInv
  <2> QED
    BY <1>1, <1>3, <2>1, ShortType DEF Try, Way, Tracing, Patience, Place
<1>4. CASE Enter
  <2>1. node' = node /\ node \in Int
    BY <1>4 DEF Enter, vectorVars, IInv, StepInv
  <2> QED
    BY <1>1, <1>4, <2>1, ShortType DEF Enter, Way, Tracing, Patience
<1>5. CASE Leave
  <2>1. Way(N) \in Nat /\ Way(N)' = 0
    BY <1>5, LeftType DEF Measured, Leave, Way, Tracing
  <2>2. Patience' < Patience
    BY <1>1, <1>5 DEF Leave, Patience
  <2> QED
    BY <1>1, <2>1, <2>2
<1> QED
  BY <1>2, <1>3, <1>4, <1>5

(* A failure shortens nothing when the step is one unit, but is counted.   *)
LEMMA RetryDescends ==
    ASSUME NEW N \in Int, IInv, Retry
    PROVE  Way(N)' <= Way(N) /\ VStep' <= VStep /\ Patience' < Patience
<1>1. /\ pc = "check" /\ pc' \in {"try", "done"} /\ node' = node
      /\ recovery' = recovery + 1 /\ VStep' = Half(VStep)
  BY DEF Retry, Reduced
<1>2. VStep \in Nat \ {0} /\ node \in Int /\ MaxRecovery \in Nat /\ recovery \in Nat
  <2>1. MaxRecovery \in Nat /\ recovery \in 0 .. MaxRecovery + 1
    BY TraceAssumption DEF IInv, TypeOK
  <2> QED
    BY <1>1, <2>1 DEF IInv, TypeOK, StepInv
<1>3. VStep' <= VStep
  BY <1>1, <1>2 DEF Half
<1>4. Way(N)' <= Way(N)
  <2>1. Way(N) = Short(N, node) /\ Way(N)' \in {0, Short(N, node)}
    BY <1>1 DEF Way, Tracing
  <2>2. Short(N, node) \in Nat
    BY <1>2, ShortType
  <2> QED
    BY <2>1, <2>2
<1>5. Patience' < Patience
  BY <1>1, <1>2 DEF Patience
<1> QED
  BY <1>3, <1>4, <1>5

LEMMA RejectDescends ==
    ASSUME NEW N \in Int, IInv, Reject, Resolution >= 1
    PROVE  Way(N)' = Way(N) /\ VStep' < VStep
<1>1. pc = "check" /\ pc' = "head" /\ node' = node /\ VStep' = Half(VStep)
  BY DEF Reject, Reduced
<1>2. VStep \in Nat /\ VStep >= 2
  BY TraceAssumption DEF IInv, TypeOK, Reject
<1>3. VStep' < VStep
  BY <1>1, <1>2 DEF Half
<1>4. Way(N)' = Way(N)
  BY <1>1 DEF Way, Tracing
<1> QED
  BY <1>3, <1>4

LEMMA StoredDescends ==
    ASSUME NEW N \in Int, \A p \in Int : p >= N => p \in Past,
           IInv, IInv', InitialStored \/ InitialFailed \/ Accept
    PROVE  Way(N)' < Way(N)
<1>1. CASE InitialStored
  <2>1. V \in Int /\ node' = V /\ Way(N) = Short(N, V) + 1 /\ Way(N)' = Short(N, V)
    BY <1>1 DEF InitialStored, PostSolve, IInv, TypeOK, Way, Tracing
  <2> QED
    BY <2>1, ShortType
<1>2. CASE InitialFailed
  <2>1. V \in Int /\ Way(N) = Short(N, V) + 1 /\ Way(N)' = 0
    BY <1>2 DEF InitialFailed, IInv, TypeOK, Way, Tracing
  <2> QED
    BY <2>1, ShortType
<1>3. CASE Accept
  <2>1. /\ node \in Int /\ node \notin Past /\ V \in Int /\ V = node + VStep
        /\ VStep \in Nat \ {0}
    BY <1>3 DEF Accept, IInv, TypeOK, StepInv, StepFromStored, EndInv
  <2>2. node < N /\ node < V
    BY <2>1
  <2>3. Way(N) = Short(N, node) /\ Way(N)' \in {0, Short(N, V)}
    BY <1>3 DEF Accept, PostSolve, Way, Tracing
  <2>4. Short(N, V) < Short(N, node) /\ 0 < Short(N, node)
    BY <2>1, <2>2 DEF Short
  <2> QED
    BY <2>3, <2>4
<1> QED
  BY <1>1, <1>2, <1>3

(* If the curve stays past the stop from some point on, and a step as      *)
(* short as Resolution converges and is not rejected, the trace ends after *)
(* finitely many solves: each failure, rejection and stored point uses up  *)
(* some of what is left, although the outer loop sets the failures to 0    *)
(* and stored points let the step grow.                                    *)
THEOREM TraceDescends ==
    ASSUME NEW N \in Int, \A p \in Int : p >= N => p \in Past, Resolution >= 1
    PROVE  Spec => [][Tracing => <<Left(N)', Left(N)>> \in Fewer(4)]_vars
<1>0. IInv' => Measured(N)'
  <2>1. IInv => Measured(N)
    BY LeftType
  <2> QED
    BY <2>1, PTL
<1>1. ASSUME IInv, IInv', Next, Tracing
      PROVE  <<Left(N)', Left(N)>> \in Fewer(4)
  <2>1. /\ Way(N) \in Nat /\ VStep \in Nat /\ Patience \in Nat /\ Place \in Nat
        /\ Way(N)' \in Nat /\ VStep' \in Nat /\ Patience' \in Nat /\ Place' \in Nat
    BY <1>0, <1>1, LeftType DEF Measured
  <2>2. \/ Way(N)' < Way(N)
        \/ Way(N)' = Way(N) /\ VStep' < VStep
        \/ Way(N)' = Way(N) /\ VStep' = VStep /\ Patience' < Patience
        \/ Way(N)' = Way(N) /\ VStep' = VStep /\ Patience' = Patience /\ Place' < Place
    <3>1. CASE InitialSolve \/ Try \/ Enter \/ Leave
      BY <1>1, <2>1, <3>1, PlaceDescends
    <3>2. CASE Retry
      BY <1>1, <2>1, <3>2, RetryDescends
    <3>3. CASE Reject
      BY <1>1, <2>1, <3>3, RejectDescends
    <3>4. CASE InitialStored \/ InitialFailed \/ Accept
      BY <1>1, <2>1, <3>4, StoredDescends
    <3> QED
      BY <1>1, <3>1, <3>2, <3>3, <3>4 DEF Next, Stopped, Tracing
  <2> QED
    BY <2>1, <2>2 DEF Left, Fewer, LexProductOrdering, OpToRel
<1>2. IInv /\ IInv' /\ [Next]_vars => [Tracing => <<Left(N)', Left(N)>> \in Fewer(4)]_vars
  BY <1>1
<1> QED
  BY <1>2, Invariance, PTL DEF Spec
==============================================================================
