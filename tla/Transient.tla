------------------------------ MODULE Transient ------------------------------
(***************************************************************************)
(* DDMSolverBase::solve_transient: the march in time from TStart to TStop. *)
(* A step that does not converge is halved; one that converges but whose   *)
(* local truncation error is too large is rejected and shortened; one that *)
(* is accepted is stored and the next step is found from its error, from   *)
(* the steps before it, from the limits and from the sources.              *)
(*                                                                         *)
(* Times are integers; the tolerance of 1e-10 is smaller than the unit.    *)
(***************************************************************************)
EXTENDS SolutionVector, SequencesExt

CONSTANTS
    TStart, TStop,      \* the interval to march over
    TStep,              \* the first step
    TStepMin,           \* steps this short are accepted whatever their error
    TStepMax,           \* the longest step, 0 for none
    TS_type,            \* the order of the time discretisation
    AutoStep,           \* control the step by the truncation error?
    RejectStep,         \* may it reject a step?
    Predict,            \* extrapolate the next start vector?
    MaxDiverged,        \* this many failures in a row end the analysis (8)
    Window,             \* the average step is taken over so many (5)
    MaxGain             \* the error control grows a step at most so much (6)

ASSUME MarchAssumption ==
    /\ TStart \in Int
    /\ TStop \in Int /\ TStart < TStop
    /\ TStep \in Nat \ {0}
    /\ TStepMin \in Nat
    /\ TStepMax \in Nat
    /\ TS_type \in {"BDF1", "BDF2"}
    /\ AutoStep \in BOOLEAN /\ RejectStep \in BOOLEAN /\ Predict \in BOOLEAN
    /\ MaxDiverged \in Nat \ {0}
    /\ Window \in Nat \ {0}
    /\ MaxGain \in Nat \ {0}

VARIABLES
    pc,                     \* "head" of the loop, "check" of the result,
                            \* "while" at its end, "done"
    clock, dt,              \* the time to solve and the step to it
    T_Cycles,               \* number of accepted steps, counted up to CycleCap
    diverged_retry,         \* failures in a row
    autostep_retry,         \* was the step rejected before?
    dt_last, dt_last_last,  \* the two accepted steps before this one
    node_last,              \* the time of the stored solution before the last
    x_n, x_n1, x_n2,        \* the times of the saved vectors
    time_step_success,      \* the last accepted steps, at most Window of them
    BDF2_LowerOrder,        \* take the first order formula for this step?
    ierr                    \* the error returned

history == <<dt_last, dt_last_last, node_last, x_n, x_n1, x_n2,
             time_step_success, T_Cycles, BDF2_LowerOrder>>
marchVars == <<pc, clock, dt, diverged_retry, autostep_retry, history, ierr>>
vars == <<vectorVars, marchVars>>

CycleCap == 3               \* T_Cycles is compared with 0, 2 and 3 only

Smaller(a, b) == IF a < b THEN a ELSE b
Larger(a, b) == IF a < b THEN b ELSE a

------------------------------------------------------------------------------
(* The history the extrapolation and the error estimate read has been      *)
(* accepted in this march: two solutions, or three for the second order.   *)
(* Slip: one solution too early.                                           *)
OneCycleShort == T_Cycles >= IF TS_type = "BDF1" THEN 1 ELSE 2
HistoryReady == T_Cycles >= IF TS_type = "BDF1" THEN 2 ELSE 3

(* Are the vectors saved?                                                  *)
Saves == AutoStep \/ Predict

(* The start vector of the next solve. When there is history it is built   *)
(* anew from the saved vectors, whatever x held.                           *)
Projected(x0, cyclesReady) == IF Predict /\ cyclesReady THEN "projected" ELSE x0

(* The loop goes on as long as the next time is less than half a step      *)
(* past the stop.                                                          *)
Continues(t, d) == 2 * t < 2 * TStop + d

(* After a rejection the step is cut to less than 0.9 * 0.9 of its length; *)
(* slip: it may keep its length.                                           *)
RejectedStepsUncut == 1 .. dt
RejectedSteps == 1 .. (81 * dt) \div 100

MayReject == RejectStep /\ dt > TStepMin

(* The next step as the error estimate r asks for it, r = 1 being just as  *)
(* large as allowed: 0.9 of this one or less when r < 1, the same, or (not *)
(* right after a failure or a rejection) a longer one. Without the control *)
(* of the error a step shorter than the first one grows by a tenth.        *)
Shrunk == IF MayReject THEN {(9 * dt) \div 10} ELSE 0 .. (9 * dt) \div 10

Scaled ==
    IF AutoStep /\ HistoryReady
    THEN Shrunk \cup
         (dt .. IF autostep_retry \/ diverged_retry > 0 THEN dt ELSE MaxGain * dt)
    ELSE {IF dt < TStep THEN (11 * dt) \div 10 ELSE dt}

(* The steps the average is taken over, and twice the average. Slip: the   *)
(* oldest one is never dropped.                                            *)
RecentAll == Append(time_step_success, dt)
Recent ==
    LET all == Append(time_step_success, dt)
    IN  IF Len(all) > Window THEN Tail(all) ELSE all

TwiceAverage(steps) == (2 * FoldSeq(LAMBDA a, b : a + b, 0, steps)) \div Len(steps)

(* The step between TStepMin and TStepMax; a step of less than a unit      *)
(* counts as one unit.                                                     *)
Bounded(d) ==
    LET up == Larger(d, Larger(TStepMin, 1))
    IN  IF TStepMax > 0 THEN Smaller(up, TStepMax) ELSE up

(* The steps the sources may shorten a step of d to: by factors of 0.9     *)
(* while it is longer than TStepMin, or to a corner of a waveform that is  *)
(* at least TStepMin away.                                                 *)
limit_dt(d) == {e \in 1 .. d : e = d \/ 10 * e >= 9 * TStepMin}

(* A step of d that would end less than d past TStop ends there instead.   *)
(* Slip: only a step of which more than half lies before TStop.            *)
NearStop(t, d) == t > TStop /\ 2 * t < 2 * TStop + d
PastStop(t, d) == t > TStop /\ t < TStop + d

(* A slip at the start: the second order formula at once.                  *)
SecondOrderAtOnce == FALSE
LowerOrderAtStart == TRUE

(* Slip: the clock does not follow the halved step.                        *)
ClockKept(t, d) == t

(* Half a step, in whole units but at least one.                           *)
Half(d) == (d + 1) \div 2

(* The time half a step earlier.                                           *)
ClockBack(t, d) == Larger(t - d, TStart)

------------------------------------------------------------------------------
Init ==
    /\ VectorInit(TStart)
    /\ pc = "head"
    /\ clock = TStart + TStep
    /\ dt = TStep
    /\ T_Cycles = 0
    /\ diverged_retry = 0
    /\ autostep_retry = FALSE
    /\ dt_last = Prior /\ dt_last_last = Prior
    /\ node_last = Prior
    /\ x_n = Prior /\ x_n1 = Prior /\ x_n2 = Prior
    /\ time_step_success = << >>
    /\ BDF2_LowerOrder = LowerOrderAtStart
    /\ ierr = 0

Solve ==
    /\ pc = "head"
    /\ SnesSolve(PreSolve(T_Cycles = 0), TRUE)
    /\ pc' = "check"
    /\ UNCHANGED <<clock, dt, diverged_retry, autostep_retry, history, ierr>>

Retry ==
    /\ pc = "check"
    /\ reason = "diverged"
    /\ diverged_retry' = diverged_retry + 1
    /\ diverged_retry' < MaxDiverged
    /\ dt' = Half(dt)
    /\ clock' = ClockBack(clock, dt - dt')
    /\ x' = Projected(DivergedRecovery, HistoryReady)
    /\ pc' = "while"
    /\ UNCHANGED <<node, ve, ls, reason, autostep_retry, history, ierr>>

GiveUp ==
    /\ pc = "check"
    /\ reason = "diverged"
    /\ diverged_retry' = diverged_retry + 1
    /\ diverged_retry' >= MaxDiverged
    /\ ierr' = 1
    /\ pc' = "done"
    /\ UNCHANGED <<vectorVars, clock, dt, autostep_retry, history>>

(* The start vector is interpolated between the rejected solution and x_n. *)
Reject ==
    /\ pc = "check"
    /\ reason = "converged"
    /\ AutoStep /\ HistoryReady /\ MayReject
    /\ diverged_retry' = 0
    /\ autostep_retry' = TRUE
    /\ dt' \in RejectedSteps
    /\ clock' = clock - dt + dt'
    /\ x' = "projected"
    /\ pc' = "while"
    /\ UNCHANGED <<node, ve, ls, reason, history, ierr>>

Accept ==
    /\ pc = "check"
    /\ reason = "converged"
    /\ PostSolve(clock)
    /\ node_last' = node
    /\ time_step_success' = Recent
    /\ diverged_retry' = 0
    /\ autostep_retry' = (autostep_retry /\ ~(AutoStep /\ HistoryReady))
    /\ T_Cycles' = IF T_Cycles < CycleCap THEN T_Cycles + 1 ELSE T_Cycles
    /\ dt_last_last' = dt_last
    /\ dt_last' = dt
    /\ \E d \in Scaled :
          \E e \in limit_dt(Bounded(Smaller(TwiceAverage(Recent), d))) :
             IF PastStop(clock + e, e)
             THEN clock' = TStop /\ dt' = e - (clock + e - TStop)
             ELSE clock' = clock + e /\ dt' = e
    /\ BDF2_LowerOrder' \in IF TS_type = "BDF2" THEN BOOLEAN ELSE {BDF2_LowerOrder}
    /\ IF Saves THEN x_n2' = x_n1 /\ x_n1' = x_n /\ x_n' = clock
                ELSE UNCHANGED <<x_n, x_n1, x_n2>>
    /\ x' = Projected("node", HistoryReady')
    /\ pc' = "while"
    /\ UNCHANGED <<ls, reason, ierr>>

(* The body has run once before the condition is evaluated.                *)
While ==
    /\ pc = "while"
    /\ pc' = IF Continues(clock, dt) THEN "head" ELSE "done"
    /\ UNCHANGED <<vectorVars, clock, dt, diverged_retry, autostep_retry, history, ierr>>

Done == pc = "done" /\ UNCHANGED vars

Next == Solve \/ Retry \/ GiveUp \/ Reject \/ Accept \/ While \/ Done

Spec == Init /\ [][Next]_vars

(* The loop is one thread: while it can step, it does.                     *)
FairSpec == Spec /\ WF_vars(Next)

------------------------------------------------------------------------------
(* Every variable keeps its type: no step is empty, no more than           *)
(* MaxDiverged failures and Window steps are counted.                      *)
Points == Int \cup {Prior}

TypeOK ==
    /\ VectorType
    /\ pc \in {"head", "check", "while", "done"}
    /\ clock \in Int /\ dt \in Nat \ {0}
    /\ T_Cycles \in 0 .. CycleCap
    /\ diverged_retry \in 0 .. MaxDiverged
    /\ autostep_retry \in BOOLEAN
    /\ dt_last \in Nat \cup {Prior} /\ dt_last_last \in Nat \cup {Prior}
    /\ node_last \in Points
    /\ x_n \in Points /\ x_n1 \in Points /\ x_n2 \in Points
    /\ time_step_success \in Seq(Nat \ {0})
    /\ Len(time_step_success) <= Window
    /\ BDF2_LowerOrder \in BOOLEAN
    /\ ierr \in {0, 1}

(* The step that is solved always starts where the stored solution ends,   *)
(* whatever was halved, rejected or clipped: no time is left out and none  *)
(* is integrated twice. The sources are set to this clock.                 *)
ClockMatches == pc # "done" => clock = node + dt

(* The saved vectors and the steps between them, which the extrapolation   *)
(* and the error estimate divide by, are those of the last accepted        *)
(* solutions whenever they are read.                                       *)
HistoryMatches ==
    (AutoStep \/ Predict) /\ HistoryReady =>
        /\ x_n = node
        /\ x_n \in Int /\ x_n1 \in Int
        /\ dt_last = x_n - x_n1
        /\ TS_type = "BDF2" => /\ x_n2 \in Int
                               /\ dt_last_last = x_n1 - x_n2

(* The second order formula reads the two stored solutions and dt_last as  *)
(* the time between them: they exist and are that far apart, also when the *)
(* step is tried again after a failure or a rejection.                     *)
SecondOrderReady ==
    TS_type = "BDF2" /\ ~BDF2_LowerOrder =>
        node_last \in Int /\ node \in Int /\ dt_last = node - node_last

(* Halving, rejecting and clipping cannot go on for ever.                  *)
Terminates == <>(pc = "done")

(* The march implements the chain of solutions that Continuation promises. *)
CN == INSTANCE Continuation WITH
    Origin <- TStart, First <- {}, Stop <- TStop, MaxStep <- TStop - TStart,
    accepted <- node,
    status <- IF pc # "done" THEN "running"
              ELSE IF ierr = 1 THEN "failed" ELSE "complete"

Promise == CN!Spec
==============================================================================
