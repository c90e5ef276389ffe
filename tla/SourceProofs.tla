----------------------------- MODULE SourceProofs -----------------------------
(***************************************************************************)
(* Proofs about the sources of electrodes: what drives them, which is      *)
(* Session, and how far they let a march step, which is StepLimit. The two *)
(* share no variable.                                                      *)
(*                                                                         *)
(* Session: every deck of cards, for any set of electrodes, of contacts    *)
(* and of sources. The state that is carried from one card to the next     *)
(* makes the cards before it matter; the invariants say how much.          *)
(*                                                                         *)
(* StepLimit: any number of electrodes with any number of sources. What is *)
(* to be shown is about all times within a step, what the code computes is *)
(* about at most nine of them.                                             *)
(***************************************************************************)
EXTENDS Session, StepLimit, WellFoundedInduction, TLAPS


Drives == [drv : [Electrodes -> {"V", "I"}],
           V : [Electrodes -> VSources \cup {"zero", "scan", "ramp"}],
           I : [Electrodes -> ISources \cup {"zero", "scan", "ramp"}]]

(* The kinds of drives a Begin action sets are drives.                     *)
LEMMA DriveTypes ==
    ASSUME TypeOK
    PROVE  /\ Now \in Drives
           /\ \A d \in Drives :
                 /\ Updated(d) \in Drives
                 /\ Grounded(d) \in Drives
                 /\ Scanned(d) \in Drives
                 /\ Partly(d) \in Drives
<1>1. Now \in Drives
  BY DEF TypeOK, Now, Drives
<1>2. ASSUME NEW d \in Drives PROVE Updated(d) \in Drives
  BY <1>2 DEF Drives, Updated
<1>3. ASSUME NEW d \in Drives PROVE Grounded(d) \in Drives
  BY <1>3 DEF Drives, Grounded
<1>4. ASSUME NEW d \in Drives PROVE Scanned(d) \in Drives
  BY <1>4 DEF Drives, Scanned
<1>5. ASSUME NEW d \in Drives PROVE Partly(d) \in Drives
  BY <1>5 DEF Drives, Partly
<1> QED
  BY <1>1, <1>2, <1>3, <1>4, <1>5

(* An electrode with a source follows it once the sources are updated,     *)
(* whatever it followed before; one without keeps its drive.               *)
LEMMA FollowsSource ==
    ASSUME TypeOK, NEW d \in Drives, NEW e \in Electrodes
    PROVE  /\ source[e] # "none" =>
                 /\ Updated(d).drv[e] = IF source[e] \in VSources THEN "V" ELSE "I"
                 /\ IF source[e] \in VSources THEN Updated(d).V[e] = source[e]
                                              ELSE Updated(d).I[e] = source[e]
           /\ source[e] = "none" =>
                 Updated(d).drv[e] = d.drv[e] /\ Updated(d).V[e] = d.V[e]
<1>1. source[e] \in VSources \cup ISources \cup {"none"}
  BY DEF TypeOK, Sources
<1>2. "none" \notin VSources /\ VSources \cap ISources = {}
  BY DeckAssumption DEF Sources
<1> QED
  BY <1>1, <1>2 DEF Updated

(* A scan takes its electrodes over and leaves the others alone.           *)
LEMMA FollowsScan ==
    ASSUME TypeOK, NEW d \in Drives, NEW e \in Electrodes
    PROVE  /\ e \in Electrode_VScan =>
                 Scanned(d).drv[e] = "V" /\ Scanned(d).V[e] = "scan"
           /\ e \in Electrode_IScan =>
                 Scanned(d).drv[e] = "I" /\ Scanned(d).I[e] = "scan"
           /\ e \notin Electrode_VScan \cup Electrode_IScan =>
                 /\ Scanned(d).drv[e] = d.drv[e]
                 /\ Scanned(d).V[e] = d.V[e] /\ Scanned(d).I[e] = d.I[e]
  BY DEF TypeOK, Scanned

------------------------------------------------------------------------------
LEMMA InitType == Init => TypeOK
<1> SUFFICES ASSUME Init PROVE TypeOK
  OBVIOUS
<1>1. /\ PseudoTimeMethod \in BOOLEAN /\ TimeDependent \in BOOLEAN
      /\ tran_histroy \in BOOLEAN /\ failed \in BOOLEAN
  BY Zenon DEF Init
<1> QED
  BY <1>1 DEF Init, TypeOK

LEMMA CardsKeepType ==
    ASSUME TypeOK,
           \/ Method \/ Attach \/ SolveEquilibrium \/ SolveSteady
           \/ SolveScan \/ SolveTrace \/ SolveTransient
    PROVE  TypeOK'
<1> USE DEF scans, drives
<1>1. CASE Method
  BY <1>1 DEF Method, TypeOK, Analyses
<1>2. CASE Attach
  <2>1. \E s \in Sources : \E reached : source' = Given(source, reached, s)
    BY <1>2 DEF Attach
  <2>2. source' \in [Electrodes -> Sources \cup {"none"}]
    BY <2>1 DEF TypeOK, Given
  <2> QED
    BY <1>2, <2>2 DEF Attach, TypeOK
<1>3. CASE SolveEquilibrium
  BY <1>3 DEF SolveEquilibrium, Command, TypeOK, Analyses
<1>4. CASE SolveSteady
  <2>1. source' \in [Electrodes -> Sources \cup {"none"}]
    BY <1>4 DEF SolveSteady, TypeOK, Given
  <2>2. PseudoTimeMethod' \in BOOLEAN
    BY <1>4 DEF SolveSteady
  <2> QED
    BY <1>4, <2>1, <2>2 DEF SolveSteady, Command, TypeOK, Analyses
<1>5. CASE SolveScan
  BY <1>5 DEF SolveScan, Command, TypeOK, Analyses
<1>6. CASE SolveTrace
  BY <1>6 DEF SolveTrace, Command, TypeOK, Analyses
<1>7. CASE SolveTransient
  <2>1. tran_histroy' \in BOOLEAN
    BY <1>7 DEF SolveTransient, TypeOK
  <2>2. TimeDependent' \in BOOLEAN
    BY <1>7, Zenon DEF SolveTransient
  <2> QED
    BY <1>7, <2>1, <2>2 DEF SolveTransient, Command, TypeOK, Analyses
<1> QED
  BY <1>1, <1>2, <1>3, <1>4, <1>5, <1>6, <1>7

(* The drives an analysis starts with.                                     *)
StartDrives ==
    /\ Type = "EQUILIBRIUM" => Drive(Grounded(Updated(Now)))
    /\ Type \in {"STEADYSTATE", "TRANSIENT"} => Drive(Updated(Now))
    /\ Type = "OP" => Drive(Updated(Now)) \/ Drive(Partly(Updated(Now)))
    /\ Type = "DCSWEEP" => Drive(SweepDrives)
    /\ Type = "TRACE" => Drive(TraceDrives)

Begins ==
    \/ BeginEquilibrium \/ BeginSteady \/ BeginOp \/ BeginSweep \/ BeginTrace
    \/ BeginTransient

LEMMA BeginsAsTyped ==
    ASSUME TypeOK, Begins
    PROVE  /\ pc = "begin" /\ pc' = "solve"
           /\ Type \in Analyses
           /\ StartDrives
           /\ UNCHANGED <<Type, scans, PseudoTimeMethod, source, stored, failed>>
           /\ tran_histroy' = tran_histroy \/ tran_histroy' = FALSE
           /\ TimeDependent' \in BOOLEAN
<1> USE DEF Begin, StartDrives, Analyses, NoHistory
<1>1. CASE BeginEquilibrium
  BY <1>1 DEF BeginEquilibrium
<1>2. CASE BeginSteady
  BY <1>2 DEF BeginSteady
<1>3. CASE BeginOp
  BY <1>3 DEF BeginOp
<1>4. CASE BeginSweep
  BY <1>4 DEF BeginSweep
<1>5. CASE BeginTrace
  BY <1>5 DEF BeginTrace
<1>6. CASE BeginTransient
  <2>1. TimeDependent' \in BOOLEAN
    BY <1>6, Zenon DEF BeginTransient
  <2> QED
    BY <1>6, <2>1 DEF BeginTransient
<1> QED
  BY <1>1, <1>2, <1>3, <1>4, <1>5, <1>6 DEF Begins

LEMMA BeginsKeepType == TypeOK /\ Begins => TypeOK'
<1> SUFFICES ASSUME TypeOK, Begins PROVE TypeOK'
  OBVIOUS
<1>1. PICK d \in Drives : Drive(d)
  BY BeginsAsTyped, DriveTypes DEF StartDrives, SweepDrives, TraceDrives, Analyses
<1>2. /\ drv' \in [Electrodes -> {"V", "I"}]
      /\ Vapp' \in [Electrodes -> VSources \cup {"zero", "scan", "ramp"}]
      /\ Iapp' \in [Electrodes -> ISources \cup {"zero", "scan", "ramp"}]
  BY <1>1 DEF Drive, Drives
<1>3. tran_histroy' \in BOOLEAN
  BY BeginsAsTyped DEF TypeOK
<1> QED
  BY <1>2, <1>3, BeginsAsTyped DEF TypeOK, scans

LEMMA EndKeepsType == TypeOK /\ End => TypeOK'
<1> SUFFICES ASSUME TypeOK, End PROVE TypeOK'
  OBVIOUS
<1>1. stored' \in {"none", "dc", "tran"}
  BY DEF End, TypeOK
<1>2. tran_histroy' \in BOOLEAN
  BY Zenon DEF End, NoHistory
<1>3. failed' \in BOOLEAN
  BY DEF End
<1>4. pc' = "deck" /\ UNCHANGED <<Type, scans, PseudoTimeMethod, TimeDependent, source, drives>>
  BY DEF End
<1> QED
  BY <1>1, <1>2, <1>3, <1>4 DEF TypeOK, scans, drives

LEMMA NextKeepsType == TypeOK /\ [Next]_vars => TypeOK'
<1> SUFFICES ASSUME TypeOK, [Next]_vars PROVE TypeOK'
  OBVIOUS
<1>1. CASE UNCHANGED vars
  BY <1>1 DEF vars, scans, drives, TypeOK
<1> QED
  BY <1>1, CardsKeepType, BeginsKeepType, EndKeepsType DEF Next, Begins

(* Type correctness. Part of it, on which the sweep and the trace rely, is *)
(* that voltages and currents are never scanned together: SOLVE clears the *)
(* scan of the other kind when it reads VScan or IScan.                    *)
THEOREM TypeCorrect == Spec => []TypeOK
  BY InitType, NextKeepsType, PTL DEF Spec

------------------------------------------------------------------------------
LEMMA BeginsAsCommanded ==
    ASSUME TypeOK, Begins
    PROVE  DriveAsCommanded'
<1> SUFFICES ASSUME NEW e \in Electrodes
             PROVE  IF Type = "EQUILIBRIUM" THEN Applied(e)' = "zero"
                    ELSE IF Type = "DCSWEEP" /\ e \in Electrode_VScan
                         THEN drv'[e] = "V" /\ Vapp'[e] = "scan"
                    ELSE IF Type = "DCSWEEP" /\ e \in Electrode_IScan
                         THEN drv'[e] = "I" /\ Iapp'[e] = "scan"
                    ELSE IF source[e] # "none"
                         THEN /\ drv'[e] = IF source[e] \in VSources THEN "V" ELSE "I"
                              /\ Applied(e)' \in {source[e]}
                                     \cup (IF Type = "OP" THEN {"ramp"} ELSE {})
                    ELSE Type = "TRACE" /\ e \in Electrode_VScan =>
                             drv'[e] = "V" /\ Vapp'[e] = "scan"
  <2>1. UNCHANGED <<Type, scans, PseudoTimeMethod, source, stored, failed>>
    BY BeginsAsTyped
  <2>2. UNCHANGED <<Type, Electrode_VScan, Electrode_IScan, source>>
    BY <2>1 DEF scans
  <2> QED
    BY <2>2 DEF DriveAsCommanded
<1>1. StartDrives /\ Type \in Analyses
  BY BeginsAsTyped
<1>2. Now \in Drives /\ Updated(Now) \in Drives /\ Scanned(Now) \in Drives
  BY DriveTypes
<1>3. source[e] \in VSources \cup ISources \cup {"none"}
  BY DEF TypeOK, Sources
<1> USE DEF Applied, Drive
<1>4. CASE Type = "EQUILIBRIUM"
  BY <1>1, <1>4 DEF StartDrives, Grounded
<1>5. CASE Type \in {"STEADYSTATE", "TRANSIENT"}
  BY <1>1, <1>2, <1>3, <1>5, FollowsSource DEF StartDrives
<1>6. CASE Type = "OP"
  <2>1. Updated(Now).drv = Partly(Updated(Now)).drv
    BY DEF Partly, Updated
  <2>2. /\ source[e] \in VSources => Partly(Updated(Now)).V[e] = "ramp"
        /\ source[e] \in ISources => Partly(Updated(Now)).I[e] = "ramp"
    BY <1>2 DEF Partly, Drives
  <2> QED
    BY <1>1, <1>2, <1>3, <1>6, <2>1, <2>2, FollowsSource DEF StartDrives
<1>7. CASE Type = "DCSWEEP"
  BY <1>1, <1>2, <1>3, <1>7, FollowsSource, FollowsScan DEF StartDrives, SweepDrives
<1>8. CASE Type = "TRACE"
  BY <1>1, <1>2, <1>3, <1>8, FollowsSource, FollowsScan DEF StartDrives, TraceDrives
<1> QED
  BY <1>1, <1>4, <1>5, <1>6, <1>7, <1>8 DEF Analyses

(* While an analysis solves, every electrode is driven as the cards of the *)
(* deck say, whatever cards and analyses came before: the analyses leave   *)
(* the electrodes at the end of a scan, of a ramp, or grounded.            *)
THEOREM DrivenAsCommanded == Spec => []DriveAsCommanded
<1>1. Init => DriveAsCommanded
  BY DEF Init, DriveAsCommanded
<1>2. TypeOK /\ DriveAsCommanded /\ [Next]_vars => DriveAsCommanded'
  <2> SUFFICES ASSUME TypeOK, DriveAsCommanded, [Next]_vars PROVE DriveAsCommanded'
    OBVIOUS
  <2>1. CASE UNCHANGED vars
    BY <2>1 DEF vars, scans, drives, DriveAsCommanded, Applied
  <2>2. CASE Begins
    BY <2>2, BeginsAsCommanded
  <2>3. CASE End \/ Method \/ Attach
    BY <2>3 DEF End, Method, Attach, DriveAsCommanded
  <2>4. CASE SolveEquilibrium \/ SolveSteady \/ SolveScan \/ SolveTrace \/ SolveTransient
    <3>1. pc' = "begin"
      BY <2>4 DEF SolveEquilibrium, SolveSteady, SolveScan, SolveTrace, SolveTransient, Command
    <3> QED
      BY <3>1 DEF DriveAsCommanded
  <2> QED
    BY <2>1, <2>2, <2>3, <2>4 DEF Next, Begins
<1> QED
  BY <1>1, <1>2, TypeCorrect, PTL DEF Spec

------------------------------------------------------------------------------
(* The history a transient analysis claims, at any card of the deck. It is *)
(* stronger than HistoryTrue: the claim is made at the end of one analysis *)
(* and read at the beginning of another, with any cards in between.        *)
HistoryInv == tran_histroy => stored = "tran" \/ failed

(* A transient analysis that skips the initialisation goes on from the     *)
(* solution of another one, or from one that has failed, in every deck     *)
(* that leaves the claim to the analyses: none of its SOLVE cards sets     *)
(* tran.histroy itself.                                                    *)
THEOREM HistoryIsTrue ==
    ASSUME "tran.histroy" \notin Cards
    PROVE  Spec => []HistoryTrue
<1>1. Init => HistoryInv
  BY DEF Init, HistoryInv
<1>2. TypeOK /\ HistoryInv /\ [Next]_vars => HistoryInv'
  <2> SUFFICES ASSUME TypeOK, HistoryInv, [Next]_vars PROVE HistoryInv'
    OBVIOUS
  <2> USE DEF HistoryInv
  <2>1. CASE UNCHANGED vars
    BY <2>1 DEF vars
  <2>2. CASE Begins
    BY <2>2, BeginsAsTyped
  <2>3. CASE End
    BY <2>3 DEF End, NoHistory
  <2>4. CASE SolveTransient
    BY <2>4 DEF SolveTransient
  <2>5. CASE Method \/ Attach \/ SolveEquilibrium \/ SolveSteady \/ SolveScan \/ SolveTrace
    BY <2>5 DEF Method, Attach, SolveEquilibrium, SolveSteady, SolveScan, SolveTrace
  <2> QED
    BY <2>1, <2>2, <2>3, <2>4, <2>5 DEF Next, Begins
<1>3. HistoryInv => HistoryTrue
  BY DEF HistoryInv, HistoryTrue
<1> QED
  BY <1>1, <1>2, <1>3, TypeCorrect, PTL DEF Spec

------------------------------------------------------------------------------
(* Integers: division with remainder, and that it is unique and monotone.  *)
LEMMA Division ==
    ASSUME NEW a \in Int, NEW n \in Nat \ {0}
    PROVE  /\ a \div n \in Int /\ a % n \in 0 .. n - 1
           /\ a = n * (a \div n) + (a % n)
OBVIOUS

LEMMA DivisionUnique ==
    ASSUME NEW a \in Int, NEW n \in Nat \ {0}, NEW q \in Int, NEW r \in 0 .. n - 1,
           a = n * q + r
    PROVE  a \div n = q /\ a % n = r
<1>1. /\ a \div n \in Int /\ a % n \in 0 .. n - 1
      /\ a = n * (a \div n) + (a % n)
  BY Division
<1> DEFINE d == a \div n - q
<1>2. n * d = r - (a % n)
  BY <1>1
<1>3. d \in Int /\ ~(d >= 1) /\ ~(d <= -1)
  <2>1. d \in Int
    BY <1>1
  <2> HIDE DEF d
  <2>2. d >= 1 => n * d >= n
    BY <2>1
  <2>3. d <= -1 => n * d <= -n
    BY <2>1
  <2> QED BY <2>1, <2>2, <2>3, <1>2, <1>1
<1>4. d = 0
  BY <1>3
<1> QED BY <1>1, <1>4

LEMMA DivisionMonotone ==
    ASSUME NEW a \in Int, NEW b \in Int, a <= b, NEW n \in Nat \ {0}
    PROVE  a \div n <= b \div n
<1>1. /\ a \div n \in Int /\ a % n \in 0 .. n - 1 /\ a = n * (a \div n) + (a % n)
      /\ b \div n \in Int /\ b % n \in 0 .. n - 1 /\ b = n * (b \div n) + (b % n)
  BY Division
<1> DEFINE d == b \div n - a \div n
<1>2. d \in Int /\ n * d = b - a + (a % n) - (b % n)
  BY <1>1
<1>3. n * d > -n
  BY <1>1, <1>2
<1> HIDE DEF d
<1>4. d <= -1 => n * d <= -n
  BY <1>2
<1>5. d >= 0
  BY <1>2, <1>3, <1>4
<1> QED BY <1>1, <1>5 DEF d

------------------------------------------------------------------------------
(* The slopes of a pulse: h times a over n, rounded down.                  *)
LEMMA Slope ==
    ASSUME NEW n \in Nat \ {0}, NEW h \in Int, NEW a \in 0 .. n, NEW b \in 0 .. n, a <= b
    PROVE  /\ (a * h) \div n \in Int /\ (b * h) \div n \in Int
           /\ h >= 0 => (a * h) \div n <= (b * h) \div n
           /\ h <= 0 => (b * h) \div n <= (a * h) \div n
           /\ (0 * h) \div n = 0
           /\ (n * h) \div n = h
<1>1. a * h \in Int /\ b * h \in Int
  OBVIOUS
<1>2. h >= 0 => a * h <= b * h
  <2>1. h >= 0 => (b - a) * h >= 0
    OBVIOUS
  <2> QED BY <2>1
<1>3. h <= 0 => b * h <= a * h
  <2>1. h <= 0 => (b - a) * h <= 0
    OBVIOUS
  <2> QED BY <2>1
<1>4. (0 * h) \div n = 0
  <2>1. 0 * h = n * 0 + 0
    OBVIOUS
  <2> QED BY <2>1, DivisionUnique, 0 * h \in Int
<1>5. (n * h) \div n = h
  <2>1. n * h = n * h + 0 /\ n * h \in Int
    OBVIOUS
  <2> QED BY <2>1, DivisionUnique
<1>6. (a * h) \div n \in Int /\ (b * h) \div n \in Int
  BY <1>1, Division
<1>7. h >= 0 => (a * h) \div n <= (b * h) \div n
  BY <1>1, <1>2, DivisionMonotone
<1>8. h <= 0 => (b * h) \div n <= (a * h) \div n
  BY <1>1, <1>3, DivisionMonotone
<1> QED
  BY <1>4, <1>5, <1>6, <1>7, <1>8

(* y is nowhere beyond x and z, whichever is the larger.                   *)
Between(x, y, z) == (x <= y /\ y <= z) \/ (z <= y /\ y <= x)

LEMMA PulseFields ==
    ASSUME NEW s \in Pulses
    PROVE  /\ s.kind = "pulse"
           /\ s.td \in Int /\ s.tr \in Nat /\ s.tf \in Nat /\ s.pw \in Nat
           /\ s.pr \in Nat \ {0} /\ s.v1 \in Int /\ s.v2 \in Int
           /\ s.tr + s.pw + s.tf <= s.pr
           /\ MaxStep < 2 * s.pr \/ s.td < 2 * s.pr
BY DEF Pulses

(* The value of a pulse in each part of its period.                        *)
LEMMA PulseParts ==
    ASSUME NEW s \in Pulses, ~Jumps(s), NEW w \in 0 .. s.pr
    PROVE  /\ Pulse(s, w) \in Int
           /\ w <= s.tr => Pulse(s, w) = s.v1 + ((w * (s.v2 - s.v1)) \div s.tr)
           /\ s.tr <= w /\ w < s.tr + s.pw => Pulse(s, w) = s.v2
           /\ s.tr + s.pw <= w /\ w <= s.tr + s.pw + s.tf /\ s.tf > 0 =>
                 Pulse(s, w) = s.v2 - (((w - s.tr - s.pw) * (s.v2 - s.v1)) \div s.tf)
           /\ s.tr + s.pw + s.tf <= w => Pulse(s, w) = s.v1
<1> DEFINE h == s.v2 - s.v1
<1>f. /\ s.kind = "pulse"
      /\ s.td \in Int /\ s.tr \in Nat /\ s.tf \in Nat /\ s.pw \in Nat
      /\ s.pr \in Nat \ {0} /\ s.v1 \in Int /\ s.v2 \in Int
      /\ s.tr + s.pw + s.tf <= s.pr
      /\ s.tr > 0 /\ s.pw + s.tf > 0 /\ h \in Int /\ w \in Int /\ 0 <= w /\ w <= s.pr
  BY PulseFields DEF Jumps
<1>r. ASSUME w <= s.tr
      PROVE  (w * h) \div s.tr \in Int /\ (w = s.tr => (w * h) \div s.tr = h)
  <2>1. w \in 0 .. s.tr
    BY <1>f, <1>r
  <2> HIDE DEF h
  <2> QED BY <1>f, <2>1, Slope
<1>d. ASSUME s.tr + s.pw <= w, w <= s.tr + s.pw + s.tf, s.tf > 0
      PROVE  /\ ((w - s.tr - s.pw) * h) \div s.tf \in Int
             /\ w = s.tr + s.pw => ((w - s.tr - s.pw) * h) \div s.tf = 0
             /\ w = s.tr + s.pw + s.tf => ((w - s.tr - s.pw) * h) \div s.tf = h
  <2>1. w - s.tr - s.pw \in 0 .. s.tf /\ s.tf \in Nat \ {0}
    BY <1>f, <1>d
  <2>2. /\ w = s.tr + s.pw => w - s.tr - s.pw = 0
        /\ w = s.tr + s.pw + s.tf => w - s.tr - s.pw = s.tf
    BY <1>f
  <2> HIDE DEF h
  <2> QED BY <1>f, <2>1, <2>2, Slope
<1>1. w < s.tr => Pulse(s, w) = s.v1 + ((w * h) \div s.tr)
  BY <1>f DEF Pulse
<1>2. s.tr <= w /\ w < s.tr + s.pw => Pulse(s, w) = s.v2
  BY <1>f DEF Pulse
<1>3. s.tr + s.pw <= w /\ w < s.tr + s.pw + s.tf =>
         Pulse(s, w) = s.v2 - (((w - s.tr - s.pw) * h) \div s.tf)
  BY <1>f DEF Pulse
<1>4. s.tr + s.pw + s.tf <= w => Pulse(s, w) = s.v1
  BY <1>f DEF Pulse
<1>5. s.v1 + h = s.v2 /\ s.v2 - h = s.v1 /\ s.v2 - 0 = s.v2
  BY <1>f
<1>6. ASSUME w = s.tr PROVE Pulse(s, w) = s.v1 + ((w * h) \div s.tr)
  <2> HIDE DEF h
  <2>1. CASE s.pw > 0
    BY <1>6, <2>1, <1>f, <1>2, <1>r, <1>5
  <2>2. CASE s.pw = 0
    <3>1. /\ s.tr + s.pw <= w /\ w < s.tr + s.pw + s.tf /\ w <= s.tr + s.pw + s.tf
          /\ w = s.tr + s.pw /\ s.tf > 0
      BY <1>6, <2>2, <1>f
    <3>2. Pulse(s, w) = s.v2 - 0
      BY <3>1, <1>3, <1>d, Zenon
    <3>3. (w * h) \div s.tr = h
      BY <1>6, <1>r, <1>f
    <3> QED BY <3>2, <3>3, <1>5, Zenon
  <2>3. s.pw > 0 \/ s.pw = 0
    BY <1>f
  <2> QED BY <2>1, <2>2, <2>3, Zenon
<1>7. ASSUME s.tr + s.pw <= w, w <= s.tr + s.pw + s.tf, s.tf > 0
      PROVE  Pulse(s, w) = s.v2 - (((w - s.tr - s.pw) * h) \div s.tf)
  <2> HIDE DEF h
  <2>1. CASE w = s.tr + s.pw + s.tf
    BY <1>7, <2>1, <1>f, <1>d, <1>4, <1>5
  <2>2. CASE w < s.tr + s.pw + s.tf
    BY <1>7, <2>2, <1>3
  <2>3. w = s.tr + s.pw + s.tf \/ w < s.tr + s.pw + s.tf
    BY <1>7, <1>f
  <2> QED BY <2>1, <2>2, <2>3, Zenon
<1>8. Pulse(s, w) \in Int
  <2> HIDE DEF h
  <2>1. CASE w < s.tr
    BY <2>1, <1>f, <1>1, <1>r
  <2>2. CASE s.tr <= w /\ w < s.tr + s.pw
    BY <2>2, <1>f, <1>2
  <2>3. CASE s.tr + s.pw <= w /\ w < s.tr + s.pw + s.tf
    BY <2>3, <1>f, <1>3, <1>d
  <2>4. CASE s.tr + s.pw + s.tf <= w
    BY <2>4, <1>f, <1>4
  <2> QED BY <2>1, <2>2, <2>3, <2>4, <1>f
<1>9. w <= s.tr => Pulse(s, w) = s.v1 + ((w * h) \div s.tr)
  <2>1. w <= s.tr => w < s.tr \/ w = s.tr
    BY <1>f
  <2> QED BY <1>1, <1>6, <2>1, Zenon
<1> QED BY <1>2, <1>4, <1>7, <1>8, <1>9, Zenon

(* Between two phases in the same part of the period a pulse goes one way. *)
LEMMA PulseBetween ==
    ASSUME NEW s \in Pulses, ~Jumps(s),
           NEW a \in 0 .. s.pr, NEW w \in 0 .. s.pr, NEW b \in 0 .. s.pr, a <= w, w <= b,
           \/ b <= s.tr
           \/ s.tr <= a /\ b <= s.tr + s.pw
           \/ s.tr + s.pw <= a /\ b <= s.tr + s.pw + s.tf
    PROVE  Between(Pulse(s, a), Pulse(s, w), Pulse(s, b))
<1> DEFINE h == s.v2 - s.v1
<1>f. /\ s.tr \in Nat /\ s.tf \in Nat /\ s.pw \in Nat
      /\ s.pr \in Nat \ {0} /\ s.v1 \in Int /\ s.v2 \in Int
      /\ s.tr > 0 /\ h \in Int /\ (h >= 0 \/ h <= 0)
      /\ a \in Int /\ w \in Int /\ b \in Int
  BY PulseFields DEF Jumps
<1>p. Pulse(s, a) \in Int /\ Pulse(s, w) \in Int /\ Pulse(s, b) \in Int
  BY PulseParts
<1>1. CASE b <= s.tr
  <2> DEFINE up(u) == (u * h) \div s.tr
  <2>1. /\ a \in 0 .. s.tr /\ w \in 0 .. s.tr /\ b \in 0 .. s.tr /\ s.tr \in Nat \ {0}
        /\ a <= s.tr /\ w <= s.tr
    BY <1>f, <1>1
  <2>2. /\ Pulse(s, a) = s.v1 + up(a) /\ Pulse(s, w) = s.v1 + up(w)
        /\ Pulse(s, b) = s.v1 + up(b)
    BY <1>1, <2>1, PulseParts, Zenon
  <2>3. /\ up(a) \in Int /\ up(w) \in Int /\ up(b) \in Int
        /\ h >= 0 => up(a) <= up(w) /\ up(w) <= up(b)
        /\ h <= 0 => up(w) <= up(a) /\ up(b) <= up(w)
    <3> HIDE DEF h
    <3> QED BY <1>f, <2>1, Slope
  <2> HIDE DEF up, h
  <2> QED BY <1>f, <2>2, <2>3 DEF Between
<1>2. CASE s.tr <= a /\ b <= s.tr + s.pw
  <2>1. w < s.tr + s.pw => Pulse(s, w) = s.v2 /\ Pulse(s, a) = s.v2
    BY <1>2, <1>f, PulseParts
  <2>2. w >= s.tr + s.pw => w = b
    BY <1>2, <1>f
  <2> QED BY <1>f, <1>p, <2>1, <2>2 DEF Between
<1>3. CASE s.tr + s.pw <= a /\ b <= s.tr + s.pw + s.tf
  <2>1. CASE s.tf = 0
    <3>1. a = w
      BY <1>3, <1>f, <2>1
    <3> QED BY <3>1, <1>p DEF Between
  <2>2. CASE s.tf > 0
    <3> DEFINE down(u) == ((u - s.tr - s.pw) * h) \div s.tf
    <3>1. /\ a - s.tr - s.pw \in 0 .. s.tf /\ w - s.tr - s.pw \in 0 .. s.tf
          /\ b - s.tr - s.pw \in 0 .. s.tf /\ s.tf \in Nat \ {0}
          /\ a - s.tr - s.pw <= w - s.tr - s.pw /\ w - s.tr - s.pw <= b - s.tr - s.pw
      BY <1>f, <1>3, <2>2
    <3>2. /\ s.tr + s.pw <= w /\ w <= s.tr + s.pw + s.tf
          /\ s.tr + s.pw <= b /\ a <= s.tr + s.pw + s.tf
      BY <1>f, <1>3
    <3>3. /\ Pulse(s, a) = s.v2 - down(a) /\ Pulse(s, w) = s.v2 - down(w)
          /\ Pulse(s, b) = s.v2 - down(b)
      BY <1>3, <2>2, <3>2, PulseParts, Zenon
    <3>4. /\ down(a) \in Int /\ down(w) \in Int /\ down(b) \in Int
          /\ h >= 0 => down(a) <= down(w) /\ down(w) <= down(b)
          /\ h <= 0 => down(w) <= down(a) /\ down(b) <= down(w)
      <4> HIDE DEF h
      <4> QED BY <1>f, <3>1, Slope
    <3> HIDE DEF down, h
    <3> QED BY <1>f, <3>3, <3>4 DEF Between
  <2>3. s.tf = 0 \/ s.tf > 0
    BY <1>f
  <2> QED BY <2>1, <2>2, <2>3, Zenon
<1> QED BY <1>1, <1>2, <1>3, Zenon

(* A pulse is nowhere outside its two levels, which it takes at the start  *)
(* of the period and at the end of the rise.                               *)
LEMMA PulseLevels ==
    ASSUME NEW s \in Pulses, ~Jumps(s)
    PROVE  /\ Pulse(s, 0) = s.v1 /\ Pulse(s, s.tr) = s.v2 /\ Pulse(s, s.pr) = s.v1
           /\ \A w \in 0 .. s.pr : Between(s.v1, Pulse(s, w), s.v2)
<1>f. /\ s.tr \in Nat /\ s.tf \in Nat /\ s.pw \in Nat
      /\ s.pr \in Nat \ {0} /\ s.v1 \in Int /\ s.v2 \in Int
      /\ s.tr > 0 /\ s.pw + s.tf > 0 /\ s.tr + s.pw + s.tf <= s.pr
  BY PulseFields DEF Jumps
<1>w. /\ 0 \in 0 .. s.pr /\ s.tr \in 0 .. s.pr /\ s.pr \in 0 .. s.pr
      /\ s.tr + s.pw \in 0 .. s.pr /\ s.tr + s.pw + s.tf \in 0 .. s.pr
      /\ 0 <= s.tr /\ s.tr <= s.tr /\ s.v2 - s.v1 \in Int
      /\ s.tr \in 0 .. s.tr /\ s.tr \in Nat \ {0}
  BY <1>f
<1>1. Pulse(s, 0) = s.v1
  <2>1. Pulse(s, 0) = s.v1 + ((0 * (s.v2 - s.v1)) \div s.tr)
    BY <1>w, PulseParts, Zenon
  <2>2. (0 * (s.v2 - s.v1)) \div s.tr = 0
    BY <1>w, Slope, Zenon
  <2>3. s.v1 + 0 = s.v1
    BY <1>f
  <2> QED BY <2>1, <2>2, <2>3, Zenon
<1>2. Pulse(s, s.tr) = s.v2
  <2>1. Pulse(s, s.tr) = s.v1 + ((s.tr * (s.v2 - s.v1)) \div s.tr)
    BY <1>w, PulseParts, Zenon
  <2>2. (s.tr * (s.v2 - s.v1)) \div s.tr = s.v2 - s.v1
    BY <1>w, Slope, Zenon
  <2>3. s.v1 + (s.v2 - s.v1) = s.v2
    BY <1>f
  <2> QED BY <2>1, <2>2, <2>3, Zenon
<1>3. Pulse(s, s.pr) = s.v1 /\ Pulse(s, s.tr + s.pw + s.tf) = s.v1
  BY <1>f, <1>w, PulseParts
<1>4. ASSUME NEW w \in 0 .. s.pr PROVE Between(s.v1, Pulse(s, w), s.v2)
  <2>p. Pulse(s, w) \in Int /\ w \in Int
    BY PulseParts, <1>f
  <2>1. CASE w <= s.tr
    <3>1. Between(Pulse(s, 0), Pulse(s, w), Pulse(s, s.tr))
      BY <1>w, <2>1, PulseBetween, <1>f
    <3> QED BY <3>1, <1>1, <1>2
  <2>2. CASE s.tr <= w /\ w < s.tr + s.pw
    <3>1. Pulse(s, w) = s.v2
      BY <2>2, PulseParts
    <3> QED BY <3>1, <1>f DEF Between
  <2>3. CASE s.tr + s.pw <= w /\ w <= s.tr + s.pw + s.tf
    <3>1. CASE s.tf > 0
      <4>1. Between(Pulse(s, s.tr + s.pw), Pulse(s, w), Pulse(s, s.tr + s.pw + s.tf))
        <5>1. s.tr + s.pw <= s.tr + s.pw /\ s.tr + s.pw + s.tf <= s.tr + s.pw + s.tf
          BY <1>f
        <5> QED BY <1>w, <2>3, <5>1, PulseBetween, Zenon
      <4>2. Pulse(s, s.tr + s.pw) = s.v2
        <5>1. PICK b \in 0 .. s.pr : b = s.tr + s.pw
          BY <1>w
        <5>2. /\ s.tr + s.pw <= b /\ b <= s.tr + s.pw + s.tf /\ b - s.tr - s.pw = 0
              /\ 0 \in 0 .. s.tf /\ s.tf \in 0 .. s.tf /\ s.tf \in Nat \ {0} /\ 0 <= s.tf
          BY <1>f, <3>1, <5>1
        <5>3. Pulse(s, b) = s.v2 - (((b - s.tr - s.pw) * (s.v2 - s.v1)) \div s.tf)
          BY <3>1, <5>2, PulseParts, Zenon
        <5>4. (0 * (s.v2 - s.v1)) \div s.tf = 0
          BY <1>w, <5>2, Slope, Zenon
        <5>5. s.v2 - 0 = s.v2
          BY <1>f
        <5> QED BY <5>1, <5>2, <5>3, <5>4, <5>5, Zenon
      <4> QED BY <4>1, <4>2, <1>3 DEF Between
    <3>2. CASE s.tf = 0
      <4>1. Pulse(s, w) = s.v1
        BY <3>2, <2>3, <1>f, PulseParts
      <4> QED BY <4>1, <1>f DEF Between
    <3> QED BY <3>1, <3>2, <1>f
  <2>4. CASE s.tr + s.pw + s.tf <= w
    <3>1. Pulse(s, w) = s.v1
      BY <2>4, PulseParts
    <3> QED BY <3>1, <1>f DEF Between
  <2> QED BY <2>1, <2>2, <2>3, <2>4, <2>p, <1>f
<1> QED BY <1>1, <1>2, <1>3, <1>4

(* In a period, its first and its last moment included, the waveform is    *)
(* the pulse.                                                              *)
LEMMA Waveform ==
    ASSUME NEW s \in Pulses, ~Jumps(s), NEW k \in Nat, NEW w \in 0 .. s.pr
    PROVE  vapp(s, s.td + k * s.pr + w) = Pulse(s, w)
<1>f. /\ s.kind = "pulse" /\ s.td \in Int /\ s.pr \in Nat \ {0} /\ w \in Int
  BY PulseFields
<1> DEFINE u == s.td + k * s.pr + w
<1>1. u \in Int /\ ~(u < s.td) /\ (u = s.td <=> k = 0 /\ w = 0)
  <2>1. k * s.pr \in Nat /\ (k > 0 => k * s.pr > 0)
    BY <1>f
  <2> QED BY <2>1, <1>f
<1>2. vapp(s, u) = Pulse(s, InPeriod(s, u))
  BY <1>1, <1>f DEF vapp
<1>3. CASE u = s.td
  BY <1>1, <1>2, <1>3 DEF InPeriod
<1>4. CASE u # s.td /\ w > 0
  <2>1. /\ u - s.td - 1 = s.pr * k + (w - 1) /\ w - 1 \in 0 .. s.pr - 1
        /\ u - s.td - 1 \in Int
    BY <1>1, <1>4, <1>f
  <2>2. (u - s.td - 1) % s.pr = w - 1
    BY <2>1, <1>f, DivisionUnique
  <2>3. InPeriod(s, u) = w
    BY <2>2, <1>4, <1>f DEF InPeriod
  <2> QED BY <2>3, <1>2
<1>5. CASE u # s.td /\ w = 0
  <2>1. /\ u - s.td - 1 = s.pr * (k - 1) + (s.pr - 1) /\ s.pr - 1 \in 0 .. s.pr - 1
        /\ u - s.td - 1 \in Int /\ k - 1 \in Int
    BY <1>1, <1>5, <1>f
  <2>2. (u - s.td - 1) % s.pr = s.pr - 1
    BY <2>1, <1>f, DivisionUnique
  <2>3. InPeriod(s, u) = s.pr
    BY <2>2, <1>5, <1>f DEF InPeriod
  <2> QED BY <2>3, <1>2, <1>5, PulseLevels
<1> QED BY <1>3, <1>4, <1>5, <1>f

------------------------------------------------------------------------------
(* A set of naturals that is not empty has a least member.                 *)
LEMMA LeastNat ==
    ASSUME NEW S, S \subseteq Nat, S # {}
    PROVE  /\ \E m \in S : \A n \in S : m <= n
           /\ Min(S) \in S /\ \A n \in S : Min(S) <= n
<1>1. PICK m \in S : \A n \in S : ~(<<n, m>> \in OpToRel(<, Nat))
  BY NatLessThanWellFounded, WFMin
<1>2. \A n \in S : ~(n < m)
  BY <1>1 DEF OpToRel
<1>3. \A n \in S : m <= n
  BY <1>2
<1> QED
  BY <1>3 DEF Min

(* The waveform is nowhere outside the two levels.                         *)
LEMMA VappLevels ==
    ASSUME NEW s \in Pulses, ~Jumps(s), NEW u \in Int
    PROVE  vapp(s, u) \in Int /\ Between(s.v1, vapp(s, u), s.v2)
<1>f. /\ s.kind = "pulse" /\ s.td \in Int /\ s.pr \in Nat \ {0}
      /\ s.v1 \in Int /\ s.v2 \in Int
  BY PulseFields
<1>1. CASE u < s.td
  BY <1>1, <1>f DEF vapp, Between
<1>2. CASE u >= s.td
  <2>1. PICK v \in Int : v = u - s.td - 1
    BY <1>f
  <2>2. InPeriod(s, u) \in 0 .. s.pr
    <3>1. v % s.pr \in 0 .. s.pr - 1
      BY <1>f, Division
    <3> QED BY <2>1, <3>1, <1>f DEF InPeriod
  <2>3. vapp(s, u) = Pulse(s, InPeriod(s, u))
    BY <1>2, <1>f DEF vapp
  <2> QED BY <2>2, <2>3, PulseParts, PulseLevels
<1> QED BY <1>1, <1>2, <1>f

(* The times at which dv_max looks.                                        *)
Looked(s, d) == {t + d} \cup {p \in Corners(s) : t < p /\ p < t + d}

(* What the rounding of the quotient towards zero means before and after   *)
(* the delay.                                                              *)
LEMMA CyclesOf ==
    ASSUME t \in Nat, NEW s \in Pulses
    PROVE  /\ Cycles(s) \in Int
           /\ t >= s.td => /\ Cycles(s) \in Nat
                           /\ s.td + Cycles(s) * s.pr <= t
                           /\ t < s.td + (Cycles(s) + 1) * s.pr
           /\ t < s.td => /\ s.td - t < (1 - Cycles(s)) * s.pr
                          /\ -Cycles(s) \in Nat
                          /\ (-Cycles(s)) * s.pr <= s.td - t
<1>f. s.td \in Int /\ s.pr \in Nat \ {0} /\ t \in Int
  BY PulseFields
<1>1. CASE t >= s.td
  <2>1. PICK q \in Int, r \in 0 .. s.pr - 1 :
           q = (t - s.td) \div s.pr /\ t - s.td = s.pr * q + r
    BY <1>f, Division, t - s.td \in Int
  <2>2. q >= 0
    <3>1. q <= -1 => s.pr * q <= -s.pr
      BY <2>1, <1>f
    <3> QED BY <2>1, <1>1, <1>f, <3>1
  <2>3. Cycles(s) = q
    BY <1>1, <1>f, <2>1 DEF Cycles
  <2>4. q * s.pr = s.pr * q /\ (q + 1) * s.pr = s.pr * q + s.pr
    BY <2>1, <1>f
  <2>5. s.td + q * s.pr <= t /\ t < s.td + (q + 1) * s.pr /\ q \in Nat
    BY <2>1, <2>2, <2>4, <1>f
  <2> QED BY <2>3, <2>5, <1>1, <1>f
<1>2. CASE t < s.td
  <2>1. PICK q \in Int, r \in 0 .. s.pr - 1 :
           q = (s.td - t) \div s.pr /\ s.td - t = s.pr * q + r
    BY <1>f, Division, s.td - t \in Int
  <2>2. q >= 0
    <3>1. q <= -1 => s.pr * q <= -s.pr
      BY <2>1, <1>f
    <3> QED BY <2>1, <1>2, <1>f, <3>1
  <2>3. Cycles(s) = -q
    BY <1>2, <1>f, <2>1 DEF Cycles
  <2>4. q * s.pr = s.pr * q /\ (1 + q) * s.pr = s.pr * q + s.pr
    BY <2>1, <1>f
  <2>5. s.td - t < (1 + q) * s.pr /\ q * s.pr <= s.td - t
    BY <2>1, <2>4, <1>f
  <2>6. -(-q) = q /\ 1 - (-q) = 1 + q /\ q \in Nat /\ -q \in Int
    BY <2>1, <2>2
  <2> QED BY <2>3, <2>5, <2>6, <1>2, <1>f
<1> QED BY <1>1, <1>2, <1>f

(* What dv_max returns is as large as any change it looks at.              *)
LEMMA LargestChange ==
    ASSUME t \in Nat, NEW s \in Pulses, ~Jumps(s), NEW d \in Nat
    PROVE  /\ PulseChange(s, d) \in Int
           /\ \A p \in Looked(s, d) :
                 Magnitude(vapp(s, p) - vapp(s, t)) <= Magnitude(PulseChange(s, d))
<1> DEFINE change(p) == vapp(s, p) - vapp(s, t)
           height == Magnitude(s.v2 - s.v1)
           points == Looked(s, d)
           largest == {p \in points : \A q \in points :
                          Magnitude(change(q)) <= Magnitude(change(p))}
<1>f. /\ s.td \in Int /\ s.pr \in Nat \ {0} /\ s.v1 \in Int /\ s.v2 \in Int
      /\ s.tr \in Nat /\ s.pw \in Nat /\ s.tf \in Nat
  BY PulseFields
<1>1. Corners(s) \subseteq Int
  <2>1. \A n \in Int : n * s.pr \in Int
    BY <1>f
  <2> QED BY <1>f, <2>1, CyclesOf DEF Corners, CornersAfter, Bends
<1>2. points \subseteq Nat /\ t + d \in points
  BY <1>1 DEF Looked
<1>3. \A p \in points : change(p) \in Int /\ Magnitude(change(p)) \in 0 .. height
  <2> TAKE p \in points
  <2>1. /\ vapp(s, p) \in Int /\ Between(s.v1, vapp(s, p), s.v2)
        /\ vapp(s, t) \in Int /\ Between(s.v1, vapp(s, t), s.v2)
    BY <1>2, VappLevels
  <2> QED BY <2>1, <1>f DEF Between, Magnitude
<1>4. height \in Nat
  BY <1>f DEF Magnitude
<1>5. largest # {}
  <2> DEFINE below == {height - Magnitude(change(p)) : p \in points}
  <2> HIDE DEF points, height, change
  <2>1. below \subseteq Nat /\ below # {}
    BY <1>2, <1>3, <1>4
  <2>2. PICK m \in below : \A n \in below : m <= n
    BY <2>1, LeastNat
  <2>3. PICK p \in points : m = height - Magnitude(change(p))
    BY <2>2
  <2>4. \A q \in points : Magnitude(change(q)) <= Magnitude(change(p))
    <3> TAKE q \in points
    <3>1. m <= height - Magnitude(change(q))
      BY <2>2
    <3> QED BY <3>1, <2>3, <1>3, <1>4
  <2>5. p \in largest
    BY <2>4
  <2> QED BY <2>5
<1>6. Min(largest) \in largest
  <2>1. largest \subseteq Nat
    BY <1>2
  <2> HIDE DEF largest
  <2> QED BY <2>1, <1>5, LeastNat
<1>7. PulseChange(s, d) = change(IF t + d \in largest THEN t + d ELSE Min(largest))
  BY DEF PulseChange, Looked
<1>8. PICK p \in largest : PulseChange(s, d) = change(p)
  BY <1>6, <1>7
<1> QED BY <1>3, <1>8

(* What lies between two values within a limit is within the limit.        *)
LEMMA MagnitudeBetween ==
    ASSUME NEW x \in Int, NEW y \in Int, NEW z \in Int, NEW c \in Int, NEW L \in Int,
           Between(x, y, z), Magnitude(x - c) <= L, Magnitude(z - c) <= L
    PROVE  Magnitude(y - c) <= L
BY DEF Between, Magnitude

(* The corners of one period that are all looked at, the first not before  *)
(* the step begins or the step begins in it, say enough about what follows *)
(* in this period and in all later ones.                                   *)
LEMMA PeriodLimited ==
    ASSUME t \in Nat, NEW s \in Pulses, ~Jumps(s), NEW d \in Nat,
           NEW K \in Nat, CornersAfter(s, K) \subseteq Corners(s),
           NEW u \in t .. t + d, s.td + K * s.pr <= u,
           s.td + (K + 1) * s.pr < u => t <= s.td + K * s.pr,
           NEW L \in Int,
           \A p \in {t} \cup Looked(s, d) : Magnitude(vapp(s, p) - vapp(s, t)) <= L
    PROVE  Magnitude(vapp(s, u) - vapp(s, t)) <= L
<1> DEFINE P == s.td + K * s.pr
           c2 == s.tr + s.pw
           c3 == s.tr + s.pw + s.tf
<1>f. /\ s.td \in Int /\ s.pr \in Nat \ {0} /\ s.v1 \in Int /\ s.v2 \in Int
      /\ s.tr \in Nat /\ s.pw \in Nat /\ s.tf \in Nat /\ c3 <= s.pr
      /\ u \in Int /\ t <= u /\ u <= t + d
  BY PulseFields
<1>P. P \in Int /\ s.td + (K + 1) * s.pr = P + s.pr /\ P <= u
  <2>1. K * s.pr \in Int /\ (K + 1) * s.pr = K * s.pr + s.pr
    BY <1>f
  <2> QED BY <2>1, <1>f
<1> DEFINE Corner0(c) == c \in {0, s.tr, c2, c3}
<1>c. ASSUME NEW c, Corner0(c), t <= P + c, P + c <= t + d
      PROVE  Magnitude(vapp(s, P + c) - vapp(s, t)) <= L
  <2>1. P + c \in Corners(s) /\ P + c \in Int
    BY <1>c, <1>f, <1>P DEF CornersAfter, Bends
  <2> HIDE DEF P
  <2>2. P + c \in {t} \cup Looked(s, d)
    BY <1>c, <2>1 DEF Looked
  <2> QED BY <2>2
<1>v. \A p \in Int : vapp(s, p) \in Int
  BY VappLevels
<1>w. \A w \in 0 .. s.pr : vapp(s, P + w) = Pulse(s, w)
  BY Waveform
<1>e. Magnitude(vapp(s, t) - vapp(s, t)) <= L /\ Magnitude(vapp(s, t + d) - vapp(s, t)) <= L
  BY DEF Looked
<1> HIDE DEF P
<1>1. CASE u <= P + s.pr
  <2> DEFINE w == u - P
  <2>w. w \in 0 .. s.pr /\ u = P + w /\ w \in Int
    BY <1>1, <1>f, <1>P
  <2> HIDE DEF w
  <2>s. ASSUME NEW lo, NEW hi, Corner0(lo), Corner0(hi), lo <= w, w <= hi,
               \/ hi <= s.tr
               \/ s.tr <= lo /\ hi <= c2
               \/ c2 <= lo /\ hi <= c3
        PROVE  Magnitude(vapp(s, u) - vapp(s, t)) <= L
    <3>0. lo \in 0 .. s.pr /\ hi \in 0 .. s.pr
      BY <2>s, <1>f
    <3>1. PICK a \in 0 .. s.pr : /\ lo <= a /\ a <= w
                                 /\ Magnitude(vapp(s, P + a) - vapp(s, t)) <= L
      <4>1. CASE t <= P + lo
        <5>1. P + lo <= t + d
          BY <2>s, <2>w, <3>0, <1>f, <1>P
        <5> QED BY <4>1, <5>1, <2>s, <3>0, <1>c
      <4>2. CASE t > P + lo
        <5>1. /\ t - P \in 0 .. s.pr /\ lo <= t - P /\ t - P <= w
              /\ P + (t - P) = t
          BY <4>2, <2>w, <3>0, <1>f, <1>P
        <5> QED BY <5>1, <1>e
      <4> QED BY <4>1, <4>2, <3>0, <1>P
    <3>2. PICK b \in 0 .. s.pr : /\ w <= b /\ b <= hi
                                 /\ Magnitude(vapp(s, P + b) - vapp(s, t)) <= L
      <4>1. CASE P + hi <= t + d
        <5>1. t <= P + hi
          BY <2>s, <2>w, <3>0, <1>f, <1>P
        <5> QED BY <4>1, <5>1, <2>s, <3>0, <1>c
      <4>2. CASE P + hi > t + d
        <5>1. /\ t + d - P \in 0 .. s.pr /\ w <= t + d - P /\ t + d - P <= hi
              /\ P + (t + d - P) = t + d
          BY <4>2, <2>w, <3>0, <1>f, <1>P
        <5> QED BY <5>1, <1>e
      <4> QED BY <4>1, <4>2, <3>0, <1>P
    <3>3. \/ b <= s.tr
          \/ s.tr <= a /\ b <= c2
          \/ c2 <= a /\ b <= c3
      BY <2>s, <3>0, <3>1, <3>2, <1>f
    <3>4. Between(Pulse(s, a), Pulse(s, w), Pulse(s, b))
      BY <3>1, <3>2, <3>3, <2>w, PulseBetween
    <3>5. Between(vapp(s, P + a), vapp(s, u), vapp(s, P + b))
      BY <3>4, <1>w, <2>w
    <3>6. P + a \in Int /\ P + b \in Int
      BY <1>P
    <3>7. /\ vapp(s, P + a) \in Int /\ vapp(s, P + b) \in Int
          /\ vapp(s, u) \in Int /\ vapp(s, t) \in Int
      BY <3>6, <1>v, <1>f
    <3> QED BY <3>1, <3>2, <3>5, <3>7, MagnitudeBetween, Zenon
  <2>1. CASE w <= s.tr
    <3>1. Corner0(0) /\ Corner0(s.tr) /\ 0 <= w /\ s.tr <= s.tr
      BY <2>w, <1>f
    <3> QED BY <2>1, <3>1, <2>s, Zenon
  <2>2. CASE s.tr <= w /\ w <= c2
    BY <2>2, <2>s, <2>w, <1>f
  <2>3. CASE c2 <= w /\ w <= c3
    BY <2>3, <2>s, <2>w, <1>f
  <2>4. CASE c3 <= w
    <3>1. PICK a \in 0 .. s.pr : c3 <= a /\ Magnitude(vapp(s, P + a) - vapp(s, t)) <= L
      <4>1. CASE t <= P + c3
        <5>1. P + c3 <= t + d
          BY <2>4, <2>w, <1>f, <1>P
        <5> QED BY <4>1, <5>1, <1>f, <1>c
      <4>2. CASE t > P + c3
        <5>1. t - P \in 0 .. s.pr /\ c3 <= t - P /\ P + (t - P) = t
          BY <4>2, <2>w, <1>f, <1>P
        <5> QED BY <5>1, <1>e
      <4> QED BY <4>1, <4>2, <1>f, <1>P
    <3>2. Pulse(s, a) = s.v1 /\ Pulse(s, w) = s.v1
      BY <3>1, <2>4, <2>w, PulseParts
    <3> QED BY <3>1, <3>2, <2>w, <1>w
  <2> QED BY <2>1, <2>2, <2>3, <2>4, <2>w, <1>f
<1>2. CASE u > P + s.pr
  <2>1. t <= P
    BY <1>2, <1>P DEF P
  <2>2. /\ t <= P + 0 /\ P + 0 <= t + d /\ t <= P + s.tr /\ P + s.tr <= t + d
        /\ 0 \in 0 .. s.pr /\ s.tr \in 0 .. s.pr /\ P + 0 \in Int /\ P + s.tr \in Int
    BY <2>1, <1>2, <1>f, <1>P
  <2>3. /\ Magnitude(vapp(s, P + 0) - vapp(s, t)) <= L
        /\ Magnitude(vapp(s, P + s.tr) - vapp(s, t)) <= L
    BY <2>2, <1>c
  <2>4. vapp(s, P + 0) = s.v1 /\ vapp(s, P + s.tr) = s.v2
    BY <2>2, <1>w, PulseLevels
  <2>5. Between(s.v1, vapp(s, u), s.v2)
    BY VappLevels, <1>f
  <2>6. s.v1 \in Int /\ s.v2 \in Int /\ vapp(s, u) \in Int /\ vapp(s, t) \in Int
    BY <1>v, <1>f
  <2>7. Magnitude(s.v1 - vapp(s, t)) <= L /\ Magnitude(s.v2 - vapp(s, t)) <= L
    BY <2>3, <2>4, Zenon
  <2> QED BY <2>5, <2>6, <2>7, MagnitudeBetween, Zenon
<1> QED BY <1>1, <1>2, <1>f, <1>P

(* If the change dv_max finds within d is within the limit, so is every    *)
(* change within d.                                                        *)
LEMMA ChangeSeen ==
    ASSUME t \in Nat, NEW s \in Constants \cup Pulses, ~Jumps(s), NEW d \in 1 .. MaxStep,
           NEW L \in Int, Magnitude(dv_max(s, d)) <= L, NEW u \in t .. t + d
    PROVE  Magnitude(vapp(s, u) - vapp(s, t)) <= L
<1>0. d \in Nat /\ d <= MaxStep /\ MaxStep \in Nat /\ u \in Int /\ t <= u /\ u <= t + d
  BY StepLimitAssumption
<1>1. CASE s \in Constants
  BY <1>0, <1>1 DEF Constants, dv_max, vapp, Magnitude
<1>2. CASE s \in Pulses
  <2>f. /\ s.kind = "pulse" /\ s.td \in Int /\ s.pr \in Nat \ {0}
        /\ MaxStep < 2 * s.pr \/ s.td < 2 * s.pr
    BY <1>2, PulseFields
  <2>v. vapp(s, u) \in Int /\ vapp(s, t) \in Int
    BY <1>0, <1>2, VappLevels
  <2>1. \A p \in Looked(s, d) : Magnitude(vapp(s, p) - vapp(s, t)) <= L
    <3>1. dv_max(s, d) = PulseChange(s, d)
      BY <2>f DEF dv_max
    <3>2. \A p \in Looked(s, d) : vapp(s, p) \in Int
      <4>1. Looked(s, d) \subseteq Int
        <5>1. \A n \in Int : n * s.pr \in Int
          BY <2>f
        <5>2. Corners(s) \subseteq Int
          BY <5>1, <1>2, PulseFields, CyclesOf DEF Corners, CornersAfter, Bends
        <5> QED BY <5>2, <1>0 DEF Looked
      <4> QED BY <4>1, <1>2, VappLevels
    <3>3. PulseChange(s, d) \in Int
      BY <1>0, <1>2, LargestChange
    <3>4. \A p \in Looked(s, d) :
             Magnitude(vapp(s, p) - vapp(s, t)) <= Magnitude(PulseChange(s, d))
      BY <1>0, <1>2, LargestChange
    <3> QED BY <3>1, <3>2, <3>3, <3>4, <2>v DEF Magnitude
  <2>2. 0 <= L /\ Magnitude(vapp(s, t) - vapp(s, t)) <= L
    <3>1. t + d \in Looked(s, d) /\ t + d \in Int
      BY <1>0 DEF Looked
    <3>2. vapp(s, t + d) \in Int
      BY <3>1, <1>2, VappLevels
    <3>3. 0 <= Magnitude(vapp(s, t + d) - vapp(s, t)) /\ Magnitude(vapp(s, t + d) - vapp(s, t)) \in Int
      BY <3>2, <2>v DEF Magnitude
    <3>4. 0 <= L
      BY <3>1, <3>3, <2>1
    <3> QED BY <3>4, <2>v DEF Magnitude
  <2>3. \A p \in {t} \cup Looked(s, d) : Magnitude(vapp(s, p) - vapp(s, t)) <= L
    BY <2>1, <2>2
  <2>4. CASE t >= s.td
    <3> DEFINE n == Cycles(s)
    <3>1. /\ n \in Nat /\ s.td + n * s.pr <= t /\ t < s.td + (n + 1) * s.pr
          /\ n + 1 \in Nat
      BY <1>2, <2>4, CyclesOf
    <3>2. CornersAfter(s, n) \subseteq Corners(s) /\ CornersAfter(s, n + 1) \subseteq Corners(s)
      BY DEF Corners
    <3>3. /\ n * s.pr \in Int /\ (n + 1) * s.pr \in Int /\ (n + 2) * s.pr \in Int
          /\ n + 1 + 1 = n + 2
      BY <3>1, <2>f
    <3> HIDE DEF n
    <3>4. CASE u <= s.td + (n + 1) * s.pr
      <4>1. s.td + n * s.pr <= u /\ ~(s.td + (n + 1) * s.pr < u)
        BY <3>1, <3>3, <3>4, <1>0, <2>f
      <4> QED BY <4>1, <1>0, <1>2, <2>3, <3>1, <3>2, PeriodLimited
    <3>5. CASE u > s.td + (n + 1) * s.pr
      <4>1. s.td + (n + 1) * s.pr <= u /\ t <= s.td + (n + 1) * s.pr
        BY <3>1, <3>3, <3>5, <1>0, <2>f
      <4> QED BY <4>1, <1>0, <1>2, <2>3, <3>1, <3>2, PeriodLimited
    <3> QED BY <3>3, <3>4, <3>5, <1>0, <2>f
  <2>5. CASE t < s.td
    <3>1. CASE u < s.td
      <4>1. vapp(s, u) = vapp(s, t)
        BY <3>1, <2>5, <2>f DEF vapp
      <4> QED BY <4>1, <2>2
    <3>2. CASE u >= s.td
      <4>1. PICK m \in Nat : /\ m = -Cycles(s) /\ m * s.pr <= s.td - t
        BY <1>2, <2>5, CyclesOf
      <4>2. m = 0 \/ m = 1
        <5>1. m >= 2 => m * s.pr >= 2 * s.pr
          BY <2>f
        <5>2. 2 * s.pr \in Int /\ m * s.pr \in Int
          BY <2>f
        <5>3. ~(m >= 2)
          BY <5>1, <5>2, <4>1, <3>2, <1>0, <2>f
        <5> QED BY <5>3
      <4>3. Cycles(s) = 0 \/ Cycles(s) + 1 = 0
        <5>1. Cycles(s) \in Int
          BY <1>2, CyclesOf
        <5> QED BY <5>1, <4>1, <4>2
      <4>4. CornersAfter(s, 0) \subseteq Corners(s)
        BY <4>3 DEF Corners
      <4>5. s.td + 0 * s.pr = s.td /\ s.td <= u /\ t <= s.td
        BY <2>f, <3>2, <2>5
      <4> QED BY <4>4, <4>5, <1>0, <1>2, <2>3, PeriodLimited
    <3> QED BY <3>1, <3>2, <1>0, <2>f
  <2> QED BY <2>4, <2>5, <2>f
<1> QED BY <1>1, <1>2

(* The sum over one source is what that source changes by.                 *)
LEMMA SumOfOne ==
    ASSUME NEW e \in Electrode, Len(e.sources) = 1, NEW d, dv_max(e.sources[1], d) \in Int
    PROVE  bc_dv(e, d) = dv_max(e.sources[1], d)
<1> DEFINE c == dv_max(e.sources[1], d)
           sumFct(f) == [n \in 0 .. Len(e.sources) |->
                           IF n = 0 THEN 0 ELSE f[n - 1] + dv_max(e.sources[n], d)]
           sum == CHOOSE f : f = sumFct(f)
           one == [n \in 0 .. 1 |-> IF n = 0 THEN 0 ELSE c]
<1>1. one = sumFct(one)
  <2>1. \A n \in 0 .. 1 : one[n] = IF n = 0 THEN 0 ELSE one[n - 1] + dv_max(e.sources[n], d)
    <3> TAKE n \in 0 .. 1
    <3>1. CASE n = 0
      BY <3>1
    <3>2. CASE n = 1
      BY <3>2
    <3> QED BY <3>1, <3>2
  <2> QED BY <2>1
<1>2. sum = sumFct(sum)
  BY <1>1
<1>3. bc_dv(e, d) = sum[Len(e.sources)]
  BY DEF bc_dv
<1> HIDE DEF sum
<1>4. sum[0] = 0 /\ sum[1] = sum[0] + c
  BY <1>2
<1> QED BY <1>3, <1>4

------------------------------------------------------------------------------
LimitTypeOK ==
    /\ electrodes \in Setups
    /\ t \in Nat
    /\ phase \in {"ask", "shrink", "corner"}
    /\ asked \in Nat /\ dt \in Nat
    /\ it \in Nat \ {0} /\ i \in Nat \ {0}

(* The step has only become shorter, and by no more than TStepMin allows.  *)
SizeInv ==
    phase # "ask" =>
        /\ asked \in 1 .. MaxStep /\ dt \in 1 .. asked
        /\ dt = asked \/ 10 * dt >= 9 * TStepMin

LimitedBy(e) ==
    \A u \in t .. t + dt :
        Magnitude(vapp(e.sources[1], u) - vapp(e.sources[1], t)) <= Allowed(e)

(* What the loop over the limits has reached is kept by the one over the   *)
(* corners.                                                                *)
SmallInv ==
    phase = "corner" /\ dt > TStepMin =>
        \A e \in Range(electrodes) :
            Len(e.sources) = 1 /\ ~Jumps(e.sources[1]) => LimitedBy(e)

KeptBy(s) ==
    s.kind = "pulse" /\ t >= s.td =>
        \A p \in t + TStepMin .. t + dt - 1 :
            p <= s.td + (Cycles(s) + 1) * s.pr => (p - s.td) % s.pr \notin {0} \cup Bends(s)

HasLooked(k, n) == k < it \/ (k = it /\ n < i)

(* A source that has looked finds its corners kept, whatever the sources   *)
(* after it cut the step to.                                               *)
CornerInv ==
    phase = "corner" =>
        \A k \in 1 .. Len(electrodes) : \A n \in 1 .. Len(electrodes[k].sources) :
            HasLooked(k, n) => KeptBy(electrodes[k].sources[n])

LimitInv == LimitTypeOK /\ SizeInv /\ SmallInv /\ CornerInv

(* The types of what the loops over electrodes and sources meet.           *)
LEMMA ElectrodeTypes ==
    ASSUME LimitTypeOK
    PROVE  /\ electrodes \in Seq(Electrode)
           /\ \A e \in Range(electrodes) :
                 e \in Electrode /\ Allowed(e) \in Int /\ e.sources \in Seq(Constants \cup Pulses)
           /\ \A k \in 1 .. Len(electrodes) :
                 /\ electrodes[k] \in Range(electrodes)
                 /\ electrodes[k].sources \in Seq(Constants \cup Pulses)
                 /\ \A n \in 1 .. Len(electrodes[k].sources) :
                       electrodes[k].sources[n] \in Constants \cup Pulses
<1>1. electrodes \in Seq(Electrode)
  BY StepLimitAssumption DEF LimitTypeOK
<1>2. Range(electrodes) \subseteq Electrode
  BY <1>1 DEF Range
<1>3. \A e \in Electrode : Allowed(e) \in Int /\ e.sources \in Seq(Constants \cup Pulses)
  BY StepLimitAssumption DEF Electrode, Allowed
<1>4. \A k \in 1 .. Len(electrodes) : electrodes[k] \in Range(electrodes)
  BY <1>1 DEF Range
<1> QED
  BY <1>1, <1>2, <1>3, <1>4

(* dt_critial_limit only shortens the step, never below TStepMin, and then *)
(* no stop is left within it.                                              *)
LEMMA CornerCut ==
    ASSUME t \in Nat, dt \in Nat, NEW s \in Constants \cup Pulses
    PROVE  /\ \/ dt_critial_limit(s) = dt
              \/ dt_critial_limit(s) \in TStepMin .. dt - 1
           /\ \A p \in StopsOf(s) :
                 p >= t + TStepMin => t + dt_critial_limit(s) <= p
<1> DEFINE reached == {p \in StopsOf(s) : Reaches(p)}
<1>0. TStepMin \in Nat \ {0} /\ t \in Nat /\ dt \in Nat
  BY StepLimitAssumption
<1>1. StopsOf(s) \subseteq Int
  <2>1. CASE s \in Constants
    BY <2>1 DEF Constants, StopsOf
  <2>2. CASE s \in Pulses
    <3>1. Cycles(s) * s.pr \in Int
      BY <2>2, PulseFields, CyclesOf
    <3> QED BY <2>2, <3>1, PulseFields DEF StopsOf, Bends
  <2> QED BY <2>1, <2>2
<1>2. reached \subseteq Nat
  BY <1>0, <1>1 DEF Reaches
<1>3. CASE reached = {}
  <2>1. dt_critial_limit(s) = dt
    BY <1>3 DEF dt_critial_limit
  <2>2. \A p \in StopsOf(s) : ~Reaches(p)
    BY <1>3
  <2> QED BY <1>0, <1>1, <2>1, <2>2 DEF Reaches
<1>4. CASE reached # {}
  <2>1. dt_critial_limit(s) = Min(reached) - t
    BY <1>4 DEF dt_critial_limit
  <2>2. Min(reached) \in reached /\ \A p \in reached : Min(reached) <= p
    <3> HIDE DEF reached
    <3> QED BY <1>2, <1>4, LeastNat
  <2>3. PICK m \in Int : /\ m = Min(reached) /\ Reaches(m)
                         /\ \A p \in StopsOf(s) : Reaches(p) => m <= p
    BY <2>2, <1>1
  <2> QED BY <1>0, <1>1, <2>1, <2>3 DEF Reaches
<1> QED BY <1>3, <1>4

(* A corner of the present period, but its start, is one of its stops.     *)
LEMMA CornersAreStops ==
    ASSUME t \in Nat, NEW s \in Pulses, t >= s.td, NEW p \in Int, t < p,
           p <= s.td + (Cycles(s) + 1) * s.pr, (p - s.td) % s.pr \in {0} \cup Bends(s)
    PROVE  p \in StopsOf(s)
<1> DEFINE n == Cycles(s)
           w == p - s.td - n * s.pr
<1>f. /\ s.kind = "pulse" /\ s.td \in Int /\ s.pr \in Nat \ {0}
      /\ s.tr \in Nat /\ s.pw \in Nat /\ s.tf \in Nat
  BY PulseFields
<1>1. n \in Nat /\ s.td + n * s.pr <= t
  BY CyclesOf
<1>2. n * s.pr \in Int /\ (n + 1) * s.pr = n * s.pr + s.pr /\ n * s.pr = s.pr * n
  <2> HIDE DEF n
  <2> QED BY <1>1, <1>f
<1>3. w \in 1 .. s.pr /\ p = s.td + n * s.pr + w /\ p - s.td = s.pr * n + w /\ p - s.td \in Int
  BY <1>1, <1>2, <1>f
<1> HIDE DEF w, n
<1>4. CASE w < s.pr
  <2>1. (p - s.td) % s.pr = w
    <3>1. w \in 0 .. s.pr - 1
      BY <1>3, <1>4, <1>f
    <3> QED BY <3>1, <1>1, <1>3, <1>f, DivisionUnique
  <2>2. w \in Bends(s)
    BY <2>1, <1>3, <1>f
  <2> QED BY <2>2, <1>3, <1>f DEF StopsOf, n
<1>5. CASE w = s.pr
  BY <1>5, <1>3, <1>f DEF StopsOf, n
<1> QED BY <1>3, <1>4, <1>5, <1>f

(* A source that has just looked finds its corners kept.                   *)
LEMMA KeptAfterLook ==
    ASSUME t \in Nat, dt \in Nat, NEW s \in Constants \cup Pulses, s.kind = "pulse", t >= s.td,
           NEW p \in t + TStepMin .. t + dt_critial_limit(s) - 1,
           p <= s.td + (Cycles(s) + 1) * s.pr
    PROVE  (p - s.td) % s.pr \notin {0} \cup Bends(s)
<1>0. TStepMin \in Nat \ {0} /\ s \in Pulses
  BY StepLimitAssumption DEF Constants
<1>1. dt_critial_limit(s) \in Int
  BY <1>0, CornerCut
<1>2. p \in Int /\ t < p /\ p >= t + TStepMin /\ ~(t + dt_critial_limit(s) <= p)
  BY <1>0, <1>1
<1>3. p \notin StopsOf(s)
  BY <1>2, CornerCut
<1> QED BY <1>0, <1>2, <1>3, CornersAreStops

------------------------------------------------------------------------------
LEMMA LimitInitInv == LimitInit => LimitInv
BY DEF LimitInit, LimitInv, LimitTypeOK, SizeInv, SmallInv, CornerInv

LEMMA AskInv == ASSUME LimitInv, Ask PROVE LimitInv'
<1>1. LimitTypeOK' /\ SizeInv'
  BY StepLimitAssumption DEF LimitInv, LimitTypeOK, Ask, SizeInv
<1>2. SmallInv' /\ CornerInv'
  BY DEF Ask, SmallInv, CornerInv
<1> QED BY <1>1, <1>2 DEF LimitInv

LEMMA ShrinkInv == ASSUME LimitInv, Shrink PROVE LimitInv'
<1>1. /\ dt \in Nat /\ asked \in Nat /\ dt > TStepMin /\ TStepMin \in Nat \ {0}
      /\ asked \in 1 .. MaxStep /\ dt \in 1 .. asked
  BY StepLimitAssumption DEF LimitInv, LimitTypeOK, SizeInv, Shrink
<1>2. dt' = (9 * dt) \div 10
  BY DEF Shrink
<1>3. PICK r \in 0 .. 9 : dt' \in Int /\ 9 * dt = 10 * dt' + r
  <2>1. PICK a \in Int, n \in Nat \ {0} : a = 9 * dt /\ n = 10
    BY <1>1
  <2>2. dt' = a \div n
    BY <1>2, <2>1
  <2>3. a \div n \in Int /\ a % n \in 0 .. n - 1 /\ a = n * (a \div n) + (a % n)
    BY Division
  <2> QED BY <2>1, <2>2, <2>3
<1>4. LimitTypeOK' /\ SizeInv'
  BY <1>1, <1>3 DEF LimitInv, LimitTypeOK, SizeInv, Shrink
<1>5. SmallInv' /\ CornerInv'
  BY DEF Shrink, SmallInv, CornerInv
<1> QED BY <1>4, <1>5 DEF LimitInv

LEMMA SmallEnoughInv == ASSUME LimitInv, SmallEnough PROVE LimitInv'
<1>1. LimitTypeOK' /\ SizeInv'
  BY DEF LimitInv, LimitTypeOK, SizeInv, SmallEnough
<1>2. CornerInv'
  <2>1. electrodes \in Seq(Electrode) /\ electrodes' = electrodes /\ it' = 1 /\ i' = 1
    BY ElectrodeTypes DEF LimitInv, SmallEnough
  <2>2. \A k \in 1 .. Len(electrodes) : electrodes[k].sources \in Seq(Constants \cup Pulses)
    BY ElectrodeTypes DEF LimitInv
  <2>3. \A k \in 1 .. Len(electrodes) : \A n \in 1 .. Len(electrodes[k].sources) :
           ~(k < 1 \/ (k = 1 /\ n < 1))
    BY <2>1, <2>2
  <2> QED BY <2>1, <2>3 DEF CornerInv, HasLooked
<1>3. SmallInv'
  <2> SUFFICES ASSUME dt > TStepMin, NEW e \in Range(electrodes),
                      Len(e.sources) = 1, ~Jumps(e.sources[1])
               PROVE  LimitedBy(e)
    BY DEF SmallInv, LimitedBy, SmallEnough, vapp, Pulse, InPeriod, Allowed
  <2>0. /\ t \in Nat /\ dt \in 1 .. MaxStep /\ e \in Electrode /\ Allowed(e) \in Int
        /\ e.sources[1] \in Constants \cup Pulses
    <3>1. e.sources \in Seq(Constants \cup Pulses) /\ 1 \in 1 .. Len(e.sources)
      BY ElectrodeTypes DEF LimitInv
    <3>2. e.sources[1] \in Constants \cup Pulses
      BY <3>1
    <3>3. t \in Nat /\ dt \in 1 .. MaxStep
      BY StepLimitAssumption DEF LimitInv, LimitTypeOK, SizeInv, SmallEnough
    <3> QED BY <3>2, <3>3, ElectrodeTypes DEF LimitInv
  <2>1. ~(Magnitude(bc_dv(e, dt)) > Allowed(e))
    BY DEF SmallEnough, TooLarge
  <2>2. dv_max(e.sources[1], dt) \in Int
    <3>1. CASE e.sources[1] \in Constants
      BY <3>1 DEF Constants, dv_max
    <3>2. CASE e.sources[1] \in Pulses
      <4>1. dv_max(e.sources[1], dt) = PulseChange(e.sources[1], dt)
        BY <3>2, PulseFields DEF dv_max
      <4> QED BY <4>1, <3>2, <2>0, LargestChange
    <3> QED BY <3>1, <3>2, <2>0
  <2>3. Magnitude(dv_max(e.sources[1], dt)) <= Allowed(e)
    <3>1. bc_dv(e, dt) = dv_max(e.sources[1], dt)
      BY <2>0, <2>2, SumOfOne
    <3> QED BY <3>1, <2>0, <2>1, <2>2 DEF Magnitude
  <2> QED BY <2>0, <2>3, ChangeSeen DEF LimitedBy
<1> QED BY <1>1, <1>2, <1>3 DEF LimitInv

LEMMA CornerKeepsInv == ASSUME LimitInv, Corner PROVE LimitInv'
<1> DEFINE s == electrodes[it].sources[i]
<1>0. /\ t \in Nat /\ dt \in Nat /\ TStepMin \in Nat \ {0} /\ phase = "corner"
      /\ it \in Nat \ {0} /\ i \in Nat \ {0} /\ electrodes \in Seq(Electrode)
      /\ it \in 1 .. Len(electrodes)
  <2>1. electrodes \in Seq(Electrode)
    BY ElectrodeTypes DEF LimitInv
  <2> QED BY <2>1, StepLimitAssumption DEF LimitInv, LimitTypeOK, Corner, AllLooked
<1>1. s \in Constants \cup Pulses
  <2>1. electrodes[it].sources \in Seq(Constants \cup Pulses)
    BY <1>0, ElectrodeTypes DEF LimitInv
  <2>2. i \in 1 .. Len(electrodes[it].sources)
    BY <1>0, <2>1 DEF Corner
  <2> QED BY <2>1, <2>2
<1>2. /\ dt' = dt_critial_limit(s)
      /\ dt' = dt \/ dt' \in TStepMin .. dt - 1
      /\ dt' \in Nat /\ dt' <= dt
  <2>1. dt' = dt_critial_limit(s)
    BY DEF Corner
  <2> HIDE DEF s
  <2> QED BY <2>1, <1>0, <1>1, CornerCut
<1>3. LimitTypeOK' /\ SizeInv'
  BY <1>0, <1>2 DEF LimitInv, LimitTypeOK, SizeInv, Corner
<1>4. SmallInv'
  <2> SUFFICES ASSUME dt' > TStepMin, NEW e \in Range(electrodes),
                      Len(e.sources) = 1, ~Jumps(e.sources[1]), NEW u \in t .. t + dt'
               PROVE  Magnitude(vapp(e.sources[1], u) - vapp(e.sources[1], t)) <= Allowed(e)
    BY DEF SmallInv, LimitedBy, Corner, vapp, Pulse, InPeriod, Allowed
  <2>1. dt > TStepMin /\ u \in t .. t + dt
    BY <1>0, <1>2
  <2> QED BY <1>0, <2>1 DEF LimitInv, SmallInv, LimitedBy
<1>5. CornerInv'
  <2> SUFFICES ASSUME NEW k \in 1 .. Len(electrodes), NEW n \in 1 .. Len(electrodes[k].sources),
                      k < it \/ (k = it /\ n < i + 1)
               PROVE  KeptBy(electrodes[k].sources[n])'
    BY DEF CornerInv, HasLooked, Corner
  <2> DEFINE c == electrodes[k].sources[n]
  <2>c. c' = c
    BY DEF Corner
  <2> HIDE DEF c
  <2> SUFFICES ASSUME c.kind = "pulse", t >= c.td, NEW p \in t + TStepMin .. t + dt' - 1,
                      p <= c.td + (Cycles(c) + 1) * c.pr
               PROVE  (p - c.td) % c.pr \notin {0} \cup Bends(c)
    BY <2>c DEF KeptBy, Corner, Cycles, Bends, c
  <2>1. CASE k = it /\ n = i
    <3>1. p \in t + TStepMin .. t + dt_critial_limit(s) - 1 /\ c = s
      BY <1>2, <2>1 DEF c
    <3> QED BY <1>0, <1>1, <3>1, KeptAfterLook
  <2>2. CASE k < it \/ (k = it /\ n < i)
    <3>1. p \in t + TStepMin .. t + dt - 1
      BY <1>0, <1>2
    <3>2. KeptBy(c)
      BY <1>0, <2>2 DEF LimitInv, CornerInv, HasLooked, c
    <3> QED BY <3>1, <3>2 DEF KeptBy
  <2> QED BY <1>0, <2>1, <2>2
<1> QED BY <1>3, <1>4, <1>5 DEF LimitInv

LEMMA NextElectrodeInv == ASSUME LimitInv, NextElectrode PROVE LimitInv'
<1>1. LimitTypeOK' /\ SizeInv'
  BY DEF LimitInv, LimitTypeOK, SizeInv, NextElectrode
<1>2. SmallInv'
  BY DEF LimitInv, SmallInv, LimitedBy, NextElectrode, vapp, Pulse, InPeriod, Allowed
<1>3. CornerInv'
  <2> SUFFICES ASSUME NEW k \in 1 .. Len(electrodes), NEW n \in 1 .. Len(electrodes[k].sources),
                      k < it + 1 \/ (k = it + 1 /\ n < 1)
               PROVE  KeptBy(electrodes[k].sources[n])
    BY DEF CornerInv, HasLooked, KeptBy, NextElectrode, Cycles, Bends
  <2>1. it \in Nat /\ i \in Nat /\ i > Len(electrodes[it].sources) /\ phase = "corner"
    BY DEF LimitInv, LimitTypeOK, NextElectrode
  <2>2. electrodes[k].sources \in Seq(Constants \cup Pulses)
    BY ElectrodeTypes DEF LimitInv
  <2>3. k < it \/ (k = it /\ n < i)
    BY <2>1, <2>2
  <2> QED BY <2>1, <2>3 DEF LimitInv, CornerInv, HasLooked
<1> QED BY <1>1, <1>2, <1>3 DEF LimitInv

LEMMA TakeInv == ASSUME LimitInv, Take PROVE LimitInv'
<1>1. LimitTypeOK'
  BY DEF LimitInv, LimitTypeOK, Take
<1>2. SizeInv' /\ SmallInv' /\ CornerInv'
  BY DEF Take, SizeInv, SmallInv, CornerInv
<1> QED BY <1>1, <1>2 DEF LimitInv

LEMMA LimitStutter == ASSUME LimitInv, UNCHANGED limitVars PROVE LimitInv'
<1>1. LimitTypeOK' /\ SizeInv'
  BY DEF limitVars, LimitInv, LimitTypeOK, SizeInv
<1>2. \A e : LimitedBy(e)' <=> LimitedBy(e)
  BY DEF limitVars, LimitedBy, vapp, Pulse, InPeriod, Allowed
<1>3. SmallInv'
  BY <1>2 DEF limitVars, LimitInv, SmallInv
<1>4. \A s : KeptBy(s)' <=> KeptBy(s)
  BY DEF limitVars, KeptBy, Cycles, Bends
<1>5. CornerInv'
  BY <1>4 DEF limitVars, LimitInv, CornerInv, HasLooked
<1> QED BY <1>1, <1>3, <1>5 DEF LimitInv

(* Every action keeps the invariant.                                       *)
LEMMA LimitInvariant == LimitSpec => []LimitInv
<1>1. LimitInv /\ [LimitNext]_limitVars => LimitInv'
  BY AskInv, ShrinkInv, SmallEnoughInv, CornerKeepsInv, NextElectrodeInv, TakeInv, LimitStutter
     DEF LimitNext, Over
<1> QED BY LimitInitInv, <1>1, PTL DEF LimitSpec

(* What a march is told to step keeps every electrode with one source      *)
(* within its limit of change, at each time within the step: the corners   *)
(* of two periods that dv_max looks at are enough.                         *)
THEOREM ChangesWithinLimit == LimitSpec => []ChangeLimited
<1>1. LimitInv => ChangeLimited
  BY DEF LimitInv, SizeInv, SmallInv, LimitedBy, ChangeLimited, Ready
<1> QED BY LimitInvariant, <1>1, PTL

(* No corner of the present period of any source is jumped over, in        *)
(* whatever order the sources cut the step.                                *)
THEOREM CornersAreKept == LimitSpec => []CornersKept
<1>1. LimitInv => CornersKept
  <2> SUFFICES ASSUME LimitInv, Ready, NEW e \in Range(electrodes), NEW s \in Range(e.sources)
               PROVE  KeptBy(s)
    BY DEF CornersKept, KeptBy
  <2>1. PICK k \in 1 .. Len(electrodes) : e = electrodes[k]
    BY ElectrodeTypes DEF LimitInv, Range
  <2>2. PICK n \in 1 .. Len(electrodes[k].sources) : s = electrodes[k].sources[n]
    BY <2>1, ElectrodeTypes DEF LimitInv, Range
  <2>3. it \in Nat /\ it > Len(electrodes) /\ electrodes \in Seq(Electrode)
    BY ElectrodeTypes DEF LimitInv, LimitTypeOK, Ready, AllLooked
  <2>4. HasLooked(k, n)
    BY <2>3 DEF HasLooked
  <2> QED BY <2>1, <2>2, <2>4 DEF LimitInv, CornerInv, Ready
<1> QED BY LimitInvariant, <1>1, PTL
==============================================================================
