------------------------------ MODULE StepLimit ------------------------------
(***************************************************************************)
(* ElectricalSource::limit_dt: the step of a march shortened by the        *)
(* sources attached to the electrodes. As long as it is longer than        *)
(* TStepMin and some electrode would change by more than VStepMax or       *)
(* IStepMax within it, it is cut by a tenth; then each source in turn may  *)
(* cut it to a corner of its waveform.                                     *)
(*                                                                         *)
(* The waveforms are constant sources and pulses; currents have the same   *)
(* code as voltages. Times and values are whole units, 0.9 of a step is    *)
(* rounded down. A source is a record of the parameters of its             *)
(* constructor, an electrode a record of its drive and its sources.        *)
(***************************************************************************)
EXTENDS Integers, FiniteSetsExt, SequencesExt

CONSTANTS
    Setups,             \* the electrodes that may be there, in order
    VStepMax, IStepMax, \* the largest change of a voltage and of a current
    TStepMin,
    TStop,              \* the march is over here
    MaxStep             \* the longest step it asks for

(* The parts of a pulse fit into its period. Long before its first pulse,  *)
(* dv_max looks at corners of periods there are none of, so that a step    *)
(* must not be longer than two periods there.                              *)
Constants == [kind : {"constant"}, td : Int, v2 : Int]
Pulses ==
    {s \in [kind : {"pulse"}, td : Int, tr : Nat, tf : Nat, pw : Nat, pr : Nat \ {0},
            v1 : Int, v2 : Int] :
        /\ s.tr + s.pw + s.tf <= s.pr
        /\ MaxStep < 2 * s.pr \/ s.td < 2 * s.pr}
Electrode == [drive : {"voltage", "current"}, sources : Seq(Constants \cup Pulses)]

ASSUME StepLimitAssumption ==
    /\ TStepMin \in Nat \ {0}
    /\ TStop \in Nat /\ MaxStep \in Nat \ {0}
    /\ VStepMax \in Int /\ IStepMax \in Int
    /\ Setups \subseteq Seq(Electrode)

VARIABLES
    electrodes,         \* the electrodes with their sources
    t,                  \* the time of the step
    phase,              \* "ask", "shrink", "corner"
    asked,              \* the step the march asked for
    dt,                 \* dt_limited
    it, i               \* electrode and source that look for corners next

limitVars == <<electrodes, t, phase, asked, dt, it, i>>

Magnitude(v) == IF v < 0 THEN -v ELSE v

------------------------------------------------------------------------------
(* A period that ends counts as its last moment.                           *)
InPeriod(s, u) == IF u = s.td THEN 0 ELSE ((u - s.td - 1) % s.pr) + 1

Pulse(s, u) ==
    IF u < s.tr THEN s.v1 + (u * (s.v2 - s.v1)) \div s.tr
    ELSE IF u < s.tr + s.pw THEN s.v2
    ELSE IF u < s.tr + s.pw + s.tf
         THEN s.v2 - ((u - s.tr - s.pw) * (s.v2 - s.v1)) \div s.tf
    ELSE s.v1

vapp(s, u) ==
    IF s.kind = "constant" THEN (IF u >= s.td THEN s.v2 ELSE 0)
    ELSE IF u < s.td THEN s.v1
    ELSE Pulse(s, InPeriod(s, u))

(* The conversion to int rounds towards zero.                              *)
Cycles(s) == IF t < s.td THEN -((s.td - t) \div s.pr) ELSE (t - s.td) \div s.pr

(* Where a period of a pulse has its corners, after its start, and all the *)
(* corners after n periods.                                                *)
Bends(s) == {s.tr, s.tr + s.pw, s.tr + s.pw + s.tf}
CornersAfter(s, n) == {s.td + n * s.pr + c : c \in {0} \cup Bends(s)}

(* Slip: only this period's.                                               *)
ThisPeriod(s) == CornersAfter(s, Cycles(s))
Corners(s) == CornersAfter(s, Cycles(s)) \cup CornersAfter(s, Cycles(s) + 1)

(* The largest change within a step of d, the one at its end if several    *)
(* are as large, else the first of them.                                   *)
PulseChange(s, d) ==
    LET change(p) == vapp(s, p) - vapp(s, t)
        points == {t + d} \cup {p \in Corners(s) : t < p /\ p < t + d}
        largest == {p \in points : \A q \in points :
                       Magnitude(change(q)) <= Magnitude(change(p))}
    IN  change(IF t + d \in largest THEN t + d ELSE Min(largest))

dv_max(s, d) ==
    IF s.kind = "constant" THEN (IF t < s.td /\ t + d >= s.td THEN s.v2 ELSE 0)
    ELSE PulseChange(s, d)

Allowed(e) == IF e.drive = "voltage" THEN VStepMax ELSE IStepMax

(* What the sources of an electrode change by, added up.                   *)
bc_dv(e, d) ==
    LET sum[n \in 0 .. Len(e.sources)] ==
            IF n = 0 THEN 0 ELSE sum[n - 1] + dv_max(e.sources[n], d)
    IN  sum[Len(e.sources)]

TooLarge(d) == \E e \in Range(electrodes) : Magnitude(bc_dv(e, d)) > Allowed(e)

(* Is a corner within the step, and not too close? Slip: also beyond it.   *)
ReachesBeyond(p) == t < p /\ p - t >= TStepMin
Reaches(p) == t < p /\ t + dt > p /\ p - t >= TStepMin

(* The corners a pulse stops at: those of this period but its start, and   *)
(* the next start.                                                         *)
StopsOf(s) ==
    IF s.kind = "constant" THEN {}
    ELSE {s.td + Cycles(s) * s.pr + c : c \in Bends(s) \cup {s.pr}}

dt_critial_limit(s) ==
    LET reached == {p \in StopsOf(s) : Reaches(p)}
    IN  IF reached = {} THEN dt ELSE Min(reached) - t

------------------------------------------------------------------------------
LimitInit ==
    /\ electrodes \in Setups
    /\ t = 0
    /\ phase = "ask"
    /\ asked = 0 /\ dt = 0
    /\ it = 1 /\ i = 1

(* The march calls limit_dt with its clock and the step it would take.     *)
Ask ==
    /\ phase = "ask"
    /\ t < TStop
    /\ asked' \in 1 .. MaxStep
    /\ dt' = asked'
    /\ phase' = "shrink"
    /\ UNCHANGED <<electrodes, t, it, i>>

Shrink ==
    /\ phase = "shrink"
    /\ dt > TStepMin /\ TooLarge(dt)
    /\ dt' = (9 * dt) \div 10
    /\ UNCHANGED <<electrodes, t, phase, asked, it, i>>

SmallEnough ==
    /\ phase = "shrink"
    /\ ~(dt > TStepMin /\ TooLarge(dt))
    /\ phase' = "corner"
    /\ it' = 1 /\ i' = 1
    /\ UNCHANGED <<electrodes, t, asked, dt>>

AllLooked == it > Len(electrodes)

Corner ==
    /\ phase = "corner"
    /\ ~AllLooked /\ i <= Len(electrodes[it].sources)
    /\ dt' = dt_critial_limit(electrodes[it].sources[i])
    /\ i' = i + 1
    /\ UNCHANGED <<electrodes, t, phase, asked, it>>

NextElectrode ==
    /\ phase = "corner"
    /\ ~AllLooked /\ i > Len(electrodes[it].sources)
    /\ it' = it + 1 /\ i' = 1
    /\ UNCHANGED <<electrodes, t, phase, asked, dt>>

(* The march takes the step.                                               *)
Take ==
    /\ phase = "corner"
    /\ AllLooked
    /\ t' = t + dt
    /\ phase' = "ask"
    /\ UNCHANGED <<electrodes, asked, dt, it, i>>

Over == phase = "ask" /\ t >= TStop /\ UNCHANGED limitVars

LimitNext == Ask \/ Shrink \/ SmallEnough \/ Corner \/ NextElectrode \/ Take \/ Over

LimitSpec == LimitInit /\ [][LimitNext]_limitVars

------------------------------------------------------------------------------
Ready == phase = "corner" /\ AllLooked

(* Where a pulse jumps at once, the value before it is not seen: at the    *)
(* start of a later period, or at the end of the rise.                     *)
Jumps(s) == s.kind = "pulse" /\ (s.tr = 0 \/ s.pw + s.tf = 0)

(* The step the march takes is one of those Transient allows the sources   *)
(* to choose; and if it is longer than TStepMin, an electrode with one     *)
(* source changes nowhere within it, between its ends included, by more    *)
(* than it may. (Changes of several sources cancel.)                       *)
ChangeLimited ==
    Ready =>
        /\ dt \in 1 .. asked
        /\ dt = asked \/ 10 * dt >= 9 * TStepMin
        /\ dt > TStepMin =>
              \A e \in Range(electrodes) :
                 Len(e.sources) = 1 /\ ~Jumps(e.sources[1]) =>
                    \A u \in t .. t + dt :
                       Magnitude(vapp(e.sources[1], u) - vapp(e.sources[1], t)) <= Allowed(e)

(* The step jumps over no corner of any source between the start of the    *)
(* first pulse and the end of the present period, unless it is closer than *)
(* TStepMin, whatever the sources after it cut the step to.                *)
CornersKept ==
    Ready =>
        \A e \in Range(electrodes) : \A s \in Range(e.sources) :
            s.kind = "pulse" /\ t >= s.td =>
                \A p \in t + TStepMin .. t + dt - 1 :
                    p <= s.td + (Cycles(s) + 1) * s.pr =>
                        (p - s.td) % s.pr \notin {0} \cup Bends(s)
==============================================================================
