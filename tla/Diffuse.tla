------------------------------ MODULE Diffuse ------------------------------
(***************************************************************************)
(* The time stepping of SUPREM-IV: DIFFUSE cards, the loop of solve_time   *)
(* over the time steps of one, solstep that halves a step which cannot be  *)
(* solved, and timed_trbdf that solves a piece in two stages, by the       *)
(* trapezoidal rule and by a backward difference.                          *)
(*                                                                         *)
(* The solution and the grid are named by the time of the card they have   *)
(* been brought to.                                                        *)
(***************************************************************************)
EXTENDS Integers, Sequences

CONSTANTS
    Lengths,            \* times a DIFFUSE card may ask for
    Steps,              \* time steps the error estimate, the motion of the
                        \* grid and a formula may ask for
    InitTime,           \* init.time of the METHOD card
    OneSecond,
    MaxCards            \* bound on the number of DIFFUSE cards

(* The number 4 stands for a step that can still be halved once: a shorter *)
(* one is assumed to be solved. The code has no such bound.                *)
ASSUME StepsAssumption ==
    /\ \A s \in Lengths \cup Steps \cup {InitTime, OneSecond} :
          s \in Nat /\ s > 0 /\ s % 4 = 0
    /\ Lengths # {} /\ Steps # {}
    /\ MaxCards \in Nat

VARIABLES
    pc,                 \* "idle", or where in the loop: "loop", "tr", "bdf", "back"
    init_time,          \* methdata.init_time
    timemeth,           \* methdata.timemeth
    oxidizing,          \* does the gas of the card oxidize?
    total, t, time, del_df,
    calls,              \* the calls of solstep under way, the last one first
    sol,                \* history: time the stored solution has reached
    grid,               \* history: time for which the points have been moved
    base,               \* history: total when the card started
    cards               \* DIFFUSE cards so far

times == <<total, t, time, del_df>>
settings == <<init_time, timemeth, oxidizing>>
vars == <<pc, settings, times, calls, sol, grid, base, cards>>

Least(a, b) == IF a < b THEN a ELSE b

(* The time of the first stage: gam of the step, somewhere inside it.      *)
Stage(d) == d \div 2

CanFail(d) == d % 4 = 0

Call(d, compute) == [del_df |-> d, compute |-> compute, tsave |-> total, half |-> "none"]

Piece == Head(calls).del_df

Init ==
    /\ pc = "idle"
    /\ init_time = InitTime /\ timemeth = "trbdf" /\ oxidizing = FALSE
    /\ total = 0 /\ t = 0 /\ time = 0 /\ del_df = 0
    /\ calls = <<>>
    /\ sol = 0 /\ grid = 0 /\ base = 0
    /\ cards = 0

-----------------------------------------------------------------------------
(* METHOD between two DIFFUSE cards: init.time, trbdf or a formula.        *)
Method ==
    /\ pc = "idle"
    /\ init_time' \in {init_time, InitTime}
    /\ timemeth' \in {"trbdf", "form"}
    /\ UNCHANGED <<pc, oxidizing, times, calls, sol, grid, base, cards>>

(* The card up to the loop of solve_time. Only a card that follows another *)
(* one continues.                                                          *)
Diffuse(length, cont) ==
    /\ pc = "idle" /\ cards < MaxCards
    /\ cont => cards > 0
    /\ cards' = cards + 1
    /\ init_time' = IF cont THEN 0 ELSE init_time
    /\ oxidizing' \in BOOLEAN
    /\ total' = IF cont THEN total ELSE 0
    /\ del_df' = IF init_time' # 0 THEN init_time' ELSE del_df
    /\ t' = 0 /\ time' = length
    /\ base' = total' /\ sol' = 0 /\ grid' = 0
    /\ pc' = "loop"
    /\ UNCHANGED <<timemeth, calls>>

(* One turn of the loop, up to the call of solstep: the step ends with the *)
(* card and the growth of the oxide may cut it.                            *)
Step ==
    /\ pc = "loop" /\ t < time
    /\ LET clipped == Least(del_df, time - t)
           cut == IF oxidizing THEN {s \in Steps : s < clipped} ELSE {}
       IN  \E d \in {clipped} \cup cut :
              /\ del_df' = d
              /\ calls' = <<Call(d, TRUE)>>
    /\ pc' = "tr"
    /\ UNCHANGED <<settings, total, t, time, sol, grid, base, cards>>

(* Slip: the loop waits for t to pass the end the last step is cut to.     *)
EndPast ==
    /\ pc = "loop" /\ t > time
    /\ pc' = "idle"
    /\ UNCHANGED <<settings, times, calls, sol, grid, base, cards>>

End ==
    /\ pc = "loop" /\ t >= time
    /\ pc' = "idle"
    /\ UNCHANGED <<settings, times, calls, sol, grid, base, cards>>

-----------------------------------------------------------------------------
Moved(d) == IF oxidizing THEN grid + d ELSE grid

(* Halving the step of the last call after a failure, and calling for the  *)
(* first half.                                                             *)
Halves(piece, estimate) ==
    <<Call(piece, estimate),
      [Head(calls) EXCEPT !.del_df = piece, !.half = "first"]>> \o Tail(calls)

(* Slip: the first half is asked for an estimate.                          *)
SplitEstimating ==
    /\ calls' = Halves(Piece \div 2, TRUE)
    /\ pc' = "tr"

Split ==
    /\ calls' = Halves(Piece \div 2, FALSE)
    /\ pc' = "tr"

TrSolved ==
    /\ pc = "tr"
    /\ grid' = Moved(Stage(Piece))
    /\ total' = total + Stage(Piece)
    /\ pc' = "bdf"
    /\ UNCHANGED <<settings, t, time, del_df, calls, sol, base, cards>>

(* The points are moved to the first stage and back again.                 *)
TrFailed ==
    /\ pc = "tr" /\ CanFail(Piece)
    /\ Split
    /\ UNCHANGED <<settings, times, sol, grid, base, cards>>

BdfSolved ==
    /\ pc = "bdf"
    /\ grid' = Moved(Piece - Stage(Piece))
    /\ sol' = sol + Piece
    /\ total' = Head(calls).tsave
    /\ calls' = Tail(calls)
    /\ pc' = "back"
    /\ UNCHANGED <<settings, t, time, del_df, base, cards>>

(* Slip: the points move back to the first stage.                          *)
BdfFailedToStage ==
    /\ pc = "bdf" /\ CanFail(Piece)
    /\ grid' = grid
    /\ Split
    /\ UNCHANGED <<settings, times, sol, base, cards>>

(* The points move back by the whole piece; total stays where it is.       *)
BdfFailed ==
    /\ pc = "bdf" /\ CanFail(Piece)
    /\ grid' = Moved(-Stage(Piece))
    /\ Split
    /\ UNCHANGED <<settings, times, sol, base, cards>>

(* solstep after its first half: on to the second one.                     *)
SecondHalf ==
    /\ pc = "back" /\ calls # <<>>
    /\ Head(calls).half = "first"
    /\ LET call == Head(calls) IN
          /\ total' = total + call.del_df
          /\ calls' = <<[Call(call.del_df, call.compute) EXCEPT !.tsave = total'],
                        [call EXCEPT !.half = "second"]>> \o Tail(calls)
    /\ pc' = "tr"
    /\ UNCHANGED <<settings, t, time, del_df, sol, grid, base, cards>>

(* Slip: solstep undoes its own addition to total and nothing else.        *)
ReturnTotalLeft ==
    /\ pc = "back" /\ calls # <<>>
    /\ Head(calls).half = "second"
    /\ total' = total - Head(calls).del_df
    /\ calls' = Tail(calls)
    /\ UNCHANGED <<pc, settings, t, time, del_df, sol, grid, base, cards>>

(* solstep after its second half: back to its caller.                      *)
Return ==
    /\ pc = "back" /\ calls # <<>>
    /\ Head(calls).half = "second"
    /\ total' = Head(calls).tsave
    /\ calls' = Tail(calls)
    /\ UNCHANGED <<pc, settings, t, time, del_df, sol, grid, base, cards>>

-----------------------------------------------------------------------------
(* The next step: the least of what the error and the motion of the grid   *)
(* allow, and with a formula what it says. The error estimate counts for   *)
(* one second then, as the code neither computes nor scales it.            *)
Allowed ==
    LET fromError == IF timemeth = "form" THEN {OneSecond} ELSE Steps
        fromGrid  == IF oxidizing THEN Steps ELSE {time - t + OneSecond}
    IN  {Least(e, Least(g, time - t + OneSecond)) : e \in fromError, g \in fromGrid}

(* What the formula says, or the step allowed when it cannot be used.      *)
time_form(dt) == Steps \cup {dt}

Returned ==
    /\ pc = "back" /\ calls = <<>>
    /\ total' = total + del_df
    /\ t' = t + del_df
    /\ \E dt \in Allowed :
          del_df' \in IF timemeth = "form" THEN time_form(dt) ELSE {dt}
    /\ pc' = "loop"
    /\ UNCHANGED <<settings, time, calls, sol, grid, base, cards>>

Card == \E length \in Lengths, cont \in BOOLEAN : Diffuse(length, cont)

solve_time ==
    \/ Step \/ TrSolved \/ TrFailed \/ BdfSolved \/ BdfFailed
    \/ SecondHalf \/ Return \/ Returned \/ End

Next == Method \/ Card \/ solve_time

(* One thread runs the card; nothing obliges the deck to hold another one. *)
Spec == Init /\ [][Next]_vars /\ WF_vars(solve_time)

-----------------------------------------------------------------------------
(* Every variable keeps its type: no step and no piece is empty, and a     *)
(* stage is solved for the last call only, which is not halved yet.        *)
TypeOK ==
    /\ pc \in {"idle", "loop", "tr", "bdf", "back"}
    /\ init_time \in {0, InitTime} /\ timemeth \in {"trbdf", "form"}
    /\ oxidizing \in BOOLEAN
    /\ total \in Nat /\ t \in Nat /\ time \in Nat /\ del_df \in Nat
    /\ calls \in Seq([del_df : Nat \ {0}, compute : BOOLEAN, tsave : Nat,
                      half : {"none", "first", "second"}])
    /\ pc \in {"tr", "bdf"} <=> calls # <<>> /\ Head(calls).half = "none"
    /\ sol \in Nat /\ grid \in Nat /\ base \in Nat
    /\ cards \in 0 .. MaxCards

(* However steps fail and are halved, the points of the grid have been     *)
(* moved for exactly the time the stored solution has been solved for,     *)
(* except between the two stages of a piece (upd_diff, move_point and the  *)
(* returns -1 of timed_trbdf).                                             *)
GridFollows ==
    oxidizing => grid = sol + (IF pc = "bdf" THEN Stage(Piece) ELSE 0)

(* The pieces a step is split into cover it: the solution is at the time   *)
(* of the loop whenever the loop starts a turn, at the end of the step     *)
(* when solstep returns to it, and a piece never reaches past the step.    *)
(* The total time has advanced as much, whatever the recursion did to it:  *)
(* solstep leaves total as it found it.                                    *)
Covered ==
    /\ pc \in {"loop", "idle"} => sol = t /\ total = base + t
    /\ pc = "back" /\ calls = <<>> => sol = t + del_df
    /\ pc \in {"tr", "bdf"} => sol >= t /\ sol + Piece <= t + del_df

(* The error that sets the next step is that of the piece the step ends    *)
(* with, and no other piece is solved twice to estimate one (compute).     *)
EstimatedLast ==
    pc = "tr" => (Head(calls).compute <=> sol + Piece = t + del_df)

(* Every card comes to its end.                                            *)
Terminates == pc # "idle" ~> pc = "idle"
=============================================================================
