---------------------------- MODULE Continuation ----------------------------
(***************************************************************************)
(* What a sweep of a bias, a march in time and a ramp of the sources have  *)
(* in common, whatever the way they step: solutions are stored one after   *)
(* the other, each further along than the one before and never more than   *)
(* MaxStep further, none past the stop; success is reported only when the  *)
(* solution stored last is the one at the stop.                            *)
(***************************************************************************)
EXTENDS Integers

CONSTANTS
    Origin,             \* what is stored at first: a point, or no point
    First,              \* the points that can follow when it is no point
    Stop,
    MaxStep

VARIABLES
    accepted,           \* the point of the solution stored last
    status              \* "running", "complete" or "failed"

vars == <<accepted, status>>

Init ==
    /\ accepted = Origin
    /\ status = "running"

Begin ==
    /\ status = "running"
    /\ accepted \notin Int
    /\ \E b \in First : b <= Stop /\ accepted' = b
    /\ UNCHANGED status

Advance ==
    /\ status = "running"
    /\ accepted \in Int
    /\ \E b \in (accepted + 1) .. (accepted + MaxStep) :
          b <= Stop /\ accepted' = b
    /\ UNCHANGED status

(* Nothing at all is stored when every first point lies past the stop.     *)
Complete ==
    /\ status = "running"
    /\ accepted = Stop \/ (accepted \notin Int /\ \A b \in First : b > Stop)
    /\ status' = "complete"
    /\ UNCHANGED accepted

Fail ==
    /\ status = "running"
    /\ status' = "failed"
    /\ UNCHANGED accepted

Next == Begin \/ Advance \/ Complete \/ Fail

Spec == Init /\ [][Next]_vars
==============================================================================
