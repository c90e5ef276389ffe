------------------------------ MODULE MCNewton ------------------------------
(* Instances of Newton for TLC: few levels in few equations at a time.     *)
EXTENDS Newton

MCBoth == BOOLEAN

(* Residuals where the given equations may differ from zero.               *)
Some(es, levels) == {[e \in Equations |-> IF e \in es THEN v[e] ELSE 0] : v \in [es -> levels]}
MCCarriers == Some({elec_continuity}, {0, 1, 3, 6})
                \cup {[e \in Equations |-> IF e = electrode THEN 3 ELSE v] : v \in {0, 3}}
=============================================================================
