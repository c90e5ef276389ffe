------------------------------- MODULE Descent -------------------------------
(***************************************************************************)
(* How the proofs measure what is left of a loop: by a tuple of natural    *)
(* numbers that decreases at its first entry to change. There is no        *)
(* endless descent in that order, whatever the numbers are                 *)
(* (WFLexProductOrdering of WellFoundedInduction), so that a loop whose    *)
(* every step descends is left after finitely many steps.                  *)
(***************************************************************************)
EXTENDS WellFoundedInduction

Fewer(n) == LexProductOrdering(OpToRel(<, Nat), Nat, n)
==============================================================================
