------------------------------- MODULE Session -------------------------------
(***************************************************************************)
(* SolverControl: the cards of an input deck, one after the other. Every   *)
(* SOLVE card sets global parameters (namespace SolverSpecify), makes a    *)
(* solver, and runs one analysis; what the card does not set stays as the  *)
(* cards before it, and the analyses they ran, have left it. An analysis   *)
(* is reduced to what it leaves behind: the modules DCSweep, Transient,    *)
(* OpRamp, SteadyState and IvTrace have its steps.                         *)
(***************************************************************************)
CONSTANTS
    Electrodes,         \* the electrodes of the device
    Contacts,           \* the sets of electrodes an ATTACH card can name
    VSources, ISources, \* voltage and current sources, by label
    Constant,           \* those an ATTACH card makes with vconst and iconst
    Cards               \* the cards the deck may hold: "METHOD", "ATTACH", the
                        \* types of SOLVE, its options "pseudotime" and
                        \* "tran.histroy"

Sources == VSources \cup ISources

ASSUME DeckAssumption ==
    /\ Contacts \subseteq (SUBSET Electrodes) \ {{}}
    /\ VSources \cap ISources = {} /\ Constant \subseteq Sources
    /\ Sources \cap {"none", "zero", "scan", "ramp"} = {}

VARIABLES
    pc,                 \* at the next card of the "deck", at the "begin" of an
                        \* analysis, in its "solve"
    Type,               \* the type of the analysis
    Electrode_VScan, Electrode_IScan,
    PseudoTimeMethod,   \* take the criterion for pseudo time steps?
    TimeDependent,
    tran_histroy,       \* is the state that of a transient analysis?
    source,             \* the source attached to an electrode
    drv,                \* is the electrode driven by a voltage or a current?
    Vapp, Iapp,         \* both, as set last: by a source, to "zero", by a
                        \* "scan", or part of the way by a "ramp"
    stored,             \* whose solution the nodes hold: "none", "dc", "tran"
    failed              \* history: has the last analysis stored nothing?

drives == <<drv, Vapp, Iapp>>
scans == <<Electrode_VScan, Electrode_IScan>>
vars == <<pc, Type, scans, PseudoTimeMethod, TimeDependent, tran_histroy,
          source, drives, stored, failed>>

Analyses == {"EQUILIBRIUM", "STEADYSTATE", "DCSWEEP", "OP", "TRANSIENT", "TRACE"}

Init ==
    /\ pc = "deck" /\ Type = "none"
    /\ Electrode_VScan = {} /\ Electrode_IScan = {}
    /\ PseudoTimeMethod = FALSE
    /\ TimeDependent = FALSE
    /\ tran_histroy = FALSE
    /\ source = [e \in Electrodes |-> "none"]
    /\ drv = [e \in Electrodes |-> "V"]
    /\ Vapp = [e \in Electrodes |-> "zero"]
    /\ Iapp = [e \in Electrodes |-> "zero"]
    /\ stored = "none"
    /\ failed = FALSE

------------------------------------------------------------------------------
(* The drives once ElectricalSource::update has run from the drives given  *)
(* as a record: an electrode with a source follows it, the others keep     *)
(* what was set last. Then: the electrodes to ground; a scan.              *)
Now == [drv |-> drv, V |-> Vapp, I |-> Iapp]

Updated(d) ==
    [drv |-> [e \in Electrodes |->
                 IF source[e] = "none" THEN d.drv[e]
                 ELSE IF source[e] \in VSources THEN "V" ELSE "I"],
     V |-> [e \in Electrodes |-> IF source[e] \in VSources THEN source[e] ELSE d.V[e]],
     I |-> [e \in Electrodes |-> IF source[e] \in ISources THEN source[e] ELSE d.I[e]]]

Grounded(d) ==
    [d EXCEPT !.V = [e \in Electrodes |-> "zero"], !.I = [e \in Electrodes |-> "zero"]]

Scanned(d) ==
    [drv |-> [e \in Electrodes |->
                 IF e \in Electrode_VScan THEN "V"
                 ELSE IF e \in Electrode_IScan THEN "I" ELSE d.drv[e]],
     V |-> [e \in Electrodes |-> IF e \in Electrode_VScan THEN "scan" ELSE d.V[e]],
     I |-> [e \in Electrodes |-> IF e \in Electrode_IScan THEN "scan" ELSE d.I[e]]]

(* The sources after a ramp that stopped on its way.                       *)
Partly(d) ==
    [d EXCEPT !.V = [e \in Electrodes |-> IF source[e] \in VSources THEN "ramp" ELSE d.V[e]],
              !.I = [e \in Electrodes |-> IF source[e] \in ISources THEN "ramp" ELSE d.I[e]]]

Drive(d) == drv' = d.drv /\ Vapp' = d.V /\ Iapp' = d.I

(* The order in which a DC sweep sets its drives, and a slip: the sources  *)
(* come after the scan and take the electrode back.                        *)
SourcesLast == Updated(Scanned(Now))
SweepDrives == Scanned(Updated(Now))
TraceDrives == Updated(Scanned(Now))

(* What a DC analysis leaves in tran_histroy; a slip.                      *)
HistoryKept == tran_histroy
NoHistory == FALSE

------------------------------------------------------------------------------
(* The cards. METHOD resets every parameter to its default.                *)
Method ==
    /\ pc = "deck"
    /\ "METHOD" \in Cards
    /\ Type' = "EQUILIBRIUM"
    /\ PseudoTimeMethod' = FALSE
    /\ TimeDependent' = FALSE
    /\ tran_histroy' = FALSE
    /\ UNCHANGED <<pc, scans, source, drives, stored, failed>>

(* The electrodes that ATTACH gives a source to: all of the contact, but a *)
(* constant is given to the first only.                                    *)
Reached(es, s) == IF s \in Constant THEN {{e} : e \in es} ELSE {es}

Given(f, es, s) == [e \in Electrodes |-> IF e \in es THEN s ELSE f[e]]

Attach ==
    /\ pc = "deck"
    /\ "ATTACH" \in Cards
    /\ \E es \in Contacts, s \in Sources :
          \E reached \in Reached(es, s) : source' = Given(source, reached, s)
    /\ UNCHANGED <<pc, Type, scans, PseudoTimeMethod, TimeDependent, tran_histroy,
                   drives, stored, failed>>

(* The part of do_solve before it runs the solver.                         *)
Command(t) ==
    /\ pc = "deck"
    /\ t \in Cards
    /\ Type' = t
    /\ pc' = "begin"

SolveEquilibrium ==
    /\ Command("EQUILIBRIUM")
    /\ UNCHANGED <<scans, PseudoTimeMethod, TimeDependent, tran_histroy, source,
                   drives, stored, failed>>

(* STEADYSTATE and OP may attach a constant source.                        *)
SolveSteady ==
    /\ Command("STEADYSTATE") \/ Command("OP")
    /\ PseudoTimeMethod' \in IF "pseudotime" \in Cards THEN BOOLEAN ELSE {FALSE}
    /\ \/ UNCHANGED source
       \/ \E e \in Electrodes, s \in Sources : source' = Given(source, {e}, s)
    /\ UNCHANGED <<scans, TimeDependent, tran_histroy, drives, stored, failed>>

SolveScan ==
    /\ Command("DCSWEEP")
    /\ \E es \in (SUBSET Electrodes) \ {{}} :
          \/ Electrode_VScan' = es /\ Electrode_IScan' = {}
          \/ Electrode_VScan' = {} /\ Electrode_IScan' = es
    /\ UNCHANGED <<PseudoTimeMethod, TimeDependent, tran_histroy, source, drives, stored, failed>>

SolveTrace ==
    /\ Command("TRACE")
    /\ \E e \in Electrodes : Electrode_VScan' = {e}
    /\ Electrode_IScan' = {}
    /\ UNCHANGED <<PseudoTimeMethod, TimeDependent, tran_histroy, source, drives, stored, failed>>

SolveTransient ==
    /\ Command("TRANSIENT")
    /\ TimeDependent' = TRUE
    /\ tran_histroy' \in IF "tran.histroy" \in Cards THEN BOOLEAN ELSE {tran_histroy}
    /\ UNCHANGED <<scans, PseudoTimeMethod, source, drives, stored, failed>>

------------------------------------------------------------------------------
(* What each analysis does before its first Newton solve.                  *)
Begin(t) == pc = "begin" /\ Type = t /\ pc' = "solve"

BeginEquilibrium ==
    /\ Begin("EQUILIBRIUM")
    /\ Drive(Grounded(Updated(Now)))
    /\ TimeDependent' = FALSE
    /\ tran_histroy' = NoHistory
    /\ UNCHANGED <<Type, scans, PseudoTimeMethod, source, stored, failed>>

BeginSteady ==
    /\ Begin("STEADYSTATE")
    /\ Drive(Updated(Now))
    /\ TimeDependent' = FALSE
    /\ tran_histroy' = NoHistory
    /\ UNCHANGED <<Type, scans, PseudoTimeMethod, source, stored, failed>>

BeginOp ==
    /\ Begin("OP")
    /\ Drive(Updated(Now)) \/ Drive(Partly(Updated(Now)))
    /\ TimeDependent' = FALSE
    /\ UNCHANGED <<Type, scans, PseudoTimeMethod, tran_histroy, source, stored, failed>>

BeginSweep ==
    /\ Begin("DCSWEEP")
    /\ Drive(SweepDrives)
    /\ TimeDependent' = FALSE
    /\ UNCHANGED <<Type, scans, PseudoTimeMethod, tran_histroy, source, stored, failed>>

BeginTrace ==
    /\ Begin("TRACE")
    /\ Drive(TraceDrives)
    /\ TimeDependent' = FALSE
    /\ UNCHANGED <<Type, scans, PseudoTimeMethod, tran_histroy, source, stored, failed>>

(* The sources are updated here or, with a history, by the first step.     *)
BeginTransient ==
    /\ Begin("TRANSIENT")
    /\ Drive(Updated(Now))
    /\ TimeDependent' = TRUE
    /\ UNCHANGED <<Type, scans, PseudoTimeMethod, tran_histroy, source, stored, failed>>

(* The end of the analysis. One that fails has stored solutions, or none;  *)
(* do_solve does not look at the error it returns.                         *)
End ==
    /\ pc = "solve"
    /\ failed' \in BOOLEAN
    /\ stored' = IF failed' THEN stored
                 ELSE IF Type = "TRANSIENT" THEN "tran" ELSE "dc"
    /\ tran_histroy' = IF Type = "TRANSIENT" THEN TRUE ELSE NoHistory
    /\ pc' = "deck"
    /\ UNCHANGED <<Type, scans, PseudoTimeMethod, TimeDependent, source, drives>>

(* The cards in the order of the deck, which may be any.                   *)
Next ==
    \/ Method \/ Attach
    \/ SolveEquilibrium \/ SolveSteady \/ SolveScan \/ SolveTrace \/ SolveTransient
    \/ BeginEquilibrium \/ BeginSteady \/ BeginOp \/ BeginSweep \/ BeginTrace
    \/ BeginTransient \/ End

Spec == Init /\ [][Next]_vars

------------------------------------------------------------------------------
(* Every variable keeps its type, and a scan is of voltages or currents.   *)
TypeOK ==
    /\ pc \in {"deck", "begin", "solve"}
    /\ Type \in Analyses \cup {"none"}
    /\ Electrode_VScan \subseteq Electrodes /\ Electrode_IScan \subseteq Electrodes
    /\ Electrode_VScan = {} \/ Electrode_IScan = {}
    /\ PseudoTimeMethod \in BOOLEAN /\ TimeDependent \in BOOLEAN
    /\ tran_histroy \in BOOLEAN
    /\ source \in [Electrodes -> Sources \cup {"none"}]
    /\ drv \in [Electrodes -> {"V", "I"}]
    /\ Vapp \in [Electrodes -> VSources \cup {"zero", "scan", "ramp"}]
    /\ Iapp \in [Electrodes -> ISources \cup {"zero", "scan", "ramp"}]
    /\ stored \in {"none", "dc", "tran"}
    /\ failed \in BOOLEAN

Applied(e) == IF drv[e] = "V" THEN Vapp[e] ELSE Iapp[e]

(* While an analysis solves, every electrode is driven as the deck says:   *)
(* grounded in equilibrium; by the scan when it is scanned; else by the    *)
(* source attached last, whatever analyses have set it to since. Only a    *)
(* traced electrode follows its source: solve_iv_trace updates the sources *)
(* after it has set the start voltage.                                     *)
DriveAsCommanded ==
    pc = "solve" => \A e \in Electrodes :
        IF Type = "EQUILIBRIUM" THEN Applied(e) = "zero"
        ELSE IF Type = "DCSWEEP" /\ e \in Electrode_VScan
             THEN drv[e] = "V" /\ Vapp[e] = "scan"
        ELSE IF Type = "DCSWEEP" /\ e \in Electrode_IScan
             THEN drv[e] = "I" /\ Iapp[e] = "scan"
        ELSE IF source[e] # "none"
             THEN /\ drv[e] = IF source[e] \in VSources THEN "V" ELSE "I"
                  /\ Applied(e) \in {source[e]} \cup (IF Type = "OP" THEN {"ramp"} ELSE {})
        ELSE Type = "TRACE" /\ e \in Electrode_VScan => drv[e] = "V" /\ Vapp[e] = "scan"

(* A transient analysis that skips the initialisation of the circuits goes *)
(* on from the solution of another one: whatever solves in between stores  *)
(* a DC solution and takes the history away. The exception is a transient  *)
(* analysis just before that has stored nothing and claims a history all   *)
(* the same. (After a METHOD card the circuits may be initialised once too *)
(* often.)                                                                 *)
HistoryTrue ==
    pc = "begin" /\ Type = "TRANSIENT" /\ tran_histroy => stored = "tran" \/ failed
==============================================================================
