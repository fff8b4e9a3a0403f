--------------------------- MODULE AdaptiveContext ---------------------------
(***************************************************************************)
(* `verity context --adaptive`: before the pipeline runs, the health of    *)
(* the transcript decides whether saved records are put in front of it,    *)
(* and a budget of their own which (context/adaptive.py, health.py,        *)
(* memory/surface.py).  What comes out is an input of ContextPipeline like *)
(* any other, and the pipeline runs on it unchanged.                       *)
(***************************************************************************)
EXTENDS ContextPipeline, SequencesExt

CONSTANTS Saved,     \* sequences of records that may be on file
          Window,    \* tokens of the model's window
          PushShare  \* percent of it that a push may use (15)

ASSUME SavedAssumption ==
    /\ \A s \in Saved : s \in Seq({item \in Items : item.kind = "memory" /\ item.tokens > 0})
    /\ Window \in Nat \ {0} /\ PushShare \in 0 .. 100

VARIABLES saved,    \* candidates_for: the records on file
          asked,    \* --adaptive was given, and the pre-pass is to come
          surfaced  \* the records it put in front

adaptive == <<saved, asked, surfaced>>
allVars == <<vars, adaptive>>
----------------------------------------------------------------------------
(* The trigger and the budget.                                             *)

Tokens(K) == MapThenSumSet(LAMBDA i : ctx[i].tokens, K)

\* compute_health: classify_all of the transcript as it is, duplicates included.
UsefulIn(K) == Tokens({i \in K : Relevance(i, K) \in {"critical", "relevant"}})

\* should_surface: at least 75% of the window used, or at most 50% of it useful.
Triggered ==
    LET items == {i \in Positions : ctx[i].tokens > 0}
    IN  4 * Tokens(items) >= 3 * Window \/ 2 * UsefulIn(items) <= Tokens(items)

\* plan_budget.
Room == (Window * PushShare) \div 100

\* The order of select: what the ranker could score, as it ranks it, and then the
\* rest as it is on file; it must not vanish for having no word in common with the
\* task.
Orders ==
    {order \in SetToSeqs(DOMAIN saved) :
        \E scored \in 0 .. Len(saved) :
            \A i, j \in scored + 1 .. Len(saved) : i < j => order[i] < order[j]}

\* Mutant: the first record that does not fit ends the selection.
SelectedUntilFull(order) ==
    FoldLeft(LAMBDA acc, i :
                IF acc.full \/ acc.used + saved[i].tokens > Room THEN [acc EXCEPT !.full = TRUE]
                ELSE [acc EXCEPT !.chosen = Append(@, saved[i]), !.used = @ + saved[i].tokens],
             [chosen |-> <<>>, used |-> 0, full |-> FALSE], order).chosen

\* select: a record that does not fit is passed over, a smaller one may follow.
Selected(order) ==
    FoldLeft(LAMBDA acc, i :
                IF acc.used + saved[i].tokens > Room THEN acc
                ELSE [chosen |-> Append(acc.chosen, saved[i]), used |-> acc.used + saved[i].tokens],
             [chosen |-> <<>>, used |-> 0], order).chosen
----------------------------------------------------------------------------
\* The command needs a task for --adaptive.  MaxLength bounds the merged context.
AdaptiveInit ==
    /\ Init /\ pushed = 0
    /\ saved \in Saved
    /\ asked \in IF task /\ Len(ctx) + Len(saved) <= MaxLength THEN BOOLEAN ELSE {FALSE}
    /\ surfaced = <<>>

\* Mutant: the records come last.
MergedBehind(records) == ctx \o records

\* context: merged = surfaced + items.
Merged(records) == records \o ctx

\* measure, for a context that has become longer.
Remeasured ==
    /\ kept' = {i \in Positions' : ctx'[i].tokens > 0}
    /\ class' = [i \in Positions' |-> "none"]
    /\ score' = [i \in Positions' |-> 0]
    /\ count' = [i \in Positions' |-> ctx'[i].tokens]
    /\ place' = [i \in Positions' |-> "none"]

\* _adaptive_prepass; without a trigger nothing is pushed.
Prepass ==
    /\ asked
    /\ asked' = FALSE
    /\ \E order \in Orders : surfaced' = IF Triggered THEN Selected(order) ELSE <<>>
    /\ ctx' = Merged(surfaced')
    /\ pushed' = Len(surfaced')
    /\ Remeasured
    /\ UNCHANGED <<budget, task, stage, short, total, dropped, ledger, saved>>

AdaptiveNext ==
    \/ Prepass
    \/ ~asked /\ Next /\ UNCHANGED adaptive

AdaptiveSpec == AdaptiveInit /\ [][AdaptiveNext]_allVars
----------------------------------------------------------------------------
(* Correctness.                                                            *)

\* What was worth pushing survives what it is pushed into: whatever the transcript
\* repeats of it and however small the budget, a surfaced record, or another one
\* with its text, is in the result in full, as what it is.
SurfacedSurvive ==
    stage = "done" => \A r \in DOMAIN surfaced :
        \E i \in kept \ short :
            ctx[i].kind = "memory" /\ ctx[i].hash = surfaced[r].hash /\ Protected(i)

\* A push never uses more than its room, and no record is withheld that would fit
\* in what is left of it, be it one the ranker could not score.
PushIsMaximal ==
    LET size == [r \in DOMAIN surfaced |-> surfaced[r].tokens]
        used == MapThenSumSet(LAMBDA r : size[r], DOMAIN surfaced)
    IN  (~asked /\ surfaced # <<>>) =>
            /\ used <= Room
            /\ \A i \in DOMAIN saved :
                (\A r \in DOMAIN surfaced : surfaced[r] # saved[i]) => used + saved[i].tokens > Room
=============================================================================
