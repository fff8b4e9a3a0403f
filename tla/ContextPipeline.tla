--------------------------- MODULE ContextPipeline ---------------------------
(***************************************************************************)
(* ContextPipeline.run (context/prune.py): dedup, classify, rank, filter,  *)
(* compress, budget and place, one action per stage, but for the budget,   *)
(* whose loop drops one item a step.                                       *)
(*                                                                         *)
(* No stage adds or edits an item other than by eliding its middle, so the *)
(* pruned context is a set of positions of the original one.  Scores are   *)
(* whatever a ranker comes up with.                                        *)
(***************************************************************************)
EXTENDS Integers, Sequences, FiniteSetsExt

CONSTANTS Items,        \* what a context is made of
          MaxLength,    \* bound: items of a context
          Budgets,      \* budgets a caller may ask for
          NoBudget,     \* the caller asks for none
          MaxScore,     \* bound: scores of the ranker; 0 is no match
          RecentOver,   \* contexts longer than this have recent items (10)
          RecentMin,    \* at least so many (3)
          RecentShare   \* and one in so many (10)

\* hash: content_hash, equal for texts that differ in white space only.
\* mark: the text has a marker of CRITICAL_MARKERS or a financial figure, or
\* else one of OBSOLETE_MARKERS.  noise: _is_noise.  long: over
\* MAX_TOOL_OUTPUT_CHARS.  tokens, elided: its size, and with its middle elided.
Kinds == {"message", "tool", "memory", "system"}
Marks == {"critical", "obsolete", "none"}

ASSUME ItemsAssumption ==
    \A item \in Items :
        /\ item.kind \in Kinds /\ item.mark \in Marks
        /\ item.noise \in BOOLEAN /\ item.long \in BOOLEAN
        /\ item.tokens \in Nat /\ item.elided \in Nat
ASSUME BoundsAssumption ==
    /\ MaxLength \in Nat /\ MaxScore \in Nat
    /\ Budgets \subseteq Nat /\ NoBudget \notin Nat
    /\ RecentOver \in Nat /\ RecentMin \in Nat /\ RecentShare \in Nat \ {0}

VARIABLES ctx,      \* the context: sequence of items
          pushed,   \* so many records were put in front of it, see AdaptiveContext
          budget,   \* the budget asked for
          task,     \* a task is given to rank against
          stage,    \* the stage to come
          kept,     \* positions of the items that are left
          class,    \* [positions -> relevance]
          score,    \* [positions -> rank_score]
          short,    \* positions whose middle was elided
          count,    \* [positions -> token_count]
          total,    \* the budget loop's running total
          dropped,  \* positions the budget loop dropped
          ledger,   \* stages so far: tokens before and after
          place     \* [positions -> the part of the context they end up in]

vars == <<ctx, pushed, budget, task, stage, kept, class, score, short, count, total, dropped, ledger, place>>
input == <<ctx, pushed, budget, task>>
----------------------------------------------------------------------------
Relevances == {"critical", "relevant", "redundant", "obsolete", "irrelevant", "none"}
Stages == {"dedup", "classify", "rank", "filter", "compress", "budget", "drop", "place", "done"}

Positions == 1 .. Len(ctx)

\* The first item of the same content among those at K.
First(i, K) == \A j \in K : j < i => ctx[j].hash # ctx[i].hash

Counted(K) == MapThenSumSet(LAMBDA i : count[i], K)

\* Explicit intent, and what must survive by its kind.
Pinned(i) == ctx[i].mark = "critical" \/ ctx[i].kind \in {"memory", "system"}

\* original_index: the index in the transcript that was loaded, which `or` replaces
\* by the one in the merged context if it is 0.
Index(i) == IF i = pushed + 1 THEN pushed ELSE IF i > pushed THEN i - pushed - 1 ELSE i - 1

Older(i, j) == Index(i) < Index(j) \/ (Index(i) = Index(j) /\ i < j)

\* The most recent items of n.
Recent(i, n) ==
    n > RecentOver /\ Index(i) >= n - Max({RecentMin, n \div RecentShare})

\* The cascade of _decide, for the items at K classified in order.
Relevance(i, K) ==
    IF Pinned(i) THEN "critical"
    ELSE IF ctx[i].mark = "obsolete" THEN "obsolete"
    ELSE IF ~First(i, K) THEN "redundant"
    ELSE IF ctx[i].kind = "tool" /\ ctx[i].noise THEN "irrelevant"
    ELSE IF Recent(i, Cardinality(K)) THEN "critical"
    ELSE "relevant"

Protected(i) == class[i] = "critical"

\* _DROP_ORDER: the buckets the budget gives up, first to last.
DropOrder == [irrelevant |-> 1, obsolete |-> 2, redundant |-> 3, relevant |-> 4]
----------------------------------------------------------------------------
(* Stages.                                                                 *)

\* measure counts each item; a message without content is no item.  Records of
\* memory are those that were pushed in front, for which a task was needed.
Init ==
    /\ ctx \in UNION {[1 .. n -> Items] : n \in 0 .. MaxLength}
    /\ pushed \in 0 .. Len(ctx)
    /\ \A i \in Positions : ctx[i].kind = "memory" <=> i <= pushed
    /\ budget \in Budgets \cup {NoBudget}
    /\ task \in IF pushed > 0 THEN {TRUE} ELSE BOOLEAN
    /\ stage = "dedup"
    /\ kept = {i \in Positions : ctx[i].tokens > 0}
    /\ class = [i \in Positions |-> "none"]
    /\ score = [i \in Positions |-> 0]
    /\ short = {}
    /\ count = [i \in Positions |-> ctx[i].tokens]
    /\ total = 0
    /\ dropped = {}
    /\ ledger = <<>>
    /\ place = [i \in Positions |-> "none"]

\* _stage: the ledger's entry of a stage that ends here.
Record ==
    ledger' = Append(ledger, [before |-> Counted(kept),
                              after |-> MapThenSumSet(LAMBDA i : count'[i], kept')])

Enter(next) == stage' = next /\ Record

Dedup ==
    /\ stage = "dedup"
    /\ kept' = {i \in kept : First(i, kept)}
    /\ UNCHANGED <<input, class, score, short, count, total, dropped, place>>
    /\ Enter("classify")

Classify ==
    /\ stage = "classify"
    /\ class' = [i \in Positions |-> IF i \in kept THEN Relevance(i, kept) ELSE "none"]
    /\ UNCHANGED <<input, kept, score, short, count, total, dropped, place>>
    /\ Enter(IF task THEN "rank" ELSE "filter")

\* Mutant: items the ranker did not match get no score.
RankMatched ==
    /\ stage = "rank"
    /\ \E matched \in SUBSET kept : score' \in [matched -> 1 .. MaxScore]
    /\ UNCHANGED <<input, kept, class, short, count, total, dropped, place>>
    /\ Enter("filter")

\* Without a match the score is 0.
Rank ==
    /\ stage = "rank"
    /\ \E s \in [kept -> 0 .. MaxScore] :
            score' = [i \in Positions |-> IF i \in kept THEN s[i] ELSE 0]
    /\ UNCHANGED <<input, kept, class, short, count, total, dropped, place>>
    /\ Enter("filter")

\* Mutant: whatever the relevance is.
FilterTools ==
    /\ stage = "filter"
    /\ kept' = {i \in kept : ctx[i].kind # "tool" \/ Protected(i)}
    /\ UNCHANGED <<input, class, score, short, count, total, dropped, place>>
    /\ Enter("compress")

Filter ==
    /\ stage = "filter"
    /\ kept' = {i \in kept : ~(ctx[i].kind = "tool" /\ class[i] = "irrelevant")}
    /\ UNCHANGED <<input, class, score, short, count, total, dropped, place>>
    /\ Enter("compress")

\* Mutants: protected output is elided too; token counts stay.
CompressAll ==
    /\ stage = "compress"
    /\ short' = {i \in kept : ctx[i].kind = "tool" /\ ctx[i].long}
    /\ count' = [i \in Positions |-> IF i \in short' THEN ctx[i].elided ELSE count[i]]
    /\ UNCHANGED <<input, kept, class, score, total, dropped, place>>
    /\ Enter(IF budget = NoBudget THEN "place" ELSE "budget")
CompressUncounted ==
    /\ stage = "compress"
    /\ short' = {i \in kept : ctx[i].kind = "tool" /\ ~Protected(i) /\ ctx[i].long}
    /\ UNCHANGED <<input, kept, class, score, count, total, dropped, place>>
    /\ Enter(IF budget = NoBudget THEN "place" ELSE "budget")

Compress ==
    /\ stage = "compress"
    /\ short' = {i \in kept : ctx[i].kind = "tool" /\ ~Protected(i) /\ ctx[i].long}
    /\ count' = [i \in Positions |-> IF i \in short' THEN ctx[i].elided ELSE count[i]]
    /\ UNCHANGED <<input, kept, class, score, total, dropped, place>>
    /\ Enter(IF budget = NoBudget THEN "place" ELSE "budget")

BudgetBegin ==
    /\ stage = "budget"
    /\ stage' = "drop"
    /\ total' = Counted(kept)
    /\ UNCHANGED <<input, kept, class, score, short, count, dropped, ledger, place>>

\* Mutant: the comparison is off by one.
ReachesBudget == total >= budget

OverBudget == total > budget
Droppable == {i \in kept : ~Protected(i)}

\* Mutant: the newest of the worst-ranked goes first.
NextNewest(i) ==
    /\ i \in Droppable
    /\ \A j \in Droppable :
        /\ DropOrder[class[i]] <= DropOrder[class[j]]
        /\ class[j] = class[i] => score[i] <= score[j]
        /\ class[j] = class[i] /\ score[j] = score[i] => i = j \/ Older(j, i)

\* Bucket by bucket, the worst-ranked first, the oldest of these first.
NextToDrop(i) ==
    /\ i \in Droppable
    /\ \A j \in Droppable :
        /\ DropOrder[class[i]] <= DropOrder[class[j]]
        /\ class[j] = class[i] => score[i] <= score[j]
        /\ class[j] = class[i] /\ score[j] = score[i] => i = j \/ Older(i, j)

Drop(i) ==
    /\ stage = "drop" /\ OverBudget
    /\ NextToDrop(i)
    /\ kept' = kept \ {i}
    /\ dropped' = dropped \cup {i}
    /\ total' = total - count[i]
    /\ UNCHANGED <<input, stage, class, score, short, count, ledger, place>>

\* The stage's entry counts the items it was given, and what is left of them.
BudgetEnd ==
    /\ stage = "drop"
    /\ ~OverBudget \/ Droppable = {}
    /\ stage' = "place"
    /\ ledger' = Append(ledger, [before |-> Counted(kept \cup dropped), after |-> Counted(kept)])
    /\ UNCHANGED <<input, kept, class, score, short, count, total, dropped, place>>

\* Protected items at both ends, the odd one in front, and the rest between.
Place ==
    LET protected == {i \in kept : Protected(i)}
        Front(i) == 2 * Cardinality({j \in protected : j < i}) < Cardinality(protected)
    IN  /\ stage = "place"
        /\ place' = [i \in Positions |-> IF i \notin kept THEN "none"
                                         ELSE IF ~Protected(i) THEN "middle"
                                         ELSE IF Front(i) THEN "front" ELSE "back"]
        /\ UNCHANGED <<input, kept, class, score, short, count, total, dropped>>
        /\ Enter("done")

Next ==
    \/ Dedup \/ Classify \/ Rank \/ Filter \/ Compress
    \/ BudgetBegin \/ (\E i \in Positions : Drop(i)) \/ BudgetEnd
    \/ Place

Spec == Init /\ [][Next]_vars

BudgetMet == budget = NoBudget \/ Counted(kept) <= budget
----------------------------------------------------------------------------
(* Correctness.                                                            *)

TypeOK ==
    /\ ctx \in Seq(Items) /\ pushed \in 0 .. Len(ctx)
    /\ budget \in Budgets \cup {NoBudget} /\ task \in BOOLEAN
    /\ stage \in Stages
    /\ kept \subseteq Positions /\ short \subseteq Positions /\ dropped \subseteq Positions
    /\ class \in [Positions -> Relevances]
    /\ score \in [Positions -> Nat]
    /\ count \in [Positions -> Nat]
    /\ total \in Int
    /\ ledger \in Seq([before: Nat, after: Nat])
    /\ place \in [Positions -> {"none", "front", "middle", "back"}]

\* "Critical items are never dropped.  Not by the budget, not by any filter":
\* an item once classified as critical is there, in full, whatever comes after.
ProtectedSurvive ==
    \A i \in Positions : Protected(i) => i \in kept \ short

\* Item i matters less than item j: it is of an earlier bucket, or it is ranked
\* worse, or it is older.
MattersLess(i, j) ==
    \/ DropOrder[class[i]] < DropOrder[class[j]]
    \/ class[i] = class[j] /\ score[i] < score[j]
    \/ class[i] = class[j] /\ score[i] = score[j] /\ Older(i, j)

\* The budget gives up what matters least: of two items the rules may drop,
\* never the better one alone, however the stages before changed the context.
BudgetDropsWorst ==
    \A i \in dropped : \A j \in kept : ~Protected(j) => MattersLess(i, j)

\* It gives up what it must and no more: the best item it dropped would not have
\* fitted, and a result that is over budget holds protected items only.
BudgetIsTight ==
    /\ \A i \in dropped :
        (\A j \in dropped \ {i} : MattersLess(j, i)) => Counted(kept) + count[i] > budget
    /\ stage = "done" /\ ~BudgetMet => \A i \in kept : Protected(i)

\* The tokens of each item as it was given, and as it stands in the context.
Given == [i \in Positions |-> ctx[i].tokens]
Size == [i \in Positions |-> IF i \in short THEN ctx[i].elided ELSE ctx[i].tokens]

\* The ledger is about the real text: its entries chain from the size of the
\* whole input to that of what the caller gets, elisions and drops included.
LedgerIsReal ==
    stage = "done" =>
        /\ ledger[1].before = MapThenSumSet(LAMBDA i : Given[i], Positions)
        /\ \A s \in 1 .. Len(ledger) - 1 : ledger[s].after = ledger[s + 1].before
        /\ ledger[Len(ledger)].after = MapThenSumSet(LAMBDA i : Size[i], kept)

\* Only noise and what the budget gave up leaves without a trace: every other
\* text has one copy, the first, in the result.
NothingVanishes ==
    stage = "done" => \A i \in Positions : ctx[i].tokens > 0 =>
        \E j \in Positions :
            /\ ctx[j].hash = ctx[i].hash /\ j <= i
            /\ j \in kept \cup dropped \/ (ctx[j].kind = "tool" /\ ctx[j].noise)

\* What classify.py says of its rules: "a critical item stays critical even if
\* duplicated": what is critical by its kind or marker is in the result in full.
CriticalEvenIfDuplicated ==
    stage = "done" => \A i \in Positions : (ctx[i].tokens > 0 /\ Pinned(i)) =>
        \E j \in kept \ short : ctx[j].hash = ctx[i].hash

\* "Rule 5 - recency (the most recent ~10% of turns, min 3, regardless of kind)":
\* in a long context the latest items that dedup left are protected, unless an
\* earlier rule retires them.
LatestAreProtected ==
    LET given == {i \in Positions : class[i] # "none"}
        n == Cardinality(given)
    IN  \A i \in given :
            n > RecentOver /\ Cardinality({j \in given : j > i}) < RecentMin =>
                class[i] \in {"critical", "obsolete", "irrelevant"}
=============================================================================
