----------------------- MODULE ContextPipeline_proofs -----------------------
(***************************************************************************)
(* The pipeline and its pre-pass, for contexts of any length, items of any *)
(* size and any records on file: protected items survive, the budget gives *)
(* up what matters least and no more than it must, the ledger adds up, no  *)
(* text vanishes, and a push is as large as its room allows and survives.  *)
(*                                                                         *)
(* Inv is about classes and order only.  On it rest, each proved in its    *)
(* turn, TypeOK, MeasureInv (the ledger), TraceInv (the texts) and         *)
(* BudgetInv (the loop); AdaptiveInv adds what the pre-pass puts in front. *)
(***************************************************************************)
EXTENDS AdaptiveContext, FoldFacts

Unclassified == stage \in {"dedup", "classify"}

\* What the stages rely on: nothing has a relevance before classify, what is
\* left has one after it, elisions start with compress and drops with the loop.
PipelineInv ==
    /\ stage \in Stages
    /\ kept \subseteq Positions
    /\ class \in [Positions -> Relevances]
    /\ score \in [Positions -> Nat]
    /\ Unclassified => class = [i \in Positions |-> "none"]
    /\ ~Unclassified => \A i \in kept : class[i] # "none"
    /\ stage \in {"dedup", "classify", "rank", "filter", "compress"} => short = {}
    /\ stage \notin {"drop", "place", "done"} => dropped = {}

Inv == PipelineInv /\ ProtectedSurvive /\ BudgetDropsWorst

----------------------------------------------------------------------------
(* Lemmas.                                                                 *)

\* The cascade of rules always ends in one of the five buckets.
LEMMA RelevanceType ==
    ASSUME NEW i, NEW K
    PROVE  Relevance(i, K) \in Relevances \ {"none"}
BY DEF Relevance, Relevances

\* Buckets are given up one after the other.
LEMMA DropOrderInjective ==
    ASSUME NEW a \in Relevances \ {"none", "critical"}, NEW b \in Relevances \ {"none", "critical"}
    PROVE  /\ DropOrder[a] \in Nat /\ DropOrder[b] \in Nat
           /\ DropOrder[a] = DropOrder[b] => a = b
BY DEF DropOrder, Relevances

\* The item that goes next matters less than every other the budget may drop.
LEMMA NextMattersLeast ==
    ASSUME PipelineInv, ~Unclassified, NEW i, NextToDrop(i),
           NEW j \in kept \ {i}, ~Protected(j)
    PROVE  MattersLess(i, j)
<1>1. i \in Droppable /\ j \in Droppable
  BY DEF NextToDrop, Droppable
<1>2. /\ i \in Positions /\ j \in Positions
      /\ class[i] \in Relevances \ {"none", "critical"}
      /\ class[j] \in Relevances \ {"none", "critical"}
  BY <1>1 DEF Droppable, Protected, PipelineInv
<1>3. /\ DropOrder[class[i]] \in Nat /\ DropOrder[class[j]] \in Nat
      /\ DropOrder[class[i]] = DropOrder[class[j]] => class[i] = class[j]
  BY <1>2, DropOrderInjective
<1>4. /\ DropOrder[class[i]] <= DropOrder[class[j]]
      /\ class[j] = class[i] => score[i] <= score[j]
      /\ class[j] = class[i] /\ score[j] = score[i] => i = j \/ Older(i, j)
  BY <1>1 DEF NextToDrop
<1>5. score[i] \in Nat /\ score[j] \in Nat /\ i # j
  BY <1>2 DEF PipelineInv
<1>6. CASE DropOrder[class[i]] < DropOrder[class[j]]
  BY <1>6 DEF MattersLess
<1>7. CASE DropOrder[class[i]] = DropOrder[class[j]]
  <2>1. class[i] = class[j]
    BY <1>3, <1>7
  <2>2. score[i] < score[j] \/ (score[i] = score[j] /\ Older(i, j))
    BY <1>4, <1>5, <2>1
  <2>. QED BY <2>1, <2>2 DEF MattersLess
<1>. QED BY <1>3, <1>4, <1>6, <1>7

----------------------------------------------------------------------------
(* The invariant.                                                          *)

\* No stage has run at first.
LEMMA InvHoldsInitially == Init => Inv
<1>. SUFFICES ASSUME Init PROVE Inv
  OBVIOUS
<1>1. PipelineInv
  BY DEF Init, PipelineInv, Unclassified, Stages, Relevances
<1>2. ProtectedSurvive
  BY DEF Init, ProtectedSurvive, Protected
<1>3. BudgetDropsWorst
  BY DEF Init, BudgetDropsWorst
<1>. QED BY <1>1, <1>2, <1>3 DEF Inv

\* Each stage keeps the invariant.
LEMMA InvIsInductive == Inv /\ [Next]_vars => Inv'
<1>. SUFFICES ASSUME Inv, [Next]_vars PROVE Inv'
  OBVIOUS
<1>. USE DEF Inv
<1>1. CASE Dedup
  <2>1. PipelineInv'
    BY <1>1 DEF Dedup, Enter, PipelineInv, Unclassified, Stages, input, Positions
  <2>2. ProtectedSurvive'
    BY <1>1 DEF Dedup, PipelineInv, Unclassified, ProtectedSurvive, Protected, input, Positions
  <2>3. BudgetDropsWorst'
    BY <1>1 DEF Dedup, PipelineInv, BudgetDropsWorst
  <2>. QED BY <2>1, <2>2, <2>3
<1>2. CASE Classify
  <2>1. /\ class' \in [Positions -> Relevances]
        /\ \A i \in Positions : class'[i] # "none" <=> i \in kept
    BY <1>2, RelevanceType DEF Classify, Relevances
  <2>2. /\ stage' \in {"rank", "filter"} /\ Positions' = Positions
        /\ kept' = kept /\ short' = short /\ dropped' = dropped /\ score' = score
        /\ short = {} /\ dropped = {}
    BY <1>2 DEF Classify, Enter, PipelineInv, input, Positions
  <2>3. PipelineInv'
    BY <2>1, <2>2 DEF PipelineInv, Unclassified, Stages
  <2>4. ProtectedSurvive'
    BY <2>1, <2>2 DEF ProtectedSurvive, Protected
  <2>5. BudgetDropsWorst'
    BY <2>2 DEF BudgetDropsWorst
  <2>. QED BY <2>3, <2>4, <2>5
<1>3. CASE Rank
  <2>1. score' \in [Positions -> Nat]
    BY <1>3, BoundsAssumption DEF Rank
  <2>2. /\ stage = "rank" /\ stage' = "filter" /\ Positions' = Positions
        /\ kept' = kept /\ class' = class /\ short' = short /\ dropped' = dropped
        /\ short = {} /\ dropped = {}
    BY <1>3 DEF Rank, Enter, PipelineInv, input, Positions
  <2>3. PipelineInv'
    BY <2>1, <2>2 DEF PipelineInv, Unclassified, Stages
  <2>4. ProtectedSurvive'
    BY <2>2 DEF ProtectedSurvive, Protected
  <2>5. BudgetDropsWorst'
    BY <2>2 DEF BudgetDropsWorst
  <2>. QED BY <2>3, <2>4, <2>5
<1>4. CASE Filter
  <2>1. /\ stage = "filter" /\ stage' = "compress" /\ Positions' = Positions
        /\ kept' \subseteq kept
        /\ class' = class /\ score' = score /\ short' = short /\ dropped' = dropped
        /\ short = {} /\ dropped = {}
    BY <1>4 DEF Filter, Enter, PipelineInv, input, Positions
  <2>2. PipelineInv'
    BY <2>1 DEF PipelineInv, Unclassified, Stages
  <2>3. \A i \in kept : Protected(i) => i \in kept'
    BY <1>4 DEF Filter, Protected
  <2>4. ProtectedSurvive'
    BY <2>1, <2>3 DEF ProtectedSurvive, Protected
  <2>5. BudgetDropsWorst'
    BY <2>1 DEF BudgetDropsWorst
  <2>. QED BY <2>2, <2>4, <2>5
<1>5. CASE Compress
  <2>1. /\ stage = "compress" /\ stage' \in {"budget", "place"} /\ Positions' = Positions
        /\ kept' = kept /\ class' = class /\ score' = score /\ dropped' = dropped
        /\ dropped = {}
    BY <1>5 DEF Compress, Enter, PipelineInv, input, Positions
  <2>2. PipelineInv'
    BY <2>1 DEF PipelineInv, Unclassified, Stages
  <2>3. \A i \in short' : ~Protected(i)
    BY <1>5 DEF Compress
  <2>4. ProtectedSurvive'
    BY <2>1, <2>3 DEF ProtectedSurvive, Protected
  <2>5. BudgetDropsWorst'
    BY <2>1 DEF BudgetDropsWorst
  <2>. QED BY <2>2, <2>4, <2>5
<1>6. CASE BudgetBegin
  <2>1. /\ stage = "budget" /\ stage' = "drop" /\ Positions' = Positions /\ pushed' = pushed
        /\ kept' = kept /\ class' = class /\ score' = score
        /\ short' = short /\ dropped' = dropped
    BY <1>6 DEF BudgetBegin, input, Positions
  <2>. QED BY <2>1 DEF PipelineInv, Unclassified, Stages, ProtectedSurvive, Protected,
                       BudgetDropsWorst, MattersLess, Older, Index
<1>7. ASSUME NEW i \in Positions, Drop(i) PROVE Inv'
  <2>1. /\ stage = "drop" /\ stage' = "drop" /\ Positions' = Positions /\ pushed' = pushed
        /\ kept' = kept \ {i} /\ dropped' = dropped \cup {i}
        /\ class' = class /\ score' = score /\ short' = short
        /\ NextToDrop(i)
    BY <1>7 DEF Drop, input, Positions
  <2>2. ~Protected(i)
    BY <2>1 DEF NextToDrop, Droppable
  <2>3. PipelineInv'
    BY <2>1 DEF PipelineInv, Unclassified, Stages
  <2>4. ProtectedSurvive'
    BY <2>1, <2>2 DEF ProtectedSurvive, Protected
  <2>5. BudgetDropsWorst'
    <3>1. SUFFICES ASSUME NEW d \in dropped', NEW j \in kept', ~Protected(j)
                   PROVE  MattersLess(d, j)
      BY <2>1 DEF BudgetDropsWorst, Protected, MattersLess, Older, Index
    <3>2. CASE d \in dropped
      BY <2>1, <3>1, <3>2 DEF BudgetDropsWorst
    <3>3. CASE d = i
      BY <2>1, <3>1, <3>3, NextMattersLeast DEF Unclassified
    <3>. QED BY <2>1, <3>2, <3>3
  <2>. QED BY <2>3, <2>4, <2>5
<1>8. CASE BudgetEnd
  <2>1. /\ stage = "drop" /\ stage' = "place" /\ Positions' = Positions /\ pushed' = pushed
        /\ kept' = kept /\ class' = class /\ score' = score
        /\ short' = short /\ dropped' = dropped
    BY <1>8 DEF BudgetEnd, input, Positions
  <2>. QED BY <2>1 DEF PipelineInv, Unclassified, Stages, ProtectedSurvive, Protected,
                       BudgetDropsWorst, MattersLess, Older, Index
<1>9. CASE Place
  <2>1. /\ stage = "place" /\ stage' = "done" /\ Positions' = Positions /\ pushed' = pushed
        /\ kept' = kept /\ class' = class /\ score' = score
        /\ short' = short /\ dropped' = dropped
    BY <1>9 DEF Place, Enter, input, Positions
  <2>. QED BY <2>1 DEF PipelineInv, Unclassified, Stages, ProtectedSurvive, Protected,
                       BudgetDropsWorst, MattersLess, Older, Index
<1>10. CASE UNCHANGED vars
  BY <1>10 DEF vars, PipelineInv, Unclassified, ProtectedSurvive, Protected,
               BudgetDropsWorst, MattersLess, Older, Index, Positions
<1>. QED BY <1>1, <1>2, <1>3, <1>4, <1>5, <1>6, <1>7, <1>8, <1>9, <1>10 DEF Next

----------------------------------------------------------------------------
(* Types and token counts.                                                 *)

\* What a context of items is made of.
LEMMA ContextFacts ==
    ASSUME ctx \in Seq(Items)
    PROVE  /\ Len(ctx) \in Nat /\ IsFiniteSet(Positions)
           /\ \A i \in Positions : /\ ctx[i] \in Items
                                   /\ ctx[i].tokens \in Nat /\ ctx[i].elided \in Nat
           /\ Given \in [Positions -> Nat]
<1>1. Len(ctx) \in Nat /\ \A i \in Positions : ctx[i] \in Items
  BY DEF Positions
<1>2. IsFiniteSet(Positions)
  BY <1>1, FS_Interval DEF Positions
<1>3. \A i \in Positions : ctx[i].tokens \in Nat /\ ctx[i].elided \in Nat
  BY <1>1, ItemsAssumption
<1>. QED BY <1>1, <1>2, <1>3 DEF Given

\* Token counts add up to a number.
LEMMA CountedFacts ==
    ASSUME ctx \in Seq(Items), NEW f \in [Positions -> Nat], NEW K \in SUBSET Positions
    PROVE  /\ IsFiniteSet(K) /\ \A i \in K : f[i] \in Nat
           /\ SumOver(f, K) \in Nat
<1>1. IsFiniteSet(K)
  BY ContextFacts, FS_Subset
<1>2. \A i \in K : f[i] \in Nat
  OBVIOUS
<1>. QED BY <1>1, <1>2, SumStep

\* Counted adds up the counts.
LEMMA CountedIsSum == \A K : Counted(K) = SumOver(count, K)
BY DEF Counted, SumOver

\* While the counts stay so do their sums.
LEMMA CountedStays == count' = count => \A K : Counted(K)' = Counted(K)
<1>1. (\A K : Counted(K) = SumOver(count, K))'
  BY CountedIsSum, PTL
<1>. QED BY <1>1, CountedIsSum, SMT

\* What a stage adds to the ledger.
LEMMA RecordFacts ==
    ASSUME TypeOK, Record, count' \in [Positions -> Nat], kept' \in SUBSET Positions
    PROVE  /\ ledger' = Append(ledger, [before |-> SumOver(count, kept), after |-> SumOver(count', kept')])
           /\ [before |-> SumOver(count, kept), after |-> SumOver(count', kept')]
                 \in [before: Nat, after: Nat]
           /\ ledger' \in Seq([before: Nat, after: Nat])
<1>1. ledger' = Append(ledger, [before |-> SumOver(count, kept), after |-> SumOver(count', kept')])
  BY DEF Record, Counted, SumOver
<1>2. SumOver(count, kept) \in Nat /\ SumOver(count', kept') \in Nat
  BY CountedFacts DEF TypeOK
<1>. QED BY <1>1, <1>2 DEF TypeOK

\* The context starts with its items measured.
LEMMA TypeInitially == Init => TypeOK
<1>. SUFFICES ASSUME Init PROVE TypeOK
  OBVIOUS
<1>1. PICK n \in 0 .. MaxLength : ctx \in [1 .. n -> Items]
  BY DEF Init
<1>2. ctx \in Seq(Items)
  BY <1>1, BoundsAssumption
<1>3. count \in [Positions -> Nat]
  BY <1>2, ContextFacts DEF Init
<1>4. class \in [Positions -> Relevances] /\ score \in [Positions -> Nat]
  BY DEF Init, Relevances
<1>5. place \in [Positions -> {"none", "front", "middle", "back"}]
  BY DEF Init
<1>6. /\ pushed \in 0 .. Len(ctx) /\ budget \in Budgets \cup {NoBudget}
      /\ stage \in Stages /\ total \in Int
      /\ kept \subseteq Positions /\ short \subseteq Positions /\ dropped \subseteq Positions
  BY DEF Init, Stages
<1>7. ledger \in Seq([before: Nat, after: Nat])
  BY DEF Init
<1>8. task \in BOOLEAN
  <2>1. CASE pushed > 0
    BY <2>1, Zenon DEF Init
  <2>2. CASE ~(pushed > 0)
    BY <2>2, Zenon DEF Init
  <2>. QED BY <2>1, <2>2
<1>. QED BY <1>2, <1>3, <1>4, <1>5, <1>6, <1>7, <1>8 DEF TypeOK

\* Each stage keeps the types.
LEMMA TypeIsInductive == Inv /\ TypeOK /\ [Next]_vars => TypeOK'
<1>. SUFFICES ASSUME Inv, TypeOK, [Next]_vars PROVE TypeOK'
  OBVIOUS
<1>. USE DEF TypeOK
<1>0. Inv'
  BY InvIsInductive
<1>1. stage' \in Stages /\ class' \in [Positions' -> Relevances] /\ score' \in [Positions' -> Nat]
  BY <1>0 DEF Inv, PipelineInv
<1>2. CASE Dedup
  <2>1. kept' \in SUBSET Positions /\ count' = count
    BY <1>2 DEF Dedup
  <2>2. ledger' \in Seq([before: Nat, after: Nat])
    BY <1>2, <2>1, RecordFacts DEF Dedup, Enter
  <2>. QED BY <1>1, <1>2, <2>1, <2>2 DEF Dedup, input, Positions
<1>3. CASE Classify
  <2>1. ledger' \in Seq([before: Nat, after: Nat])
    BY <1>3, RecordFacts DEF Classify, Enter
  <2>. QED BY <1>1, <1>3, <2>1 DEF Classify, input, Positions
<1>4. CASE Rank
  <2>1. ledger' \in Seq([before: Nat, after: Nat])
    BY <1>4, RecordFacts DEF Rank, Enter
  <2>. QED BY <1>1, <1>4, <2>1 DEF Rank, input, Positions
<1>5. CASE Filter
  <2>1. kept' \in SUBSET Positions /\ count' = count
    BY <1>5 DEF Filter
  <2>2. ledger' \in Seq([before: Nat, after: Nat])
    BY <1>5, <2>1, RecordFacts DEF Filter, Enter
  <2>. QED BY <1>1, <1>5, <2>1, <2>2 DEF Filter, input, Positions
<1>6. CASE Compress
  <2>1. count' \in [Positions -> Nat] /\ short' \subseteq Positions /\ kept' = kept
    BY <1>6, ContextFacts DEF Compress
  <2>2. ledger' \in Seq([before: Nat, after: Nat])
    BY <1>6, <2>1, RecordFacts DEF Compress, Enter
  <2>. QED BY <1>1, <1>6, <2>1, <2>2 DEF Compress, input, Positions
<1>7. CASE BudgetBegin
  <2>1. total' \in Int
    <3>1. SumOver(count, kept) \in Nat
      BY CountedFacts
    <3>. QED BY <1>7, <3>1, CountedIsSum DEF BudgetBegin
  <2>. QED BY <1>1, <1>7, <2>1 DEF BudgetBegin, input, Positions
<1>8. ASSUME NEW i \in Positions, Drop(i) PROVE TypeOK'
  <2>1. count[i] \in Nat
    OBVIOUS
  <2>2. total' \in Int /\ kept' \subseteq Positions /\ dropped' \subseteq Positions
    BY <1>8, <2>1 DEF Drop
  <2>. QED BY <1>1, <1>8, <2>2 DEF Drop, input, Positions
<1>9. CASE BudgetEnd
  <2>1. Counted(kept \cup dropped) \in Nat /\ Counted(kept) \in Nat
    BY CountedFacts, CountedIsSum
  <2>2. ledger' \in Seq([before: Nat, after: Nat])
    BY <1>9, <2>1 DEF BudgetEnd
  <2>. QED BY <1>1, <1>9, <2>2 DEF BudgetEnd, input, Positions
<1>10. CASE Place
  <2>1. ledger' \in Seq([before: Nat, after: Nat])
    BY <1>10, RecordFacts DEF Place, Enter
  <2>. QED BY <1>1, <1>10, <2>1 DEF Place, input, Positions
<1>11. CASE UNCHANGED vars
  BY <1>11 DEF vars, Positions
<1>. QED BY <1>2, <1>3, <1>4, <1>5, <1>6, <1>7, <1>8, <1>9, <1>10, <1>11 DEF Next
----------------------------------------------------------------------------
(* The ledger.                                                             *)

\* The ledger l leads from the size `from` of a context to the size `to`.
Accounts(l, from, to) ==
    /\ Len(l) > 0 /\ l[1].before = from /\ l[Len(l)].after = to
    /\ \A s \in 1 .. Len(l) - 1 : l[s].after = l[s + 1].before

\* What the next entry of the ledger starts from: the loop drops item by item, and
\* makes one entry in the end.
Present == IF stage = "drop" THEN kept \cup dropped ELSE kept

\* Between stages the counts are those of the texts, and the ledger accounts for
\* what has become of the input.
MeasureInv ==
    /\ count = Size
    /\ stage = "dedup" => ledger = <<>> /\ kept = {i \in Positions : ctx[i].tokens > 0}
    /\ stage # "dedup" => Accounts(ledger, SumOver(Given, Positions), SumOver(count, Present))

\* An entry that starts where the last one ended takes the ledger further.
LEMMA AccountsGrow ==
    ASSUME NEW R, NEW l \in Seq(R), NEW e \in R, NEW from,
           (l = <<>> /\ e.before = from) \/ Accounts(l, from, e.before)
    PROVE  Accounts(Append(l, e), from, e.after)
<1>. DEFINE m == Append(l, e)
<1>1. /\ m \in Seq(R) /\ Len(l) \in Nat /\ Len(m) = Len(l) + 1 /\ m[Len(m)] = e
      /\ \A s \in 1 .. Len(l) : m[s] = l[s]
  OBVIOUS
<1>. HIDE DEF m
<1>2. CASE l = <<>> /\ e.before = from
  BY <1>1, <1>2 DEF Accounts
<1>3. CASE Accounts(l, from, e.before)
  <2>1. Len(m) > 0 /\ m[1].before = from
    BY <1>1, <1>3 DEF Accounts
  <2>2. ASSUME NEW s \in 1 .. Len(m) - 1 PROVE m[s].after = m[s + 1].before
    <3>1. CASE s = Len(l)
      BY <1>1, <1>3, <3>1 DEF Accounts
    <3>2. CASE s < Len(l)
      <4>1. s \in 1 .. Len(l) - 1 /\ s \in 1 .. Len(l) /\ s + 1 \in 1 .. Len(l)
        BY <1>1, <3>2
      <4>. QED BY <1>1, <1>3, <4>1 DEF Accounts
    <3>. QED BY <1>1, <3>1, <3>2
  <2>. QED BY <1>1, <2>1, <2>2 DEF Accounts
<1>. QED BY <1>2, <1>3 DEF m

\* A stage that records itself, and is not the budget's, keeps the accounts.
LEMMA RecordKeepsAccounts ==
    ASSUME TypeOK, MeasureInv, Record, count' \in [Positions -> Nat], kept' \in SUBSET Positions,
           Inv, stage # "drop", stage' \notin {"dedup", "drop"}, Positions' = Positions, Given' = Given
    PROVE  Accounts(ledger', SumOver(Given, Positions), SumOver(count', Present'))
<1>. DEFINE e == [before |-> SumOver(count, kept), after |-> SumOver(count', kept')]
            R == [before: Nat, after: Nat]
<1>1. ledger' = Append(ledger, e) /\ e \in R /\ ledger \in Seq(R)
  BY RecordFacts DEF TypeOK
<1>2. e.before = SumOver(count, kept) /\ e.after = SumOver(count', Present')
  BY DEF Present
<1>3. (ledger = <<>> /\ e.before = SumOver(Given, Positions))
      \/ Accounts(ledger, SumOver(Given, Positions), e.before)
  <2>1. CASE stage = "dedup"
    <3>. DEFINE K == {i \in Positions : Given[i] > 0}
    <3>1. K = kept
      BY <2>1 DEF MeasureInv, Given
    <3>2. IsFiniteSet(Positions) /\ \A i \in Positions : Given[i] \in Nat
      BY ContextFacts DEF TypeOK
    <3>3. SumOver(Given, Positions) = SumOver(Given, K)
      BY <3>2, SumNonzero
    <3>4. /\ \A i \in kept : count[i] \in Nat /\ count[i] = Given[i]
          /\ IsFiniteSet(kept)
      <4>1. count = Given
        <5>1. short = {}
          BY <2>1 DEF Inv, PipelineInv
        <5>. QED BY <5>1 DEF MeasureInv, Size, Given
      <4>2. kept \subseteq Positions
        BY DEF TypeOK
      <4>. QED BY <3>2, <4>1, <4>2, FS_Subset
    <3>5. SumOver(count, kept) = SumOver(Given, kept)
      BY <3>4, SumEqual
    <3>. QED BY <1>2, <2>1, <3>1, <3>3, <3>5 DEF MeasureInv
  <2>2. CASE stage # "dedup"
    BY <1>2, <2>2 DEF MeasureInv, Present
  <2>. QED BY <2>1, <2>2
<1>. HIDE DEF e, R
<1>4. Accounts(Append(ledger, e), SumOver(Given, Positions), e.after)
  BY <1>1, <1>3, AccountsGrow
<1>. QED BY <1>1, <1>2, <1>4

\* Nothing is measured twice, and nothing is left out.
LEMMA MeasureInitially == Init => MeasureInv
BY DEF Init, MeasureInv, Size

\* Each stage keeps the accounts.
LEMMA MeasureIsInductive == Inv /\ TypeOK /\ MeasureInv /\ [Next]_vars => MeasureInv'
<1>. SUFFICES ASSUME Inv, TypeOK, MeasureInv, [Next]_vars PROVE MeasureInv'
  OBVIOUS
<1>0. /\ Inv' /\ TypeOK' /\ stage \in Stages
      /\ count \in [Positions -> Nat] /\ kept \in SUBSET Positions
  BY InvIsInductive, TypeIsInductive DEF TypeOK
<1>a. Positions' = Positions /\ Given' = Given
  BY DEF Next, vars, input, Positions, Given, Dedup, Classify, Rank, Filter, Compress,
         BudgetBegin, Drop, BudgetEnd, Place
<1>b. ASSUME UNCHANGED <<ctx, short, count>> PROVE count' = Size'
  BY <1>b DEF MeasureInv, Size, Positions
<1>c. ASSUME Record, stage # "drop", stage' \notin {"dedup", "drop"}, count' = Size',
             count' \in [Positions -> Nat], kept' \in SUBSET Positions
      PROVE  MeasureInv'
  BY <1>0, <1>a, <1>c, RecordKeepsAccounts DEF MeasureInv
<1>1. CASE Dedup
  BY <1>0, <1>1, <1>b, <1>c DEF Dedup, Enter, input
<1>2. CASE Classify
  BY <1>0, <1>2, <1>b, <1>c DEF Classify, Enter, input
<1>3. CASE Rank
  BY <1>0, <1>3, <1>b, <1>c DEF Rank, Enter, input
<1>4. CASE Filter
  BY <1>0, <1>4, <1>b, <1>c DEF Filter, Enter, input
<1>5. CASE Compress
  <2>1. ctx' = ctx /\ short = {} /\ count = Given
    BY <1>5 DEF Compress, input, Inv, PipelineInv, MeasureInv, Size, Given
  <2>2. count' = Size' /\ count' \in [Positions -> Nat]
    <3>1. count' = [i \in Positions |-> IF i \in short' THEN ctx[i].elided ELSE ctx[i].tokens]
      BY <1>5, <2>1 DEF Compress, Given
    <3>2. count' = Size'
      BY <3>1, <2>1, <1>a DEF Size
    <3>. QED BY <1>0, <1>a, <3>2 DEF TypeOK
  <2>. QED BY <1>0, <1>5, <2>2, <1>c DEF Compress, Enter
<1>6. CASE BudgetBegin
  <2>1. /\ stage = "budget" /\ stage' = "drop" /\ kept' = kept /\ dropped' = dropped
        /\ dropped = {} /\ ledger' = ledger /\ count' = count /\ count' = Size'
    BY <1>6, <1>b DEF BudgetBegin, input, Inv, PipelineInv
  <2>2. Present' = Present
    BY <2>1 DEF Present
  <2>. QED BY <1>a, <2>1, <2>2 DEF MeasureInv
<1>7. ASSUME NEW i \in Positions, Drop(i) PROVE MeasureInv'
  <2>1. /\ stage = "drop" /\ stage' = "drop" /\ kept' = kept \ {i} /\ dropped' = dropped \cup {i}
        /\ i \in kept /\ ledger' = ledger /\ count' = count /\ count' = Size'
    BY <1>7, <1>b DEF Drop, input, NextToDrop, Droppable
  <2>2. Present' = Present
    BY <2>1 DEF Present
  <2>. QED BY <1>a, <2>1, <2>2 DEF MeasureInv
<1>8. CASE BudgetEnd
  <2>. DEFINE e == [before |-> Counted(kept \cup dropped), after |-> Counted(kept)]
  <2>1. /\ stage = "drop" /\ stage' = "place" /\ kept' = kept /\ ledger' = Append(ledger, e)
        /\ count' = count /\ count' = Size'
    BY <1>8, <1>b DEF BudgetEnd, input
  <2>2. e.before = SumOver(count, Present) /\ e.after = SumOver(count, Present)'
    BY <2>1, CountedIsSum DEF Present
  <2>3. e \in [before: Nat, after: Nat]
    <3>1. SumOver(count, kept) \in Nat /\ SumOver(count, kept \cup dropped) \in Nat
      BY CountedFacts DEF TypeOK
    <3>. QED BY <3>1, CountedIsSum
  <2>4. ledger \in Seq([before: Nat, after: Nat])
    BY DEF TypeOK
  <2>. HIDE DEF e
  <2>5. Accounts(ledger, SumOver(Given, Positions), e.before)
    BY <2>1, <2>2 DEF MeasureInv
  <2>6. Accounts(Append(ledger, e), SumOver(Given, Positions), e.after)
    BY <2>3, <2>4, <2>5, AccountsGrow
  <2>. QED BY <1>a, <2>1, <2>2, <2>6 DEF MeasureInv
<1>9. CASE Place
  BY <1>0, <1>9, <1>b, <1>c DEF Place, Enter, input
<1>10. CASE UNCHANGED vars
  BY <1>a, <1>b, <1>10 DEF vars, MeasureInv, Present, Positions
<1>. QED BY <1>1, <1>2, <1>3, <1>4, <1>5, <1>6, <1>7, <1>8, <1>9, <1>10 DEF Next

\* In the end the ledger is the one the caller is shown.
LEMMA MeasureMeansReal == TypeOK /\ MeasureInv => LedgerIsReal
<1>. SUFFICES ASSUME TypeOK, MeasureInv, stage = "done" PROVE LedgerIsReal
  BY DEF LedgerIsReal
<1>1. Accounts(ledger, SumOver(Given, Positions), SumOver(Size, kept))
  BY DEF MeasureInv, Present
<1>2. /\ MapThenSumSet(LAMBDA i : Given[i], Positions) = SumOver(Given, Positions)
      /\ MapThenSumSet(LAMBDA i : Size[i], kept) = SumOver(Size, kept)
  BY DEF SumOver
<1>. QED BY <1>1, <1>2 DEF LedgerIsReal, Accounts
----------------------------------------------------------------------------
(* What becomes of each text.                                              *)

\* The text of item i is still in the context, was given up by the budget, or was
\* noise; in any case in an item that is no later than i.
Traced(i) ==
    \E j \in Positions :
        /\ ctx[j].hash = ctx[i].hash /\ j <= i
        /\ j \in kept \cup dropped \/ (ctx[j].kind = "tool" /\ ctx[j].noise)

TraceInv ==
    /\ \A i \in Positions : ctx[i].tokens > 0 => Traced(i)
    /\ \A i \in Positions : class[i] = "irrelevant" => ctx[i].kind = "tool" /\ ctx[i].noise
    /\ stage = "dedup" => kept = {i \in Positions : ctx[i].tokens > 0}

\* Blank items are all that is not measured.
LEMMA TraceInitially == Init => TraceInv
<1>. SUFFICES ASSUME Init PROVE TraceInv
  OBVIOUS
<1>1. \A i \in Positions : ctx[i].tokens > 0 => Traced(i)
  BY DEF Init, Traced, Positions
<1>2. \A i \in Positions : class[i] # "irrelevant"
  BY DEF Init
<1>. QED BY <1>1, <1>2 DEF Init, TraceInv

\* An item that no stage touches is traced as before.
LEMMA TraceGoesOn ==
    ASSUME TraceInv, ctx' = ctx, kept \cup dropped \subseteq kept' \cup dropped',
           stage' # "dedup", class' = class
    PROVE  TraceInv'
<1>1. Positions' = Positions
  BY DEF Positions
<1>2. ASSUME NEW i \in Positions, Traced(i) PROVE Traced(i)'
  <2>1. PICK j \in Positions : /\ ctx[j].hash = ctx[i].hash /\ j <= i
                               /\ j \in kept \cup dropped \/ (ctx[j].kind = "tool" /\ ctx[j].noise)
    BY <1>2 DEF Traced
  <2>2. j \in Positions' /\ ctx'[j] = ctx[j] /\ ctx'[i] = ctx[i]
    BY <1>1
  <2>. QED BY <2>1, <2>2 DEF Traced
<1>. QED BY <1>1, <1>2 DEF TraceInv

\* Each stage keeps the traces.
LEMMA TraceIsInductive == Inv /\ TypeOK /\ TraceInv /\ [Next]_vars => TraceInv'
<1>. SUFFICES ASSUME Inv, TypeOK, TraceInv, [Next]_vars PROVE TraceInv'
  OBVIOUS
<1>0. kept \subseteq Positions
  BY DEF TypeOK
<1>1. CASE Dedup
  <2>1. /\ stage = "dedup" /\ stage' = "classify" /\ ctx' = ctx /\ class' = class
        /\ Positions' = Positions /\ kept' = {i \in kept : First(i, kept)}
        /\ kept = {i \in Positions : ctx[i].tokens > 0}
    BY <1>1 DEF Dedup, Enter, input, Positions, TraceInv
  <2>2. ASSUME NEW i \in Positions, ctx[i].tokens > 0 PROVE Traced(i)'
    <3>. DEFINE Same == {j \in kept : ctx[j].hash = ctx[i].hash}
    <3>1. Same \in SUBSET Nat /\ i \in Same
      BY <1>0, <2>1, <2>2 DEF Positions
    <3>2. PICK j \in Same : \A k \in Same : j <= k
      <4>. HIDE DEF Same
      <4>. QED BY <3>1, LeastNat
    <3>3. j \in kept /\ j <= i /\ ctx[j].hash = ctx[i].hash
      BY <3>1, <3>2
    <3>4. First(j, kept)
      BY <1>0, <3>2, <3>3 DEF First, Positions
    <3>. QED BY <1>0, <2>1, <3>3, <3>4 DEF Traced
  <2>. QED BY <2>1, <2>2 DEF TraceInv
<1>2. CASE Classify
  <2>1. /\ stage' # "dedup" /\ ctx' = ctx /\ Positions' = Positions
        /\ kept' = kept /\ dropped' = dropped
    BY <1>2 DEF Classify, Enter, input, Positions
  <2>2. ASSUME NEW i \in Positions, class'[i] = "irrelevant"
        PROVE  ctx[i].kind = "tool" /\ ctx[i].noise
    <3>1. Relevance(i, kept) = "irrelevant"
      BY <1>2, <2>2 DEF Classify
    <3>. QED BY <3>1 DEF Relevance
  <2>. QED BY <2>1, <2>2 DEF TraceInv, Traced
<1>3. CASE Rank
  BY <1>3, TraceGoesOn DEF Rank, Enter, input
<1>4. CASE Filter
  <2>1. /\ stage' # "dedup" /\ ctx' = ctx /\ Positions' = Positions
        /\ class' = class /\ dropped' = dropped
        /\ \A i \in kept : i \in kept' \/ class[i] = "irrelevant"
    BY <1>4 DEF Filter, Enter, input, Positions
  <2>2. ASSUME NEW i \in Positions, Traced(i) PROVE Traced(i)'
    <3>1. PICK j \in Positions :
             /\ ctx[j].hash = ctx[i].hash /\ j <= i
             /\ j \in kept \cup dropped \/ (ctx[j].kind = "tool" /\ ctx[j].noise)
      BY <2>2 DEF Traced
    <3>2. j \in kept' \cup dropped' \/ (ctx[j].kind = "tool" /\ ctx[j].noise)
      BY <2>1, <3>1 DEF TraceInv
    <3>. QED BY <2>1, <3>1, <3>2 DEF Traced
  <2>. QED BY <2>1, <2>2 DEF TraceInv
<1>5. CASE Compress
  BY <1>5, TraceGoesOn DEF Compress, Enter, input
<1>6. CASE BudgetBegin
  BY <1>6, TraceGoesOn DEF BudgetBegin, input
<1>7. ASSUME NEW i \in Positions, Drop(i) PROVE TraceInv'
  BY <1>7, TraceGoesOn DEF Drop, input
<1>8. CASE BudgetEnd
  BY <1>8, TraceGoesOn DEF BudgetEnd, input
<1>9. CASE Place
  BY <1>9, TraceGoesOn DEF Place, Enter, input
<1>10. CASE UNCHANGED vars
  BY <1>10 DEF vars, TraceInv, Traced, Positions
<1>. QED BY <1>1, <1>2, <1>3, <1>4, <1>5, <1>6, <1>7, <1>8, <1>9, <1>10 DEF Next
----------------------------------------------------------------------------
(* The budget.                                                             *)

\* Of the items the budget gave up, the one that mattered most would not have fitted.
BestDidNotFit ==
    \A i \in dropped :
        (\A j \in dropped \ {i} : MattersLess(j, i)) => Counted(kept) + count[i] > budget

\* What the loop has done so far: it drops unprotected items for a budget that was
\* given, its total is that of what is left, and it ends when that fits or
\* nothing else may go.
BudgetInv ==
    /\ dropped \subseteq Positions \ kept
    /\ \A i \in dropped : class[i] \in Relevances \ {"none", "critical"}
    /\ stage \in {"budget", "drop"} \/ dropped # {} => budget \in Nat
    /\ stage = "drop" => total = Counted(kept)
    /\ stage \in {"place", "done"} /\ ~BudgetMet => \A i \in kept : Protected(i)
    /\ BestDidNotFit

\* Of two items one matters more.
LEMMA MattersLessIsAsymmetric ==
    ASSUME TypeOK, NEW i \in Positions, NEW j \in Positions,
           class[i] \in Relevances \ {"none", "critical"},
           class[j] \in Relevances \ {"none", "critical"},
           MattersLess(i, j)
    PROVE  ~MattersLess(j, i)
<1>1. /\ DropOrder[class[i]] \in Nat /\ DropOrder[class[j]] \in Nat
      /\ score[i] \in Nat /\ score[j] \in Nat
      /\ i \in Nat /\ j \in Nat /\ pushed \in Int
  <2>1. DropOrder[class[i]] \in Nat /\ DropOrder[class[j]] \in Nat
    BY DropOrderInjective
  <2>2. score[i] \in Nat /\ score[j] \in Nat
    BY DEF TypeOK
  <2>3. Len(ctx) \in Nat /\ pushed \in Int
    BY DEF TypeOK
  <2>. QED BY <2>1, <2>2, <2>3 DEF Positions
<1>2. ~(Older(i, j) /\ Older(j, i))
  <2>1. Index(i) \in Int /\ Index(j) \in Int
    BY <1>1 DEF Index
  <2>. HIDE DEF Index
  <2>. QED BY <1>1, <2>1 DEF Older
<1>. QED BY <1>1, <1>2 DEF MattersLess

\* Nothing is dropped at first.
LEMMA BudgetInitially == Init => BudgetInv
BY DEF Init, BudgetInv, BestDidNotFit

\* Where the loop changes nothing, its promises stand.
LEMMA BudgetGoesOn ==
    ASSUME BudgetInv, TypeOK, UNCHANGED <<ctx, pushed, budget, kept, class, score, count, dropped>>,
           stage' \notin {"budget", "drop"},
           stage' \in {"place", "done"} /\ ~BudgetMet => \A i \in kept : Protected(i)
    PROVE  BudgetInv'
<1>1. \A K : Counted(K)' = Counted(K)
  BY CountedStays
<1>2. \A i, j : MattersLess(i, j)' = MattersLess(i, j)
  BY DEF MattersLess, Older, Index
<1>3. BestDidNotFit'
  BY <1>1, <1>2 DEF BudgetInv, BestDidNotFit
<1>4. BudgetMet' = BudgetMet /\ \A i : Protected(i)' = Protected(i)
  BY <1>1 DEF BudgetMet, Protected
<1>5. Positions' = Positions
  BY DEF Positions
<1>. QED BY <1>3, <1>4, <1>5 DEF BudgetInv

\* A turn of the loop keeps them: what it drops was over the budget with all that
\* is left, and mattered more than what went before.
LEMMA DropKeepsPromises ==
    ASSUME Inv, TypeOK, BudgetInv, NEW i \in Positions, Drop(i)
    PROVE  BudgetInv'
<1>1. /\ stage = "drop" /\ stage' = "drop" /\ UNCHANGED <<ctx, pushed, budget, class, score, count>>
      /\ kept' = kept \ {i} /\ dropped' = dropped \cup {i} /\ total' = total - count[i]
      /\ total > budget /\ budget \in Nat /\ total = Counted(kept)
      /\ i \in kept /\ ~Protected(i) /\ Positions' = Positions
  BY DEF Drop, OverBudget, NextToDrop, Droppable, input, BudgetInv, Positions
<1>2. \A K : Counted(K)' = Counted(K)
  BY <1>1, CountedStays
<1>3. \A d, j : MattersLess(d, j)' = MattersLess(d, j)
  BY <1>1 DEF MattersLess, Older, Index
<1>4. Counted(kept) = count[i] + Counted(kept') /\ Counted(kept') \in Nat
  <2>1. kept \in SUBSET Positions /\ kept' \in SUBSET Positions /\ count \in [Positions -> Nat]
    BY <1>1 DEF TypeOK
  <2>2. IsFiniteSet(kept) /\ \A k \in kept : count[k] \in Nat
    BY <2>1, CountedFacts DEF TypeOK
  <2>3. SumOver(count, kept) = count[i] + SumOver(count, kept \ {i})
    BY <1>1, <2>2, SumRemove
  <2>4. SumOver(count, kept') \in Nat
    BY <2>1, CountedFacts DEF TypeOK
  <2>. QED BY <1>1, <2>3, <2>4, CountedIsSum
<1>5. count[i] \in Nat
  BY DEF TypeOK
<1>6. class[i] \in Relevances \ {"none", "critical"}
  BY <1>1 DEF Protected, Inv, PipelineInv, Unclassified
<1>7. BestDidNotFit'
  <2>. SUFFICES ASSUME NEW d \in dropped', \A j \in dropped' \ {d} : MattersLess(j, d)
                PROVE  Counted(kept') + count[d] > budget
    BY <1>1, <1>2, <1>3 DEF BestDidNotFit
  <2>1. CASE d = i
    BY <1>1, <1>4, <1>5, <2>1
  <2>2. CASE d # i
    <3>1. d \in dropped /\ d \in Positions /\ MattersLess(i, d)
      BY <1>1, <2>2 DEF BudgetInv
    <3>2. MattersLess(d, i)
      BY <1>1, <3>1 DEF Inv, BudgetDropsWorst
    <3>3. class[d] \in Relevances \ {"none", "critical"}
      BY <3>1 DEF BudgetInv
    <3>. QED BY <1>6, <3>1, <3>2, <3>3, MattersLessIsAsymmetric
  <2>. QED BY <2>1, <2>2
<1>8. total' = Counted(kept)'
  BY <1>1, <1>2, <1>4, <1>5
<1>. QED BY <1>1, <1>6, <1>7, <1>8 DEF BudgetInv

\* Each stage keeps them.
LEMMA BudgetIsInductive == Inv /\ TypeOK /\ BudgetInv /\ [Next]_vars => BudgetInv'
<1>. SUFFICES ASSUME Inv, TypeOK, BudgetInv, [Next]_vars PROVE BudgetInv'
  OBVIOUS
<1>0. ASSUME dropped = {}, dropped' = {}, stage' = "budget" => budget' \in Nat,
             stage' # "drop", stage' \notin {"place", "done"} \/ budget' = NoBudget
      PROVE  BudgetInv'
  BY <1>0 DEF BudgetInv, BestDidNotFit, BudgetMet
<1>1. CASE Dedup
  BY <1>0, <1>1 DEF Dedup, Enter, Inv, PipelineInv
<1>2. CASE Classify
  BY <1>0, <1>2 DEF Classify, Enter, Inv, PipelineInv
<1>3. CASE Rank
  BY <1>0, <1>3 DEF Rank, Enter, Inv, PipelineInv
<1>4. CASE Filter
  BY <1>0, <1>4 DEF Filter, Enter, Inv, PipelineInv
<1>5. CASE Compress
  <2>1. budget = NoBudget \/ budget \in Nat
    BY BoundsAssumption DEF TypeOK
  <2>. QED BY <1>0, <1>5, <2>1 DEF Compress, Enter, input, Inv, PipelineInv
<1>6. CASE BudgetBegin
  <2>1. /\ stage = "budget" /\ stage' = "drop" /\ dropped = {} /\ dropped' = {}
        /\ kept' = kept /\ count' = count /\ total' = Counted(kept) /\ budget' = budget
    BY <1>6 DEF BudgetBegin, input, Inv, PipelineInv
  <2>2. Counted(kept)' = Counted(kept)
    BY <2>1, CountedStays
  <2>. QED BY <2>1, <2>2 DEF BudgetInv, BestDidNotFit
<1>7. ASSUME NEW i \in Positions, Drop(i) PROVE BudgetInv'
  BY <1>7, DropKeepsPromises
<1>8. CASE BudgetEnd
  <2>1. UNCHANGED <<ctx, pushed, budget, kept, class, score, count, dropped>>
        /\ stage = "drop" /\ stage' = "place" /\ (~OverBudget \/ Droppable = {})
    BY <1>8 DEF BudgetEnd, input
  <2>2. ~BudgetMet => \A i \in kept : Protected(i)
    <3>1. budget \in Nat /\ total = Counted(kept) /\ total \in Int
      BY <2>1 DEF BudgetInv, TypeOK
    <3>2. ~OverBudget => BudgetMet
      BY <3>1 DEF OverBudget, BudgetMet
    <3>. QED BY <2>1, <3>2 DEF Droppable
  <2>. QED BY <2>1, <2>2, BudgetGoesOn
<1>9. CASE Place
  <2>1. UNCHANGED <<ctx, pushed, budget, kept, class, score, count, dropped>>
        /\ stage = "place" /\ stage' = "done"
    BY <1>9 DEF Place, Enter, input
  <2>2. ~BudgetMet => \A i \in kept : Protected(i)
    BY <2>1 DEF BudgetInv
  <2>. QED BY <2>1, <2>2, BudgetGoesOn
<1>10. CASE UNCHANGED vars
  <2>1. \A K : Counted(K)' = Counted(K)
    BY <1>10, CountedStays DEF vars
  <2>2. \A i, j : MattersLess(i, j)' = MattersLess(i, j)
    BY <1>10 DEF vars, MattersLess, Older, Index
  <2>3. BestDidNotFit'
    BY <1>10, <2>1, <2>2 DEF vars, BudgetInv, BestDidNotFit
  <2>4. BudgetMet' = BudgetMet
    BY <1>10, <2>1 DEF vars, BudgetMet
  <2>5. \A i : Protected(i)' = Protected(i)
    BY <1>10 DEF vars, Protected
  <2>. QED BY <1>10, <2>1, <2>3, <2>4, <2>5 DEF vars, BudgetInv, Positions
<1>. QED BY <1>1, <1>2, <1>3, <1>4, <1>5, <1>6, <1>7, <1>8, <1>9, <1>10 DEF Next

\* In the end, and at every turn, the budget is as tight as promised.
LEMMA PromisesMeanTight == BudgetInv => BudgetIsTight
BY DEF BudgetInv, BestDidNotFit, BudgetIsTight
----------------------------------------------------------------------------
(* What is selected to be put in front.                                    *)

Records == {item \in Items : item.kind = "memory" /\ item.tokens > 0}
Selection == [chosen: Seq(Records), used: Nat]
NothingYet == [chosen |-> <<>>, used |-> 0]

\* One turn of select.
Offer(acc, i) ==
    IF acc.used + saved[i].tokens > Room THEN acc
    ELSE [chosen |-> Append(acc.chosen, saved[i]), used |-> acc.used + saved[i].tokens]

\* What Selected folds.
SelectsTo(it, order) ==
    it = [s \in SUBSET DOMAIN order |->
            IF s = {} THEN NothingYet ELSE Offer(it[s \ {Max(s)}], order[Max(s)])]

\* The selection turn by turn.
Turns(acc, order) ==
    /\ acc[0] = NothingYet
    /\ \A k \in 1 .. Len(saved) : acc[k] = Offer(acc[k - 1], order[k])

\* The fold, with its recursive function spelled out.
LEMMA SelectedUnfolds ==
    ASSUME NEW order
    PROVE  Selected(order) = (CHOOSE it : SelectsTo(it, order))[DOMAIN order].chosen
BY DEF Selected, FoldLeft, MapThenFoldSet, SelectsTo, Offer, NothingYet

\* An order offers every record on file, once.
LEMMA OrderFacts ==
    ASSUME saved \in Seq(Records), NEW order \in Orders
    PROVE  /\ Len(saved) \in Nat /\ DOMAIN saved = 1 .. Len(saved)
           /\ order \in [1 .. Len(saved) -> 1 .. Len(saved)]
           /\ \A i \in DOMAIN saved : \E k \in 1 .. Len(saved) : order[k] = i
<1>. DEFINE n == Len(saved)
            D == 1 .. n
<1>1. n \in Nat /\ DOMAIN saved = D
  OBVIOUS
<1>. HIDE DEF n
<1>2. IsFiniteSet(D) /\ Cardinality(D) = n
  BY <1>1, FS_Interval
<1>3. order \in [D -> D] /\ \A i, j \in D : i # j => order[i] # order[j]
  BY <1>1, <1>2 DEF Orders, SetToSeqs
<1>. HIDE DEF D
<1>4. order \in Injection(D, D)
  BY <1>3 DEF Injection, IsInjective
<1>5. order \in Surjection(D, D)
  BY <1>2, <1>4, FS_Injection
<1>6. \A i \in D : \E k \in D : order[k] = i
  BY <1>5 DEF Surjection
<1>. QED BY <1>1, <1>3, <1>6 DEF n, D

\* An offer is taken or not.
LEMMA OfferType ==
    ASSUME saved \in Seq(Records), NEW acc \in Selection, NEW i \in DOMAIN saved
    PROVE  Offer(acc, i) \in Selection
<1>1. saved[i] \in Records /\ saved[i].tokens \in Nat
  BY ItemsAssumption DEF Records
<1>2. acc.chosen \in Seq(Records) /\ acc.used \in Nat
  BY DEF Selection
<1>3. Append(acc.chosen, saved[i]) \in Seq(Records) /\ acc.used + saved[i].tokens \in Nat
  BY <1>1, <1>2
<1>. QED BY <1>3 DEF Offer, Selection

\* The fold goes through the records one by one.
LEMMA SelectedTurns ==
    ASSUME saved \in Seq(Records), NEW order \in Orders
    PROVE  \E acc \in [0 .. Len(saved) -> Selection] :
              Turns(acc, order) /\ Selected(order) = acc[Len(saved)].chosen
<1>. DEFINE n == Len(saved)
            S == 1 .. n
            c == [s \in SUBSET S |-> Max(s)]
            F == [p \in S \X Selection |-> Offer(p[2], order[p[1]])]
<1>1. n \in Nat /\ DOMAIN saved = S /\ order \in [S -> S]
  BY OrderFacts
<1>2. DOMAIN order = S
  BY <1>1
<1>. HIDE DEF n
<1>3. IsFiniteSet(S)
  BY <1>1, FS_Interval
<1>4. Chooses(c, S)
  <2>. SUFFICES ASSUME NEW s \in SUBSET S, s # {} PROVE Max(s) \in s
    BY DEF Chooses
  <2>1. s \in SUBSET (0 .. n)
    BY <1>1
  <2>. QED BY <1>1, <2>1, MaxFacts
<1>5. F \in [S \X Selection -> Selection]
  <2>1. ASSUME NEW i \in S, NEW acc \in Selection PROVE Offer(acc, order[i]) \in Selection
    BY <1>1, OfferType
  <2>. QED BY <2>1
<1>6. NothingYet \in Selection
  BY DEF NothingYet, Selection
<1>7. \A s \in SUBSET S : c[s] = Max(s)
  OBVIOUS
<1>8. \A i \in S, acc \in Selection : F[<<i, acc>>] = Offer(acc, order[i])
  OBVIOUS
<1>. HIDE DEF c, F, S
<1>9. PICK it : FoldsTo(it, S, c, F, NothingYet)
  BY <1>3, <1>4, FoldExists
<1>10. it \in [SUBSET S -> Selection]
  BY <1>3, <1>4, <1>5, <1>6, <1>9, FoldType
<1>11. \A s \in SUBSET S : it[s] = IF s = {} THEN NothingYet ELSE Offer(it[s \ {Max(s)}], order[Max(s)])
  <2>. SUFFICES ASSUME NEW s \in SUBSET S
                PROVE  it[s] = IF s = {} THEN NothingYet ELSE Offer(it[s \ {Max(s)}], order[Max(s)])
    OBVIOUS
  <2>1. it[s] = IF s = {} THEN NothingYet ELSE F[<<c[s], it[s \ {c[s]}]>>]
    BY <1>9 DEF FoldsTo
  <2>2. CASE s # {}
    <3>1. c[s] \in S /\ s \ {c[s]} \in SUBSET S
      BY <1>4, <2>2 DEF Chooses
    <3>2. it[s] = Offer(it[s \ {c[s]}], order[c[s]])
      BY <1>8, <1>10, <2>1, <2>2, <3>1
    <3>. QED BY <1>7, <2>2, <3>2
  <2>. QED BY <2>1, <2>2
<1>12. SelectsTo(it, order)
  <2>. DEFINE H(s) == IF s = {} THEN NothingYet ELSE Offer(it[s \ {Max(s)}], order[Max(s)])
  <2>1. \A s \in SUBSET S : it[s] = H(s)
    BY <1>11
  <2>2. it = [s \in SUBSET S |-> H(s)]
    <3>. HIDE DEF H
    <3>. QED BY <1>10, <2>1
  <2>. QED BY <1>2, <2>2 DEF SelectsTo
<1>13. \A iu : SelectsTo(iu, order) => iu = it
  <2>. SUFFICES ASSUME NEW iu, SelectsTo(iu, order) PROVE iu = it
    OBVIOUS
  <2>. DEFINE T == {s \in SUBSET S : iu[s] # it[s]}
  <2>1. T = {}
    <3>. SUFFICES ASSUME T # {} PROVE FALSE
      OBVIOUS
    <3>1. T \in SUBSET SUBSET S
      OBVIOUS
    <3>2. PICK X \in T : \A Y \in T : Y \subseteq X => Y = X
      <4>. HIDE DEF T
      <4>. QED BY <1>3, <3>1, MinimalSubset
    <3>3. iu[X] = IF X = {} THEN NothingYet ELSE Offer(iu[X \ {Max(X)}], order[Max(X)])
      BY <1>2 DEF SelectsTo
    <3>4. X # {} => Max(X) \in X
      BY <1>4, <1>7 DEF Chooses
    <3>5. X # {} => iu[X \ {Max(X)}] = it[X \ {Max(X)}]
      BY <3>2, <3>4
    <3>. QED BY <1>11, <3>3, <3>5
  <2>2. iu = [s \in SUBSET S |-> iu[s]]
    BY <1>2 DEF SelectsTo
  <2>. QED BY <1>10, <2>1, <2>2
<1>14. Selected(order) = it[S].chosen
  <2>1. SelectsTo(CHOOSE iu : SelectsTo(iu, order), order)
    BY <1>12, Zenon
  <2>. QED BY <1>2, <1>13, <2>1, SelectedUnfolds
<1>. DEFINE acc == [k \in 0 .. n |-> it[1 .. k]]
<1>15. acc \in [0 .. n -> Selection] /\ acc[n] = it[S]
  BY <1>1, <1>10 DEF S
<1>16. Turns(acc, order)
  <2>1. acc[0] = NothingYet
    <3>1. 1 .. 0 = {} /\ 0 \in 0 .. n
      BY <1>1
    <3>. QED BY <1>11, <3>1
  <2>2. ASSUME NEW k \in 1 .. n PROVE acc[k] = Offer(acc[k - 1], order[k])
    <3>0. k \in 1 .. k /\ \A x \in 1 .. k : x \in 1 .. n /\ x \in 0 .. n
      BY <1>1
    <3>1. 1 .. k \in SUBSET S /\ 1 .. k # {} /\ 1 .. k \in SUBSET (0 .. n)
      BY <3>0 DEF S
    <3>2. Max(1 .. k) \in 1 .. k /\ \A y \in 1 .. k : Max(1 .. k) >= y
      BY <1>1, <3>1, MaxFacts
    <3>3. Max(1 .. k) = k /\ (1 .. k) \ {k} = 1 .. (k - 1) /\ k \in 0 .. n /\ k - 1 \in 0 .. n
      BY <1>1, <3>2
    <3>4. it[1 .. k] = Offer(it[1 .. (k - 1)], order[k])
      BY <1>11, <3>1, <3>3
    <3>. QED BY <3>3, <3>4
  <2>. HIDE DEF acc
  <2>. QED BY <2>1, <2>2 DEF Turns, n
<1>. HIDE DEF acc
<1>. QED BY <1>14, <1>15, <1>16 DEF n

\* The tokens of a sequence of records.
Sizes(s) == [r \in DOMAIN s |-> s[r].tokens]
Weight(s) == SumOver(Sizes(s), DOMAIN s)

\* A weight is a number, and the empty sequence has none.
LEMMA WeightFacts ==
    ASSUME NEW s \in Seq(Records)
    PROVE  /\ IsFiniteSet(DOMAIN s) /\ \A r \in DOMAIN s : Sizes(s)[r] \in Nat
           /\ Weight(s) \in Nat /\ (s = <<>> => Weight(s) = 0)
<1>1. IsFiniteSet(DOMAIN s)
  <2>1. Len(s) \in Nat /\ DOMAIN s = 1 .. Len(s)
    OBVIOUS
  <2>. QED BY <2>1, FS_Interval
<1>2. \A r \in DOMAIN s : Sizes(s)[r] \in Nat
  BY ItemsAssumption DEF Sizes, Records
<1>. DEFINE K == DOMAIN s
            f == Sizes(s)
<1>3. IsFiniteSet(K) /\ \A r \in K : f[r] \in Nat
  BY <1>1, <1>2
<1>4. s = <<>> => K = {}
  OBVIOUS
<1>. HIDE DEF K, f
<1>5. SumOver(f, K) \in Nat /\ (K = {} => SumOver(f, K) = 0)
  BY <1>3, SumStep
<1>. QED BY <1>1, <1>2, <1>4, <1>5 DEF Weight, K, f

\* A record more adds its tokens.
LEMMA WeightAppend ==
    ASSUME NEW s \in Seq(Records), NEW x \in Records
    PROVE  Weight(Append(s, x)) = Weight(s) + x.tokens
<1>. DEFINE t == Append(s, x)
            n == Len(s)
<1>1. /\ t \in Seq(Records) /\ n \in Nat /\ DOMAIN s = 1 .. n /\ DOMAIN t = 1 .. (n + 1)
      /\ t[n + 1] = x /\ \A r \in 1 .. n : t[r] = s[r]
  OBVIOUS
<1>. HIDE DEF t, n
<1>2. n + 1 \in DOMAIN t /\ DOMAIN t \ {n + 1} = DOMAIN s
  BY <1>1
<1>3. SumOver(Sizes(t), DOMAIN t) = Sizes(t)[n + 1] + SumOver(Sizes(t), DOMAIN s)
  <2>1. IsFiniteSet(DOMAIN t) /\ \A r \in DOMAIN t : Sizes(t)[r] \in Nat
    BY ONLY <1>1, WeightFacts
  <2>. QED BY ONLY <1>2, <2>1, SumRemove
<1>4. \A r \in DOMAIN s : Sizes(s)[r] = Sizes(t)[r]
  BY <1>1, <1>2 DEF Sizes
<1>5. SumOver(Sizes(s), DOMAIN s) = SumOver(Sizes(t), DOMAIN s)
  BY <1>4, WeightFacts, SumEqual
<1>6. Sizes(t)[n + 1] = x.tokens
  BY <1>1, <1>2 DEF Sizes
<1>7. Weight(s) \in Nat /\ x.tokens \in Nat
  BY WeightFacts, ItemsAssumption DEF Records
<1>. QED BY <1>3, <1>5, <1>6, <1>7 DEF Weight, t

\* The selection fits the room, and what it left out does not fit in the rest.
Fits(s) ==
    /\ s \in Seq(Records) /\ Weight(s) <= Room
    /\ \A i \in DOMAIN saved :
        (\E r \in DOMAIN s : s[r] = saved[i]) \/ Weight(s) + saved[i].tokens > Room

\* Once record i is in the selection, or too large for the rest, it stays so.
Taken(acc, i) == \/ \E r \in DOMAIN acc.chosen : acc.chosen[r] = saved[i]
                 \/ acc.used + saved[i].tokens > Room

Weighed(acc) == acc.used = Weight(acc.chosen) /\ acc.used <= Room

\* A turn keeps to the room, and leaves what was taken so.
LEMMA TurnKeepsRoom ==
    ASSUME saved \in Seq(Records), NEW a \in Selection, Weighed(a), NEW i \in DOMAIN saved,
           NEW b, b = Offer(a, i)
    PROVE  /\ Weighed(b) /\ Taken(b, i)
           /\ \A j \in DOMAIN saved : Taken(a, j) => Taken(b, j)
<1>1. /\ saved[i] \in Records /\ a.chosen \in Seq(Records) /\ a.used \in Nat
      /\ \A j \in DOMAIN saved : saved[j].tokens \in Nat
  BY ItemsAssumption DEF Records, Selection
<1>2. Room \in Nat
  BY SavedAssumption DEF Room
<1>3. CASE a.used + saved[i].tokens > Room
  BY <1>3 DEF Offer, Taken
<1>4. CASE ~(a.used + saved[i].tokens > Room)
  <2>. DEFINE s == a.chosen
              t == Append(s, saved[i])
              n == Len(s)
  <2>1. /\ n \in Nat /\ DOMAIN s = 1 .. n /\ DOMAIN t = 1 .. (n + 1)
        /\ t[n + 1] = saved[i] /\ \A r \in 1 .. n : t[r] = s[r]
    BY <1>1
  <2>. HIDE DEF n
  <2>2. Weight(t) = Weight(s) + saved[i].tokens
    BY <1>1, WeightAppend
  <2>3. b.chosen = t /\ b.used = a.used + saved[i].tokens
    BY <1>4 DEF Offer
  <2>. HIDE DEF s, t
  <2>4. Weighed(b)
    BY <1>1, <1>2, <1>4, <2>2, <2>3 DEF Weighed, s
  <2>5. Taken(b, i)
    <3>1. n + 1 \in DOMAIN t
      BY <2>1
    <3>. QED BY <2>1, <2>3, <3>1 DEF Taken
  <2>6. ASSUME NEW j \in DOMAIN saved, Taken(a, j) PROVE Taken(b, j)
    <3>1. CASE \E r \in DOMAIN s : s[r] = saved[j]
      <4>1. PICK r \in 1 .. n : s[r] = saved[j]
        BY <2>1, <3>1
      <4>2. r \in DOMAIN t /\ t[r] = saved[j]
        BY <2>1, <4>1
      <4>. QED BY <2>3, <4>2 DEF Taken
    <3>2. CASE a.used + saved[j].tokens > Room
      <4>1. b.used + saved[j].tokens > Room
        BY <1>1, <1>2, <2>3, <3>2
      <4>. QED BY <4>1 DEF Taken
    <3>. QED BY <2>6, <3>1, <3>2 DEF Taken, s
  <2>. QED BY <2>4, <2>5, <2>6
<1>. QED BY <1>3, <1>4

\* So in the end all is within the room, and no record is left that would fit.
LEMMA SelectedFits ==
    ASSUME saved \in Seq(Records), NEW order \in Orders
    PROVE  Fits(Selected(order))
<1>. DEFINE n == Len(saved)
<1>1. /\ n \in Nat /\ DOMAIN saved = 1 .. n /\ order \in [1 .. n -> 1 .. n]
      /\ \A i \in 1 .. n : \E k \in 1 .. n : order[k] = i
  BY OrderFacts
<1>2. PICK acc \in [0 .. n -> Selection] : Turns(acc, order) /\ Selected(order) = acc[n].chosen
  BY SelectedTurns
<1>2a. acc[0] = NothingYet /\ \A k \in 1 .. n : acc[k] = Offer(acc[k - 1], order[k])
  BY <1>2 DEF Turns
<1>. HIDE DEF n
<1>. DEFINE P(k) == Weighed(acc[k]) /\ \A j \in 1 .. k : Taken(acc[k], order[j])
            T == {k \in 0 .. n : ~P(k)}
<1>3. Room \in Nat
  BY SavedAssumption DEF Room
<1>4. P(0)
  <2>1. acc[0].used = 0 /\ acc[0].chosen = <<>>
    BY <1>2a DEF NothingYet
  <2>2. <<>> \in Seq(Records)
    OBVIOUS
  <2>3. Weight(<<>>) = 0
    BY <2>2, WeightFacts
  <2>. QED BY <1>3, <2>1, <2>3 DEF Weighed
<1>5. ASSUME NEW k \in 1 .. n, P(k - 1) PROVE P(k)
  <2>1. k - 1 \in 0 .. n /\ acc[k - 1] \in Selection
    BY <1>1, <1>2
  <2>2. acc[k] = Offer(acc[k - 1], order[k]) /\ order[k] \in DOMAIN saved
    BY <1>1, <1>2a
  <2>3. /\ Weighed(acc[k]) /\ Taken(acc[k], order[k])
        /\ \A j \in DOMAIN saved : Taken(acc[k - 1], j) => Taken(acc[k], j)
    BY <1>5, <2>1, <2>2, TurnKeepsRoom
  <2>4. ASSUME NEW j \in 1 .. k PROVE j = k \/ (j \in 1 .. k - 1 /\ order[j] \in DOMAIN saved)
    <3>. HIDE DEF P, T
    <3>0. n \in Nat /\ k \in Nat /\ j \in Nat
      BY <1>1
    <3>1. j \in 1 .. n /\ (j = k \/ j \in 1 .. k - 1)
      BY <3>0
    <3>. QED BY <1>1, <3>1
  <2>. QED BY <1>5, <2>3, <2>4
<1>6. P(n)
  <2>. HIDE DEF P
  <2>1. T = {}
    <3>. SUFFICES ASSUME T # {} PROVE FALSE
      OBVIOUS
    <3>1. T \in SUBSET Nat
      BY <1>1
    <3>2. PICK k \in T : \A j \in T : k <= j
      <4>. HIDE DEF T
      <4>. QED BY <3>1, LeastNat
    <3>3. k \in 1 .. n
      BY <1>1, <1>4, <3>2
    <3>4. P(k - 1)
      BY <1>1, <3>2, <3>3
    <3>. QED BY <1>5, <3>2, <3>3, <3>4
  <2>. QED BY <1>1, <2>1
<1>7. acc[n].chosen \in Seq(Records)
  BY <1>1, <1>2 DEF Selection
<1>8. \A i \in DOMAIN saved : Taken(acc[n], i)
  BY <1>1, <1>6
<1>. QED BY <1>1, <1>2, <1>6, <1>7, <1>8 DEF Fits, Taken, Weighed
----------------------------------------------------------------------------
(* The pre-pass.                                                           *)

\* As long as the pre-pass is to come, no stage has run.
PrepassFirst == asked => stage = "dedup" /\ surfaced = <<>>

\* Some item, no later than i and of its text, is protected.
Guarded(i) == \E j \in Positions : j <= i /\ ctx[j].hash = ctx[i].hash /\ Protected(j)

\* The records stand in front, in order; dedup leaves the first item of their text,
\* which is a record, and classify protects it.
SurfacedInv ==
    /\ saved \in Seq(Records) /\ surfaced \in Seq(Records)
    /\ pushed = Len(surfaced) /\ pushed <= Len(ctx)
    /\ \A r \in DOMAIN surfaced : ctx[r] = surfaced[r]
    /\ stage = "dedup" => kept = {i \in Positions : ctx[i].tokens > 0}
    /\ stage = "classify" => \A r \in DOMAIN surfaced :
            \E j \in kept : j <= r /\ ctx[j].hash = ctx[r].hash
    /\ ~Unclassified => \A r \in DOMAIN surfaced : Guarded(r)
    /\ asked \/ surfaced = <<>> \/ Fits(surfaced)

AllInv == Inv /\ TypeOK /\ MeasureInv /\ TraceInv /\ BudgetInv

\* All that holds of the pipeline holds at first, and each stage keeps it.
LEMMA AllInitially == Init => AllInv
BY InvHoldsInitially, TypeInitially, MeasureInitially, TraceInitially, BudgetInitially DEF AllInv

\* They go from state to state together.
LEMMA AllIsInductive == AllInv /\ [Next]_vars => AllInv'
BY InvIsInductive, TypeIsInductive, MeasureIsInductive, TraceIsInductive, BudgetIsInductive DEF AllInv

\* Where records are in front, they are memory, and they are where they are given.
LEMMA SurfacedFacts ==
    ASSUME SurfacedInv, TypeOK, NEW r \in DOMAIN surfaced
    PROVE  /\ r \in Nat /\ r \in Positions /\ ctx[r] = surfaced[r]
           /\ ctx[r].kind = "memory" /\ ctx[r].tokens > 0
           /\ \A j \in Positions : j <= r => j \in DOMAIN surfaced
<1>1. /\ Len(surfaced) \in Nat /\ DOMAIN surfaced = 1 .. Len(surfaced)
      /\ surfaced[r] \in Records /\ Len(ctx) \in Nat /\ Len(surfaced) <= Len(ctx)
  BY DEF SurfacedInv, TypeOK
<1>2. ctx[r] = surfaced[r]
  BY DEF SurfacedInv
<1>. QED BY <1>1, <1>2 DEF Positions, Records

\* Before the pre-pass nothing has been put in front.
LEMMA SurfacedInitially == AdaptiveInit => SurfacedInv /\ PrepassFirst
<1>. SUFFICES ASSUME AdaptiveInit PROVE SurfacedInv /\ PrepassFirst
  OBVIOUS
<1>1. saved \in Seq(Records) /\ surfaced = <<>> /\ pushed = 0 /\ stage = "dedup"
  BY SavedAssumption DEF AdaptiveInit, Init, Records
<1>2. TypeOK
  BY TypeInitially DEF AdaptiveInit
<1>3. /\ surfaced \in Seq(Records) /\ Len(surfaced) = 0 /\ DOMAIN surfaced = {}
      /\ Len(ctx) \in Nat
  BY <1>1, <1>2 DEF TypeOK
<1>4. kept = {i \in Positions : ctx[i].tokens > 0}
  BY DEF AdaptiveInit, Init
<1>. QED BY <1>1, <1>3, <1>4 DEF SurfacedInv, PrepassFirst, Unclassified

\* What the pre-pass leaves is a new context, with its records in front.
LEMMA PrepassFacts ==
    ASSUME AllInv, SurfacedInv, PrepassFirst, Prepass
    PROVE  /\ stage' = "dedup" /\ surfaced' \in Seq(Records)
           /\ surfaced' = <<>> \/ Fits(surfaced')
           /\ ctx' \in Seq(Items) /\ pushed' = Len(surfaced') /\ pushed' \in 0 .. Len(ctx')
           /\ \A r \in DOMAIN surfaced' : ctx'[r] = surfaced'[r]
           /\ short' = {} /\ dropped' = {} /\ ledger' = <<>>
<1>1. stage' = "dedup" /\ short' = {} /\ dropped' = {} /\ ledger' = <<>>
  BY DEF Prepass, PrepassFirst, AllInv, Inv, PipelineInv, MeasureInv
<1>2. surfaced' = <<>> \/ Fits(surfaced')
  <2>1. PICK order \in Orders : surfaced' = IF Triggered THEN Selected(order) ELSE <<>>
    BY DEF Prepass
  <2>2. saved \in Seq(Records)
    BY DEF SurfacedInv
  <2>. QED BY <2>1, <2>2, SelectedFits
<1>3. surfaced' \in Seq(Records)
  <2>1. <<>> \in Seq(Records)
    OBVIOUS
  <2>2. \A s : Fits(s) => s \in Seq(Records)
    BY DEF Fits
  <2>. QED BY <1>2, <2>1, <2>2
<1>. DEFINE s == surfaced'
            t == ctx'
<1>4. t = s \o ctx /\ s \in Seq(Items) /\ ctx \in Seq(Items) /\ pushed' = Len(s)
  BY <1>3 DEF Prepass, Merged, Records, AllInv, TypeOK
<1>. HIDE DEF s, t
<1>5. /\ t \in Seq(Items) /\ Len(s) \in 0 .. Len(t)
      /\ \A r \in DOMAIN s : t[r] = s[r]
  BY <1>4
<1>. QED BY <1>1, <1>2, <1>3, <1>4, <1>5 DEF s, t

\* It is as good as one the pipeline starts with.
LEMMA PrepassKeepsAll ==
    AllInv /\ SurfacedInv /\ PrepassFirst /\ Prepass => AllInv' /\ SurfacedInv' /\ PrepassFirst'
<1>. SUFFICES ASSUME AllInv, SurfacedInv, PrepassFirst, Prepass
              PROVE  AllInv' /\ SurfacedInv' /\ PrepassFirst'
  OBVIOUS
<1>1. /\ stage' = "dedup" /\ surfaced' \in Seq(Records)
      /\ surfaced' = <<>> \/ Fits(surfaced')
      /\ ctx' \in Seq(Items) /\ pushed' = Len(surfaced') /\ pushed' \in 0 .. Len(ctx')
      /\ \A r \in DOMAIN surfaced' : ctx'[r] = surfaced'[r]
      /\ short' = {} /\ dropped' = {} /\ ledger' = <<>>
  BY PrepassFacts
<1>2. /\ kept' = {i \in Positions' : ctx'[i].tokens > 0}
      /\ class' = [i \in Positions' |-> "none"]
      /\ score' = [i \in Positions' |-> 0]
      /\ count' = [i \in Positions' |-> ctx'[i].tokens]
      /\ place' = [i \in Positions' |-> "none"]
      /\ UNCHANGED <<budget, task, total, saved>> /\ asked' = FALSE
  BY DEF Prepass, Remeasured
<1>3. \A i \in Positions' : i \in Nat /\ ctx'[i] \in Items /\ ctx'[i].tokens \in Nat
  <2>1. \A i \in Positions' : i \in Nat /\ ctx'[i] \in Items
    BY <1>1 DEF Positions
  <2>. QED BY <2>1, ItemsAssumption
<1>4. Inv'
  <2>1. PipelineInv'
    BY <1>1, <1>2 DEF PipelineInv, Unclassified, Stages, Relevances
  <2>2. ProtectedSurvive' /\ BudgetDropsWorst'
    BY <1>1, <1>2 DEF ProtectedSurvive, Protected, BudgetDropsWorst
  <2>. QED BY <2>1, <2>2 DEF Inv
<1>5. TypeOK'
  <2>1. class' \in [Positions' -> Relevances] /\ score' \in [Positions' -> Nat]
    BY <1>2 DEF Relevances
  <2>2. count' \in [Positions' -> Nat] /\ kept' \subseteq Positions'
    BY <1>2, <1>3
  <2>3. place' \in [Positions' -> {"none", "front", "middle", "back"}]
    BY <1>2
  <2>4. ledger' \in Seq([before: Nat, after: Nat])
    BY <1>1
  <2>. QED BY <1>1, <1>2, <2>1, <2>2, <2>3, <2>4 DEF AllInv, TypeOK, Stages
<1>6. MeasureInv'
  <2>1. count' = Size'
    BY <1>1, <1>2 DEF Size
  <2>. QED BY <1>1, <1>2, <2>1 DEF MeasureInv
<1>7. TraceInv'
  <2>1. \A i \in Positions' : ctx'[i].tokens > 0 => Traced(i)'
    BY <1>2, <1>3 DEF Traced
  <2>. QED BY <1>1, <1>2, <2>1 DEF TraceInv
<1>8. BudgetInv'
  BY <1>1 DEF BudgetInv, BestDidNotFit
<1>9. SurfacedInv'
  <2>1. surfaced' = <<>> \/ Fits(surfaced)'
    BY <1>1, <1>2 DEF Fits
  <2>2. pushed' <= Len(ctx')
    BY <1>1
  <2>. QED BY <1>1, <1>2, <2>1, <2>2 DEF SurfacedInv, Unclassified
<1>. QED BY <1>1, <1>2, <1>4, <1>5, <1>6, <1>7, <1>8, <1>9 DEF AllInv, PrepassFirst

\* The stages keep the records, or an earlier one of the same text.
LEMMA StagesKeepSurfaced ==
    AllInv /\ SurfacedInv /\ Next /\ UNCHANGED adaptive => SurfacedInv'
<1>. SUFFICES ASSUME AllInv, SurfacedInv, Next, UNCHANGED adaptive PROVE SurfacedInv'
  OBVIOUS
<1>1. /\ saved' = saved /\ surfaced' = surfaced /\ asked' = asked
      /\ ctx' = ctx /\ pushed' = pushed /\ Positions' = Positions
      /\ \A s : Fits(s)' = Fits(s)
  <2>1. ctx' = ctx /\ pushed' = pushed
    BY DEF Next, input, Dedup, Classify, Rank, Filter, Compress, BudgetBegin, Drop, BudgetEnd, Place
  <2>. QED BY <2>1 DEF adaptive, Positions, Fits
<1>2. \A r \in DOMAIN surfaced :
         /\ r \in Nat /\ r \in Positions /\ ctx[r] = surfaced[r]
         /\ ctx[r].kind = "memory" /\ ctx[r].tokens > 0
         /\ \A j \in Positions : j <= r => j \in DOMAIN surfaced
  BY SurfacedFacts DEF AllInv
<1>3. kept \subseteq Positions
  BY DEF AllInv, TypeOK
<1>4. CASE Dedup
  <2>1. /\ stage = "dedup" /\ stage' = "classify" /\ kept' = {i \in kept : First(i, kept)}
        /\ kept = {i \in Positions : ctx[i].tokens > 0}
    BY <1>4 DEF Dedup, Enter, SurfacedInv
  <2>2. ASSUME NEW r \in DOMAIN surfaced PROVE \E j \in kept' : j <= r /\ ctx[j].hash = ctx[r].hash
    <3>. DEFINE Same == {j \in kept : ctx[j].hash = ctx[r].hash}
    <3>1. Same \in SUBSET Nat /\ r \in Same
      BY <1>2, <1>3, <2>1 DEF Positions
    <3>2. PICK j \in Same : \A k \in Same : j <= k
      <4>. HIDE DEF Same
      <4>. QED BY <3>1, LeastNat
    <3>3. j \in kept /\ j <= r /\ ctx[j].hash = ctx[r].hash
      BY <3>1, <3>2
    <3>4. First(j, kept)
      BY <1>3, <3>2, <3>3 DEF First, Positions
    <3>. QED BY <2>1, <3>3, <3>4
  <2>. QED BY <1>1, <2>1, <2>2 DEF SurfacedInv, Unclassified
<1>5. CASE Classify
  <2>1. /\ stage = "classify" /\ stage' \in {"rank", "filter"}
        /\ class' = [i \in Positions |-> IF i \in kept THEN Relevance(i, kept) ELSE "none"]
    BY <1>5 DEF Classify, Enter
  <2>2. ASSUME NEW r \in DOMAIN surfaced PROVE Guarded(r)'
    <3>1. PICK j \in kept : j <= r /\ ctx[j].hash = ctx[r].hash
      BY <2>1 DEF SurfacedInv
    <3>2. j \in Positions /\ ctx[j].kind = "memory"
      BY <1>2, <1>3, <3>1
    <3>3. class'[j] = "critical"
      BY <2>1, <3>2 DEF Relevance, Pinned
    <3>. QED BY <1>1, <3>1, <3>2, <3>3 DEF Guarded, Protected
  <2>. QED BY <1>1, <2>1, <2>2 DEF SurfacedInv, Unclassified
<1>6. ASSUME ~Unclassified, class' = class, stage' \notin {"dedup", "classify"} PROVE SurfacedInv'
  <2>1. \A r \in DOMAIN surfaced : Guarded(r)'
    BY <1>1, <1>6 DEF SurfacedInv, Guarded, Protected
  <2>. QED BY <1>1, <1>6, <2>1 DEF SurfacedInv, Unclassified
<1>7. CASE Rank
  BY <1>6, <1>7 DEF Rank, Enter, Unclassified
<1>8. CASE Filter
  BY <1>6, <1>8 DEF Filter, Enter, Unclassified
<1>9. CASE Compress
  BY <1>6, <1>9 DEF Compress, Enter, Unclassified
<1>10. CASE BudgetBegin
  BY <1>6, <1>10 DEF BudgetBegin, Unclassified
<1>11. ASSUME NEW i \in Positions, Drop(i) PROVE SurfacedInv'
  BY <1>6, <1>11 DEF Drop, Unclassified
<1>12. CASE BudgetEnd
  BY <1>6, <1>12 DEF BudgetEnd, Unclassified
<1>13. CASE Place
  BY <1>6, <1>13 DEF Place, Enter, Unclassified
<1>. QED BY <1>4, <1>5, <1>7, <1>8, <1>9, <1>10, <1>11, <1>12, <1>13 DEF Next

AdaptiveInv == AllInv /\ SurfacedInv /\ PrepassFirst

\* Each step of the pre-pass and of the pipeline keeps all of it.
LEMMA AdaptiveIsInductive == AdaptiveInv /\ [AdaptiveNext]_allVars => AdaptiveInv'
<1>. SUFFICES ASSUME AllInv, SurfacedInv, PrepassFirst, [AdaptiveNext]_allVars
              PROVE  AllInv' /\ SurfacedInv' /\ PrepassFirst'
  BY DEF AdaptiveInv
<1>1. CASE Prepass
  BY <1>1, PrepassKeepsAll
<1>2. CASE ~asked /\ Next /\ UNCHANGED adaptive
  BY <1>2, AllIsInductive, StagesKeepSurfaced DEF PrepassFirst, adaptive
<1>3. CASE UNCHANGED allVars
  <2>1. UNCHANGED vars /\ UNCHANGED adaptive
    BY <1>3 DEF allVars
  <2>2. AllInv'
    BY <2>1, AllIsInductive
  <2>3. \A s : Fits(s)' = Fits(s)
    BY <2>1 DEF adaptive, Fits
  <2>4. \A r : Guarded(r)' = Guarded(r)
    BY <2>1 DEF vars, Guarded, Protected, Positions
  <2>. QED BY <2>1, <2>2, <2>3, <2>4 DEF vars, adaptive, SurfacedInv, PrepassFirst, Unclassified, Positions
<1>. QED BY <1>1, <1>2, <1>3 DEF AdaptiveNext

----------------------------------------------------------------------------
(* What holds of every pruned context.                                     *)

\* No filter, elision or budget ever touches an item classified as critical
\* (ContextPipeline.run).
THEOREM CriticalSurvives == Spec => []ProtectedSurvive
<1>1. AllInv => ProtectedSurvive
  BY DEF AllInv, Inv
<1>. QED BY <1>1, AllInitially, AllIsInductive, PTL DEF Spec

\* Whatever the budget drops matters less than what it may drop and keeps
\* (_enforce_budget).
THEOREM LeastImportantGoFirst == Spec => []BudgetDropsWorst
<1>1. AllInv => BudgetDropsWorst
  BY DEF AllInv, Inv
<1>. QED BY <1>1, AllInitially, AllIsInductive, PTL DEF Spec

\* The values of a context stay what they are (ContextItem, PipelineResult).
THEOREM ContextTypeCorrect == AdaptiveSpec => []TypeOK
<1>1. AdaptiveInit => AdaptiveInv
  BY AllInitially, SurfacedInitially DEF AdaptiveInit, AdaptiveInv
<1>2. AdaptiveInv => TypeOK
  BY DEF AdaptiveInv, AllInv
<1>. QED BY <1>1, <1>2, AdaptiveIsInductive, PTL DEF AdaptiveSpec

\* The budget gives up what it must and no more: the best item it dropped would
\* not have fitted, and what is over it is protected (_enforce_budget).
THEOREM BudgetGivesUpNoMore == AdaptiveSpec => []BudgetIsTight
<1>1. AdaptiveInit => AdaptiveInv
  BY AllInitially, SurfacedInitially DEF AdaptiveInit, AdaptiveInv
<1>2. AdaptiveInv => BudgetIsTight
  BY PromisesMeanTight DEF AdaptiveInv, AllInv
<1>. QED BY <1>1, <1>2, AdaptiveIsInductive, PTL DEF AdaptiveSpec

\* The ledger of a pruned context leads from the size of the whole input to that of
\* the result, elisions and drops included (_stage).
THEOREM LedgerAddsUp == AdaptiveSpec => []LedgerIsReal
<1>1. AdaptiveInit => AdaptiveInv
  BY AllInitially, SurfacedInitially DEF AdaptiveInit, AdaptiveInv
<1>2. AdaptiveInv => LedgerIsReal
  BY MeasureMeansReal DEF AdaptiveInv, AllInv
<1>. QED BY <1>1, <1>2, AdaptiveIsInductive, PTL DEF AdaptiveSpec

\* Every text but noise and what the budget gave up has its first copy in the
\* result (dedup, _filter_irrelevant).
THEOREM TextsDoNotVanish == AdaptiveSpec => []NothingVanishes
<1>1. AdaptiveInit => AdaptiveInv
  BY AllInitially, SurfacedInitially DEF AdaptiveInit, AdaptiveInv
<1>2. AdaptiveInv => NothingVanishes
  BY DEF AdaptiveInv, AllInv, TraceInv, Traced, NothingVanishes
<1>. QED BY <1>1, <1>2, AdaptiveIsInductive, PTL DEF AdaptiveSpec

\* Whatever the pre-pass pushes and whatever it displaces, no later stage drops or
\* elides what was classified as critical, and the budget gives up the least
\* important items only (context, _adaptive_prepass).
THEOREM PushedContextsAreSafe == AdaptiveSpec => [](ProtectedSurvive /\ BudgetDropsWorst)
<1>1. AdaptiveInit => AdaptiveInv
  BY AllInitially, SurfacedInitially DEF AdaptiveInit, AdaptiveInv
<1>2. AdaptiveInv => ProtectedSurvive /\ BudgetDropsWorst
  BY DEF AdaptiveInv, AllInv, Inv
<1>. QED BY <1>1, <1>2, AdaptiveIsInductive, PTL DEF AdaptiveSpec

\* A record that was put in front, or another one with its text, is in the result
\* in full, whatever the transcript repeats of it (_adaptive_prepass, dedup).
THEOREM SurfacedRecordsSurvive == AdaptiveSpec => []SurfacedSurvive
<1>1. AdaptiveInit => AdaptiveInv
  BY AllInitially, SurfacedInitially DEF AdaptiveInit, AdaptiveInv
<1>2. AdaptiveInv => SurfacedSurvive
  <2>. SUFFICES ASSUME AdaptiveInv, stage = "done", NEW r \in DOMAIN surfaced
                PROVE  \E i \in kept \ short :
                          /\ ctx[i].kind = "memory" /\ ctx[i].hash = surfaced[r].hash
                          /\ Protected(i)
    BY DEF SurfacedSurvive
  <2>1. PICK i \in Positions : i <= r /\ ctx[i].hash = ctx[r].hash /\ Protected(i)
    BY DEF AdaptiveInv, SurfacedInv, Unclassified, Guarded
  <2>2. ctx[r] = surfaced[r] /\ i \in DOMAIN surfaced
    BY <2>1, SurfacedFacts DEF AdaptiveInv, AllInv
  <2>3. ctx[i].kind = "memory"
    BY <2>2, SurfacedFacts DEF AdaptiveInv, AllInv
  <2>4. i \in kept \ short
    BY <2>1 DEF AdaptiveInv, AllInv, Inv, ProtectedSurvive
  <2>. QED BY <2>1, <2>2, <2>3, <2>4
<1>. QED BY <1>1, <1>2, AdaptiveIsInductive, PTL DEF AdaptiveSpec

\* A push stays within its room, and withholds no record that would still fit
\* (plan_budget, select).
THEOREM PushesAreMaximal == AdaptiveSpec => []PushIsMaximal
<1>1. AdaptiveInit => AdaptiveInv
  BY AllInitially, SurfacedInitially DEF AdaptiveInit, AdaptiveInv
<1>2. AdaptiveInv => PushIsMaximal
  <2>. SUFFICES ASSUME AdaptiveInv, ~asked, surfaced # <<>> PROVE PushIsMaximal
    BY DEF PushIsMaximal
  <2>. DEFINE size == [r \in DOMAIN surfaced |-> surfaced[r].tokens]
  <2>1. MapThenSumSet(LAMBDA r : size[r], DOMAIN surfaced) = Weight(surfaced)
    BY DEF Weight, Sizes, SumOver
  <2>2. Fits(surfaced)
    BY DEF AdaptiveInv, SurfacedInv
  <2>. QED BY <2>1, <2>2 DEF PushIsMaximal, Fits
<1>. QED BY <1>1, <1>2, AdaptiveIsInductive, PTL DEF AdaptiveSpec
=============================================================================
