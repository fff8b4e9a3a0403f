------------------------- MODULE GraphSearch_proofs -------------------------
(***************************************************************************)
(* Both searches, on any finite graph.  cycles(): the stack is a path of   *)
(* the graph without repetition, so what is reported are cycles; finished  *)
(* nodes lead to nodes finished before, so every knot is reported.         *)
(* context_for: the queue is in order of distance, so what is reached has  *)
(* its distance and nothing near is missed.                                *)
(***************************************************************************)
EXTENDS GraphSearch, FoldFacts, FiniteSetTheorems, TLAPS

Diving == {"root", "dive", "reported"}

Frames == [node: Nodes, left: SUBSET Nodes]

\* The stack is a path, and what cycles() found are cycles.
PathOK ==
    /\ stack \in Seq(Frames)
    /\ \A i \in DOMAIN stack : \A m \in stack[i].left : <<stack[i].node, m>> \in graph
    /\ \A i \in DOMAIN stack : i > 1 => <<stack[i - 1].node, stack[i].node>> \in graph
    /\ \A i, j \in DOMAIN stack : stack[i].node = stack[j].node => i = j

CyclesOK == cycles \subseteq Seq(Nodes) /\ CyclesAreReal

DiveInv ==
    /\ pc \notin Diving => stack = <<>> /\ cycles = {}
    /\ PathOK
    /\ CyclesOK
----------------------------------------------------------------------------
\* A cycle as cycles() walks it: distinct nodes, an edge from each to the next
\* and from the last to the first.
Closed(c) ==
    /\ c \in Seq(Nodes) /\ c # <<>>
    /\ \A i, j \in DOMAIN c : c[i] = c[j] => i = j
    /\ \A i \in DOMAIN c : i > 1 => <<c[i - 1], c[i]>> \in graph
    /\ <<c[Len(c)], c[1]>> \in graph

\* A closed path is a cycle in the sense of the reference.
LEMMA ClosedIsCycle == ASSUME NEW c, Closed(c) PROVE IsCycle(c)
<1>1. Len(c) \in Nat /\ DOMAIN c = 1 .. Len(c) /\ Len(c) > 0
  BY DEF Closed
<1>2. IsInjective(c)
  BY DEF Closed, IsInjective
<1>3. ASSUME NEW i \in DOMAIN c PROVE <<c[i], c[IF i = Len(c) THEN 1 ELSE i + 1]>> \in graph
  <2>1. CASE i = Len(c)
    BY <2>1 DEF Closed
  <2>2. CASE i # Len(c)
    <3>1. i + 1 \in DOMAIN c /\ i + 1 > 1 /\ (i + 1) - 1 = i
      BY <1>1, <1>3, <2>2
    <3> QED BY <3>1, <2>2 DEF Closed
  <2> QED BY <2>1, <2>2
<1> QED BY <1>2, <1>3 DEF IsCycle, EdgesOf, Closed

\* A rotation of a closed path is a closed path.
LEMMA RotationIsClosed ==
  ASSUME NEW c, Closed(c), NEW k \in DOMAIN c
  PROVE  Closed(SubSeq(c, k, Len(c)) \o SubSeq(c, 1, k - 1))
<1> DEFINE n == Len(c)
           a == SubSeq(c, k, n)
           b == SubSeq(c, 1, k - 1)
           r == a \o b
           at(i) == IF i <= n - k + 1 THEN i + k - 1 ELSE i + k - 1 - n
<1>1. c \in Seq(Nodes) /\ n \in Nat /\ DOMAIN c = 1 .. n /\ k \in 1 .. n
  BY DEF Closed
<1>2. a \in Seq(Nodes) /\ Len(a) = n - k + 1 /\ \A i \in 1 .. (n - k + 1) : a[i] = c[i + k - 1]
  BY <1>1
<1>3. b \in Seq(Nodes) /\ Len(b) = k - 1 /\ \A i \in 1 .. (k - 1) : b[i] = c[i]
  BY <1>1
<1>4. r \in Seq(Nodes) /\ Len(r) = n /\ DOMAIN r = 1 .. n
  BY <1>1, <1>2, <1>3
<1>5. ASSUME NEW i \in 1 .. n PROVE r[i] = c[at(i)] /\ at(i) \in 1 .. n
  <2>1. CASE i <= n - k + 1
    BY <2>1, <1>1, <1>2, <1>3
  <2>2. CASE ~(i <= n - k + 1)
    <3>1. i - (n - k + 1) \in 1 .. (k - 1) /\ i - Len(a) = i + k - 1 - n
      BY <2>2, <1>1, <1>2
    <3>2. r[i] = b[i - Len(a)]
      BY <2>2, <1>1, <1>2, <1>3
    <3>3. at(i) = i - (n - k + 1) /\ at(i) \in 1 .. n
      <4>1. i \in 1 .. n /\ n \in Nat /\ k \in 1 .. n
        BY <1>1
      <4>. HIDE DEF n
      <4>. QED BY ONLY <2>2, <4>1
    <3>4. b[i - Len(a)] = c[i - (n - k + 1)]
      BY <3>1, <1>2, <1>3
    <3> QED BY <3>2, <3>3, <3>4
  <2> QED BY <2>1, <2>2
<1> HIDE DEF r, a, b
<1>6. \A i, j \in 1 .. n : r[i] = r[j] => i = j
  <2> SUFFICES ASSUME NEW i \in 1 .. n, NEW j \in 1 .. n, r[i] = r[j] PROVE i = j
    OBVIOUS
  <2>1. at(i) = at(j)
    BY <1>5, <1>1 DEF Closed
  <2>2. i \in 1 .. n /\ j \in 1 .. n /\ n \in Nat /\ k \in 1 .. n
    BY <1>1
  <2>. HIDE DEF n
  <2>3. CASE i <= n - k + 1 /\ j <= n - k + 1
    BY ONLY <2>1, <2>2, <2>3
  <2>4. CASE ~(i <= n - k + 1) /\ ~(j <= n - k + 1)
    BY ONLY <2>1, <2>2, <2>4
  <2>5. CASE ~(i <= n - k + 1) <=> j <= n - k + 1
    BY ONLY <2>1, <2>2, <2>5
  <2> QED BY ONLY <2>3, <2>4, <2>5
<1>7. ASSUME NEW i \in 1 .. n, i > 1 PROVE <<r[i - 1], r[i]>> \in graph
  <2>1. i - 1 \in 1 .. n /\ r[i] = c[at(i)] /\ r[i - 1] = c[at(i - 1)] /\ at(i) \in 1 .. n
    BY <1>5, <1>7, <1>1
  <2>2. CASE at(i) > 1
    <3>1. at(i - 1) = at(i) - 1
      <4>1. i \in 1 .. n /\ n \in Nat /\ k \in 1 .. n
        BY <1>1
      <4>. HIDE DEF n
      <4>. QED BY ONLY <2>2, <1>7, <4>1
    <3> QED BY <3>1, <2>1, <2>2, <1>1 DEF Closed
  <2>3. CASE at(i) = 1
    <3>1. at(i - 1) = n
      <4>1. i \in 1 .. n /\ n \in Nat /\ k \in 1 .. n
        BY <1>1
      <4>. HIDE DEF n
      <4>. QED BY ONLY <2>3, <1>7, <4>1
    <3> QED BY <3>1, <2>1, <2>3, <1>1 DEF Closed
  <2> QED BY <2>1, <2>2, <2>3
<1>8. <<r[n], r[1]>> \in graph
  <2>1. r[n] = c[at(n)] /\ r[1] = c[at(1)] /\ at(1) = k
    BY <1>5, <1>1
  <2>2. CASE k = 1
    <3>1. at(n) = n
      BY <2>2, <1>1
    <3> QED BY <3>1, <2>1, <2>2, <1>1 DEF Closed
  <2>3. CASE k > 1
    <3>1. at(n) = k - 1
      BY <2>3, <1>1
    <3> QED BY <3>1, <2>1, <2>3, <1>1 DEF Closed
  <2> QED BY <2>2, <2>3, <1>1
<1>9. Closed(r)
  BY <1>1, <1>4, <1>6, <1>7, <1>8 DEF Closed
<1> QED BY <1>9 DEF r, a, b
----------------------------------------------------------------------------
(* Steps.                                                                  *)

\* A step that leaves graph, stack and cycles alone keeps the invariant.
LEMMA Elsewhere ==
  ASSUME DiveInv, UNCHANGED <<graph, stack, cycles>>,
         pc \in Diving => pc' \in Diving
  PROVE  DiveInv'
BY DEF DiveInv, PathOK, CyclesOK, CyclesAreReal, IsCycle, EdgesOf, IsInjective

\* Following or dropping an edge of the top leaves a path.
LEMMA TakeKeepsPath ==
  ASSUME PathOK, stack # <<>>, NEW next
  PROVE  /\ Take(next) \in Seq(Frames)
         /\ Len(Take(next)) = Len(stack) /\ DOMAIN Take(next) = DOMAIN stack
         /\ \A i \in DOMAIN stack : /\ Take(next)[i].node = stack[i].node
                                    /\ Take(next)[i].left \subseteq stack[i].left
<1> DEFINE n == Len(stack)
           top == [stack[n] EXCEPT !.left = @ \ {next}]
<1>1. n \in Nat /\ DOMAIN stack = 1 .. n /\ n \in 1 .. n /\ \A i \in 1 .. n : stack[i] \in Frames
  BY DEF PathOK
<1>2. stack[n] \in Frames
  BY <1>1
<1>3. top \in Frames /\ top.node = stack[n].node /\ top.left \subseteq stack[n].left
  BY <1>2 DEF Frames
<1>4. Take(next) = [stack EXCEPT ![n] = top]
  BY DEF Take
<1> HIDE DEF top
<1> QED BY <1>1, <1>3, <1>4 DEF PathOK

\* The node on top of the stack is the last of the path.
LEMMA TopIsLast == ASSUME PathOK, stack # <<>>
                   PROVE  /\ Len(stack) \in DOMAIN stack /\ Top = stack[Len(stack)]
                          /\ Top.node \in Nodes /\ Top.left \subseteq Nodes
<1>1. Len(stack) \in DOMAIN stack /\ stack[Len(stack)] \in Frames
  BY DEF PathOK
<1> QED BY <1>1 DEF Top, Frames

\* What closes a cycle is a closed path, from where it meets the path on.
LEMMA SuffixIsClosed ==
  ASSUME PathOK, stack # <<>>, NEW i \in DOMAIN stack, Path[i] \in Top.left
  PROVE  Closed(SubSeq(Path, i, Len(stack)))
<1> DEFINE n == Len(stack)
           c == SubSeq(Path, i, n)
<1>1. n \in Nat /\ DOMAIN stack = 1 .. n /\ i \in 1 .. n /\ n \in 1 .. n
      /\ \A j \in 1 .. n : stack[j] \in Frames
  BY DEF PathOK
<1>2. \A j \in 1 .. n : stack[j].node \in Nodes
  BY <1>1 DEF Frames
<1>3. \A j, k \in 1 .. n : stack[j].node = stack[k].node => j = k
  BY <1>1 DEF PathOK
<1>4. \A j \in 1 .. n : j > 1 => <<stack[j - 1].node, stack[j].node>> \in graph
  BY <1>1 DEF PathOK
<1>5. Path \in Seq(Nodes) /\ Len(Path) = n /\ \A j \in 1 .. n : Path[j] = stack[j].node
  BY <1>1, <1>2 DEF Path
<1>6. c \in Seq(Nodes) /\ Len(c) = n - i + 1 /\ \A j \in 1 .. (n - i + 1) : c[j] = stack[j + i - 1].node
  BY <1>1, <1>5
<1> HIDE DEF c
<1>7. ASSUME NEW j \in DOMAIN c, NEW k \in DOMAIN c, c[j] = c[k] PROVE j = k
  <2>1. j + i - 1 \in 1 .. n /\ k + i - 1 \in 1 .. n
    BY <1>1, <1>6
  <2>2. stack[j + i - 1].node = stack[k + i - 1].node
    BY <1>1, <1>6, <1>7
  <2>3. j + i - 1 = k + i - 1
    BY <2>1, <2>2, <1>3
  <2> QED BY <2>3, <1>1, <1>6
<1>8. ASSUME NEW j \in DOMAIN c, j > 1 PROVE <<c[j - 1], c[j]>> \in graph
  <2>1. j + i - 1 \in 1 .. n /\ j + i - 1 > 1 /\ (j + i - 1) - 1 = (j - 1) + i - 1
    BY <1>1, <1>6, <1>8
  <2>2. c[j] = stack[j + i - 1].node /\ c[j - 1] = stack[(j - 1) + i - 1].node
    BY <1>1, <1>6, <1>8
  <2> QED BY <2>1, <2>2, <1>4
<1>9. <<c[Len(c)], c[1]>> \in graph
  <2>1. c[Len(c)] = stack[n].node /\ c[1] = Path[i]
    <3>1. Len(c) \in 1 .. (n - i + 1) /\ Len(c) + i - 1 = n /\ 1 \in 1 .. (n - i + 1) /\ 1 + i - 1 = i
      BY <1>1, <1>6
    <3> QED BY <3>1, <1>1, <1>5, <1>6
  <2> QED BY <2>1, <1>1 DEF PathOK, Top
<1>10. Closed(c)
  BY <1>1, <1>6, <1>7, <1>8, <1>9 DEF Closed
<1> QED BY <1>10 DEF c

\* Following an edge to a node that is not on the path makes the path longer.
LEMMA EnterKeepsPath ==
  ASSUME PathOK, stack # <<>>, NEW next \in Nodes, next \in Top.left, next \notin Range(Path)
  PROVE  LET new == Append(Take(next), Frame(next)) IN
         /\ new \in Seq(Frames)
         /\ \A i \in DOMAIN new : \A m \in new[i].left : <<new[i].node, m>> \in graph
         /\ \A i \in DOMAIN new : i > 1 => <<new[i - 1].node, new[i].node>> \in graph
         /\ \A i, j \in DOMAIN new : new[i].node = new[j].node => i = j
<1> DEFINE n == Len(stack)
           old == Take(next)
           new == Append(old, Frame(next))
<1>1. n \in Nat /\ n > 0 /\ DOMAIN stack = 1 .. n
  BY DEF PathOK
<1>2. Frame(next) \in Frames /\ Frame(next).node = next
      /\ \A m \in Frame(next).left : <<next, m>> \in graph
  BY DEF Frame, Frames, Successors
<1>3. old \in Seq(Frames) /\ Len(old) = n
      /\ \A i \in 1 .. n : old[i].node = stack[i].node /\ old[i].left \subseteq stack[i].left
  BY TakeKeepsPath, <1>1
<1> HIDE DEF old
<1>4. new \in Seq(Frames) /\ DOMAIN new = 1 .. (n + 1)
      /\ new[n + 1] = Frame(next) /\ \A i \in 1 .. n : new[i] = old[i]
  BY <1>1, <1>2, <1>3
<1>5. \A i \in 1 .. n : stack[i].node # next
  BY <1>1 DEF Range, Path
<1>6. <<stack[n].node, next>> \in graph
  BY <1>1 DEF PathOK, Top
<1> HIDE DEF new
<1>7. ASSUME NEW i \in DOMAIN new, NEW m \in new[i].left PROVE <<new[i].node, m>> \in graph
  <2>1. CASE i = n + 1
    BY <2>1, <1>2, <1>4, <1>7
  <2>2. CASE i # n + 1
    <3>1. i \in 1 .. n /\ new[i].node = stack[i].node /\ m \in stack[i].left
      BY <2>2, <1>1, <1>3, <1>4, <1>7
    <3> QED BY <3>1, <1>1 DEF PathOK
  <2> QED BY <2>1, <2>2
<1>8. ASSUME NEW i \in DOMAIN new, i > 1 PROVE <<new[i - 1].node, new[i].node>> \in graph
  <2>1. CASE i = n + 1
    BY <2>1, <1>1, <1>2, <1>3, <1>4, <1>6
  <2>2. CASE i # n + 1
    <3>1. i \in 1 .. n /\ i - 1 \in 1 .. n
      BY <2>2, <1>1, <1>4, <1>8
    <3> QED BY <3>1, <1>1, <1>3, <1>4, <1>8 DEF PathOK
  <2> QED BY <2>1, <2>2
<1>9. \A i, j \in DOMAIN new : new[i].node = new[j].node => i = j
  <2>1. \A i \in 1 .. n : new[i].node = stack[i].node
    BY <1>3, <1>4
  <2>2. new[n + 1].node = next
    BY <1>2, <1>4
  <2> QED BY <2>1, <2>2, <1>1, <1>4, <1>5 DEF PathOK
<1> QED BY <1>4, <1>7, <1>8, <1>9 DEF new, old

\* No search is under way at first.
LEMMA InitDive == Init => DiveInv
BY DEF Init, DiveInv, PathOK, CyclesOK, CyclesAreReal, Diving

\* Each step of the search keeps the path one of distinct successors.
LEMMA NextDive == DiveInv /\ [Next]_vars => DiveInv'
<1> SUFFICES ASSUME DiveInv, [Next]_vars PROVE DiveInv'
  OBVIOUS
<1>1. CASE Seed \/ Visit \/ Merge \/ Answer \/ Report
  BY <1>1, Elsewhere DEF Seed, Visit, Merge, Answer, Report, store, dive, Diving
<1>2. CASE Root
  <2>1. PICK root \in Nodes : stack' = <<Frame(root)>>
    BY <1>2 DEF Root
  <2>2. Frame(root) \in Frames
        /\ \A m \in Frame(root).left : <<Frame(root).node, m>> \in graph
    BY DEF Frame, Frames, Successors
  <2>3. UNCHANGED <<graph, cycles>> /\ pc' \in Diving
    BY <1>2 DEF Root, store, Diving
  <2>4. PathOK'
    BY <2>1, <2>2, <2>3 DEF PathOK
  <2> QED BY <2>3, <2>4 DEF DiveInv, CyclesOK, CyclesAreReal, IsCycle, EdgesOf, IsInjective
<1>3. CASE Pop
  <2>1. stack # <<>> /\ stack' = SubSeq(stack, 1, Len(stack) - 1)
        /\ UNCHANGED <<graph, cycles>> /\ pc' \in Diving
    BY <1>3 DEF Pop, Front, store, Diving
  <2>2. Len(stack') = Len(stack) - 1 /\ stack' \in Seq(Frames)
        /\ DOMAIN stack' = 1 .. (Len(stack) - 1)
        /\ \A i \in DOMAIN stack' : i \in DOMAIN stack /\ stack'[i] = stack[i]
    <3>1. stack \in Seq(Frames) /\ Len(stack) \in Nat \ {0} /\ DOMAIN stack = 1 .. Len(stack)
      BY <2>1 DEF DiveInv, PathOK
    <3> QED BY <3>1, <2>1
  <2>3. PathOK'
    <3>1. \A i \in DOMAIN stack' : i > 1 => <<stack'[i - 1].node, stack'[i].node>> \in graph
      <4>1. \A i \in DOMAIN stack' : i > 1 => i - 1 \in DOMAIN stack'
        BY <2>2
      <4> QED BY <4>1, <2>2 DEF DiveInv, PathOK
    <3> QED BY <3>1, <2>1, <2>2 DEF DiveInv, PathOK
  <2> QED BY <2>1, <2>3 DEF DiveInv, CyclesOK, CyclesAreReal, IsCycle, EdgesOf, IsInjective
<1>4. ASSUME NEW next \in Nodes, Close(next) \/ Enter(next) \/ Pass(next) PROVE DiveInv'
  <2>1. stack # <<>> /\ next \in Top.left /\ UNCHANGED graph /\ pc' \in Diving /\ PathOK /\ CyclesOK
    BY <1>4 DEF Close, Enter, Pass, store, Diving, DiveInv
  <2>2. ASSUME stack' = Take(next) PROVE PathOK'
    <3>1. /\ stack' \in Seq(Frames)
          /\ Len(stack') = Len(stack) /\ DOMAIN stack' = DOMAIN stack
          /\ \A i \in DOMAIN stack : /\ stack'[i].node = stack[i].node
                                     /\ stack'[i].left \subseteq stack[i].left
      BY <2>1, <2>2, TakeKeepsPath
    <3>2. \A i \in DOMAIN stack : i > 1 => i - 1 \in DOMAIN stack
      BY <2>1 DEF PathOK
    <3> QED BY <3>1, <3>2, <2>1 DEF PathOK
  <2>3. CASE Close(next)
    <3>1. PICK i \in DOMAIN stack : Path[i] = next /\ Found(SubSeq(Path, i, Len(stack)))
      BY <2>3 DEF Close
    <3> DEFINE body == SubSeq(Path, i, Len(stack))
    <3>2. Closed(body)
      BY <2>1, <3>1, SuffixIsClosed
    <3> HIDE DEF body
    <3>3. PICK pivot \in DOMAIN body : cycles' = cycles \cup {Rotated(body, pivot)}
      BY <3>1 DEF Found, body
    <3>4. Closed(Rotated(body, pivot))
      BY <3>2, RotationIsClosed DEF Rotated
    <3>5. IsCycle(Rotated(body, pivot)) /\ Rotated(body, pivot) \in Seq(Nodes)
      BY <3>4, ClosedIsCycle DEF Closed
    <3>6. CyclesOK'
      BY <3>3, <3>5, <2>1 DEF CyclesOK, CyclesAreReal, IsCycle, EdgesOf, IsInjective
    <3>7. PathOK'
      BY <2>2, <2>3 DEF Close
    <3> QED BY <3>6, <3>7, <2>1 DEF DiveInv
  <2>4. CASE Enter(next)
    <3>1. stack' = Append(Take(next), Frame(next)) /\ next \notin Range(Path) /\ UNCHANGED cycles
      BY <2>4 DEF Enter
    <3>2. PathOK'
      BY <3>1, <2>1, EnterKeepsPath DEF PathOK
    <3> QED BY <3>1, <3>2, <2>1 DEF DiveInv, CyclesOK, CyclesAreReal, IsCycle, EdgesOf, IsInjective
  <2>5. CASE Pass(next)
    <3>1. PathOK' /\ UNCHANGED cycles
      BY <2>2, <2>5 DEF Pass
    <3> QED BY <3>1, <2>1 DEF DiveInv, CyclesOK, CyclesAreReal, IsCycle, EdgesOf, IsInjective
  <2> QED BY <1>4, <2>3, <2>4, <2>5
<1>5. CASE Write
  <2>1. pc \notin Diving /\ UNCHANGED <<pc, stack, cycles>>
    BY <1>5 DEF Write, Diving, dive
  <2>2. stack' = <<>> /\ cycles' = {}
    BY <2>1 DEF DiveInv
  <2> QED BY <2>1, <2>2 DEF DiveInv, PathOK, CyclesOK, CyclesAreReal
<1>6. CASE UNCHANGED vars
  BY <1>6, Elsewhere DEF vars
<1> QED BY <1>1, <1>2, <1>3, <1>4, <1>5, <1>6 DEF Next, Step

\* Every path cycles() reports is a simple cycle of the imports, for graphs of
\* any size and whatever order their edges are read in.
THEOREM ReportedAreCycles == Spec => []CyclesAreReal
<1>1. DiveInv => CyclesAreReal
  BY DEF DiveInv, CyclesOK
<1> QED BY <1>1, InitDive, NextDive, PTL DEF Spec
----------------------------------------------------------------------------
(* Types.                                                                  *)

\* Appending some order of a finite set to a queue appends its members.
LEMMA OrderFacts ==
    ASSUME NEW S, IsFiniteSet(S), NEW order \in SetToSeqs(S)
    PROVE  order \in Seq(S) /\ Range(order) = S
<1>. DEFINE D == 1 .. Cardinality(S)
<1>1. order \in [D -> S] /\ \A i, j \in D : i # j => order[i] # order[j]
  BY DEF SetToSeqs
<1>2. Cardinality(S) \in Nat
  BY FS_CardinalityType
<1>3. IsFiniteSet(D) /\ Cardinality(D) = Cardinality(S)
  BY <1>2, FS_Interval
<1>. HIDE DEF D
<1>4. order \in Injection(D, S)
  BY <1>1 DEF Injection, IsInjective
<1>5. order \in Surjection(D, S)
  BY <1>3, <1>4, FS_Injection
<1>6. Range(order) = S
  BY <1>1, <1>5 DEF Range, Surjection
<1>7. order \in Seq(S)
  BY <1>1, <1>2 DEF D
<1>. QED BY <1>6, <1>7

\* A walk is from a match.
WalkOK == pc = "walk" => todo # <<>>

LEMMA NextWalk == WalkOK /\ [Next]_vars => WalkOK'
<1>. SUFFICES ASSUME WalkOK, [Next]_vars PROVE WalkOK'
  OBVIOUS
<1>1. CASE UNCHANGED vars \/ Visit \/ Write
  BY <1>1 DEF WalkOK, vars, Visit, Write, walk
<1>2. CASE Seed
  BY <1>2 DEF WalkOK, Seed
<1>3. CASE Merge \/ Answer \/ Root \/ Pop \/ Report
  BY <1>3 DEF WalkOK, Merge, Answer, Root, Pop, Report
<1>4. CASE \E next \in Nodes : Close(next) \/ Enter(next) \/ Pass(next)
  BY <1>4 DEF WalkOK, Close, Enter, Pass
<1>. QED BY <1>1, <1>2, <1>3, <1>4 DEF Next, Step

\* No search has gone anywhere at first.
LEMMA InitTypes == Init => TypeOK
<1>. SUFFICES ASSUME Init PROVE TypeOK
  OBVIOUS
<1>1. graph \in SUBSET (Nodes \X Nodes) /\ MaxDepth \in Nat
  BY SearchAssumption DEF Init
<1>2. /\ queue = <<>> /\ answer = {} /\ writes = 0 /\ stack = <<>> /\ finished = {} /\ cycles = {}
      /\ depths = Nothing /\ pc \in {"seed", "root"}
  BY DEF Init
<1>3. rows \subseteq Nodes /\ code \subseteq Nodes /\ candidates \subseteq code
  BY DEF Init, Most
<1>4. depths \in Depths
  <2>1. depths \in [{} -> 0 .. MaxDepth]
    BY <1>2 DEF Nothing
  <2>. QED BY <2>1 DEF Depths
<1>5. todo \in Seq(candidates)
  <2>1. CASE todo \in Matches
    <3>1. PICK k \in 0 .. MaxSeeds : todo \in [1 .. k -> candidates]
      BY <2>1 DEF Matches
    <3>2. k \in Nat
      BY SearchAssumption
    <3>. QED BY <3>1, <3>2
  <2>2. CASE todo = <<>>
    BY <2>2
  <2>. QED BY <2>1, <2>2 DEF Init
<1>6. found \in Depths
  <2>1. CASE found = [n \in Range(todo) |-> 0]
    <3>1. Range(todo) \subseteq Nodes
      BY <1>3, <1>5 DEF Range
    <3>2. found \in [Range(todo) -> 0 .. MaxDepth]
      BY <1>1, <2>1
    <3>. QED BY <3>1, <3>2 DEF Depths
  <2>2. CASE found = Nothing
    BY <1>2, <1>4, <2>2
  <2>. QED BY <2>1, <2>2 DEF Init
<1>. QED BY <1>1, <1>2, <1>3, <1>4, <1>5, <1>6 DEF TypeOK

\* A function to depths is one of Depths.
LEMMA DepthsFacts ==
    /\ \A S \in SUBSET Nodes : \A f \in [S -> 0 .. MaxDepth] : f \in Depths
    /\ \A f \in Depths : f \in [DOMAIN f -> 0 .. MaxDepth] /\ DOMAIN f \in SUBSET Nodes
BY DEF Depths

LEMMA VisitTypes ==
    ASSUME TypeOK, Visit
    PROVE  depths' \in Depths /\ queue' \in Seq(DOMAIN depths')
<1>. DEFINE n == Head(queue)
<1>1. /\ queue # <<>>
      /\ depths' = [m \in DOMAIN depths \cup New(n) |->
                        IF m \in New(n) THEN depths[n] + 1 ELSE depths[m]]
      /\ \E order \in SetToSeqs(New(n)) : queue' = Tail(queue) \o order
  BY DEF Visit
<1>2. PICK order \in SetToSeqs(New(n)) : queue' = Tail(queue) \o order
  BY <1>1
<1>3. depths \in [DOMAIN depths -> 0 .. MaxDepth] /\ DOMAIN depths \in SUBSET Nodes /\ MaxDepth \in Nat
  BY DepthsFacts, SearchAssumption DEF TypeOK
<1>4. queue \in Seq(DOMAIN depths) /\ n \in DOMAIN depths /\ Tail(queue) \in Seq(DOMAIN depths)
  BY <1>1 DEF TypeOK
<1>. HIDE DEF n
<1>5. New(n) \in SUBSET Nodes /\ (New(n) # {} => depths[n] < MaxDepth)
  <2>1. Neighbours(n) \subseteq Nodes
    BY DEF Neighbours, TypeOK
  <2>2. depths[n] \in 0 .. MaxDepth
    BY <1>3, <1>4
  <2>. QED BY <1>3, <2>1, <2>2 DEF New
<1>6. \A m \in New(n) : depths[n] + 1 \in 0 .. MaxDepth
  BY <1>3, <1>4, <1>5
<1>7. depths' \in [DOMAIN depths \cup New(n) -> 0 .. MaxDepth]
  BY <1>1, <1>3, <1>6
<1>8. depths' \in Depths
  BY <1>3, <1>5, <1>7, DepthsFacts
<1>9. IsFiniteSet(New(n))
  BY <1>5, SearchAssumption, FS_Subset
<1>10. order \in Seq(New(n))
  BY <1>9, OrderFacts
<1>11. order \in Seq(DOMAIN depths') /\ Tail(queue) \in Seq(DOMAIN depths')
  <2>. DEFINE V == DOMAIN depths'
  <2>1. DOMAIN depths \subseteq V /\ New(n) \subseteq V
    BY <1>7
  <2>. HIDE DEF V
  <2>2. \A A \in SUBSET V : \A s \in Seq(A) : s \in Seq(V)
    OBVIOUS
  <2>. QED BY <1>4, <1>10, <2>1, <2>2 DEF V
<1>. QED BY <1>2, <1>8, <1>11

\* Each step keeps the types.
LEMMA NextTypes ==
    ASSUME DiveInv, TypeOK, WalkOK, [Next]_vars
    PROVE  TypeOK'
<1>0. MaxDepth \in Nat
  BY SearchAssumption
<1>1. DiveInv'
  BY NextDive
<1>2. stack' \in Seq([node: Nodes, left: SUBSET Nodes]) /\ cycles' \subseteq Seq(Nodes)
  BY <1>1 DEF DiveInv, PathOK, CyclesOK, Frames
<1>3. CASE UNCHANGED vars
  BY <1>2, <1>3 DEF vars, TypeOK
<1>4. CASE Seed
  <2>1. UNCHANGED <<graph, rows, code, candidates, todo, found, answer, writes, finished>> /\ pc' = "walk"
    BY <1>4 DEF Seed, store, dive
  <2>2. todo # <<>> /\ depths' = [n \in {Head(todo)} |-> 0] /\ queue' = <<Head(todo)>>
    BY <1>4 DEF Seed
  <2>3. Head(todo) \in Nodes
    BY <2>2 DEF TypeOK
  <2>4. depths' \in [{Head(todo)} -> 0 .. MaxDepth]
    BY <1>0, <2>2
  <2>5. depths' \in Depths
    BY <2>3, <2>4, DepthsFacts
  <2>6. queue' \in Seq(DOMAIN depths')
    BY <2>2
  <2>. QED BY <1>2, <2>1, <2>5, <2>6 DEF TypeOK
<1>5. CASE Visit
  <2>1. UNCHANGED <<graph, rows, code, candidates, pc, todo, found, answer, writes, finished>>
    BY <1>5 DEF Visit, store, dive
  <2>. QED BY <1>2, <1>5, <2>1, VisitTypes DEF TypeOK
<1>6. CASE Merge
  <2>. DEFINE near == (DOMAIN depths \ {Head(todo)}) \cap code \cap (candidates \cup rows)
  <2>1. UNCHANGED <<graph, rows, code, candidates, depths, queue, answer, writes, finished>> /\ pc' = "seed"
    BY <1>6 DEF Merge, store, dive
  <2>2. /\ found' = [n \in DOMAIN found \cup near |-> IF n \in DOMAIN found THEN found[n] ELSE depths[n]]
        /\ todo' = Tail(todo)
    BY <1>6 DEF Merge
  <2>3. /\ depths \in [DOMAIN depths -> 0 .. MaxDepth] /\ found \in [DOMAIN found -> 0 .. MaxDepth]
        /\ DOMAIN depths \in SUBSET Nodes /\ DOMAIN found \in SUBSET Nodes
    BY DepthsFacts DEF TypeOK
  <2>4. found' \in [DOMAIN found \cup near -> 0 .. MaxDepth] /\ DOMAIN found \cup near \in SUBSET Nodes
    BY <2>2, <2>3
  <2>5. found' \in Depths
    BY <2>4, DepthsFacts
  <2>6. todo' \in Seq(candidates)
    <3>1. todo # <<>>
      BY <1>6 DEF Merge, WalkOK
    <3>. QED BY <2>2, <3>1 DEF TypeOK
  <2>. QED BY <1>2, <2>1, <2>5, <2>6 DEF TypeOK
<1>7. CASE Answer
  <2>1. /\ UNCHANGED <<graph, rows, code, candidates, todo, depths, queue, found, writes, finished>>
        /\ pc' = "answered"
    BY <1>7 DEF Answer, store, dive
  <2>2. answer' \subseteq DOMAIN found
    BY <1>7 DEF Answer, Cut
  <2>3. DOMAIN found \in SUBSET Nodes
    BY DepthsFacts DEF TypeOK
  <2>. QED BY <1>2, <2>1, <2>2, <2>3 DEF TypeOK
<1>8. CASE Write
  <2>1. UNCHANGED <<code, candidates, pc, todo, depths, queue, found, answer, finished>> /\ writes' = writes + 1
    BY <1>8 DEF Write, walk, dive
  <2>2. graph' \in SUBSET (Nodes \X Nodes) /\ rows' \subseteq Nodes
    BY <1>8 DEF Write, Difference, TypeOK
  <2>. QED BY <1>2, <2>1, <2>2 DEF TypeOK
<1>9. CASE Root \/ Report \/ Pop \/ \E next \in Nodes : Close(next) \/ Enter(next) \/ Pass(next)
  <2>1. UNCHANGED <<graph, rows, code, candidates, todo, depths, queue, found, answer, writes>>
    BY <1>9 DEF Root, Report, Pop, Close, Enter, Pass, store, walk
  <2>2. pc' \in {"dive", "root", "reported"}
    BY <1>9 DEF Root, Report, Pop, Close, Enter, Pass
  <2>3. finished' \subseteq Nodes
    <3>1. CASE Pop
      <4>1. stack # <<>> /\ finished' = finished \cup {Top.node}
        BY <3>1 DEF Pop
      <4>. QED BY <4>1, TopIsLast DEF DiveInv, TypeOK
    <3>2. CASE Root \/ Report \/ \E next \in Nodes : Close(next) \/ Enter(next) \/ Pass(next)
      BY <3>2 DEF Root, Report, Close, Enter, Pass, dive, TypeOK
    <3>. QED BY <1>9, <3>1, <3>2
  <2>. QED BY <1>2, <2>1, <2>2, <2>3 DEF TypeOK
<1>. QED BY <1>3, <1>4, <1>5, <1>6, <1>7, <1>8, <1>9 DEF Next, Step

\* Nodes, depths, queue and stack of both searches (reachable, cycles) are what
\* they should be, for graphs of any size and whichever ingests commit.
THEOREM SearchTypes == Spec => []TypeOK
<1>1. Init => DiveInv /\ WalkOK /\ TypeOK
  BY InitDive, InitTypes DEF Init, WalkOK
<1>. QED BY <1>1, NextDive, NextWalk, NextTypes, PTL DEF Spec

----------------------------------------------------------------------------
(* Distances.                                                              *)

\* Neighbours and Ball, of a graph that is named.
NearIn(g, r, n) == {m \in r : <<n, m>> \in g \/ <<m, n>> \in g}
BallIn(g, r, seed) ==
    LET ball[k \in 0 .. MaxDepth] ==
            IF k = 0 THEN {seed}
            ELSE ball[k - 1] \cup UNION {NearIn(g, r, n) : n \in ball[k - 1]}
    IN  ball
DistanceIn(g, r, k, seed, n) ==
    n \in BallIn(g, r, seed)[k] /\ (k > 0 => n \notin BallIn(g, r, seed)[k - 1])

Seeds == {n \in DOMAIN found : found[n] = 0}

\* Each node reached has its distance, nodes wait in the order of theirs and within
\* one of each other, and what waits no more has reached its neighbours.
WalkFrom(seed) ==
    /\ seed \in DOMAIN depths
    /\ \A n \in DOMAIN depths : DistanceIn(graph, rows, depths[n], seed, n)
    /\ \A i, j \in DOMAIN queue : i <= j => /\ depths[queue[i]] <= depths[queue[j]]
                                            /\ depths[queue[j]] <= depths[queue[i]] + 1
    /\ \A n \in DOMAIN depths \ Range(queue) :
        depths[n] < MaxDepth => NearIn(graph, rows, n) \subseteq DOMAIN depths

\* The answer so far is near a match, and has what is near to those walked from.
NearOK ==
    /\ pc = "answered" => todo = <<>> /\ answer \in Cut
    /\ writes = 0 =>
        /\ candidates = code \cap rows
        /\ Range(todo) \subseteq Seeds /\ DOMAIN found \subseteq candidates
        /\ \A n \in DOMAIN found : \E seed \in Seeds : DistanceIn(graph, rows, found[n], seed, n)
        /\ \A seed \in Seeds \ Range(todo) :
            candidates \cap BallIn(graph, rows, seed)[MaxDepth] \subseteq DOMAIN found
        /\ pc = "walk" => WalkFrom(Head(todo))

\* The recursive function of Ball exists, and is one.
LEMMA BallFacts ==
    ASSUME NEW g, NEW r, NEW seed
    PROVE  /\ BallIn(g, r, seed)[0] = {seed}
           /\ \A k \in 0 .. MaxDepth : k > 0 =>
                BallIn(g, r, seed)[k] = BallIn(g, r, seed)[k - 1]
                    \cup UNION {NearIn(g, r, n) : n \in BallIn(g, r, seed)[k - 1]}
<1>. DEFINE Grow(S) == S \cup UNION {NearIn(g, r, n) : n \in S}
            IsBall(f, j) == f = [k \in 0 .. j |-> IF k = 0 THEN {seed} ELSE Grow(f[k - 1])]
            T == {j \in Nat : ~ \E f : IsBall(f, j)}
<1>0. MaxDepth \in Nat
  BY SearchAssumption
<1>1. T = {}
  <2>. SUFFICES ASSUME T # {} PROVE FALSE
    OBVIOUS
  <2>1. PICK j \in T : \A i \in T : j <= i
    <3>1. T \in SUBSET Nat
      OBVIOUS
    <3>. HIDE DEF T
    <3>. QED BY <3>1, LeastNat
  <2>. HIDE DEF Grow
  <2>2. j # 0
    <3>1. [k \in 0 .. 0 |-> {seed}]
            = [k \in 0 .. 0 |-> IF k = 0 THEN {seed} ELSE Grow([i \in 0 .. 0 |-> {seed}][k - 1])]
      OBVIOUS
    <3>2. \E f : IsBall(f, 0)
      BY <3>1
    <3>. QED BY <2>1, <3>2
  <2>3. j - 1 \in Nat /\ j - 1 \notin T
    <3>1. j \in Nat
      OBVIOUS
    <3>2. j - 1 \in Nat /\ ~(j <= j - 1)
      BY ONLY <2>2, <3>1
    <3>. HIDE DEF T
    <3>. QED BY <2>1, <3>2
  <2>4. PICK f : IsBall(f, j - 1)
    BY <2>3
  <2>. DEFINE h == [k \in 0 .. j |-> IF k = j THEN Grow(f[k - 1]) ELSE f[k]]
  <2>5. \A k \in 0 .. j : h[k] = IF k = 0 THEN {seed} ELSE Grow(h[k - 1])
    <3>1. \A k \in 0 .. j - 1 : f[k] = IF k = 0 THEN {seed} ELSE Grow(f[k - 1])
      BY <2>3, <2>4
    <3>. TAKE k \in 0 .. j
    <3>2. CASE k = j
      BY <2>2, <2>3, <3>2
    <3>3. CASE k # j
      <4>1. k \in 0 .. j - 1 /\ h[k] = f[k] /\ (k # 0 => h[k - 1] = f[k - 1])
        BY <2>3, <3>3
      <4>. HIDE DEF h
      <4>. QED BY <3>1, <4>1
    <3>. QED BY <3>2, <3>3
  <2>6. h = [k \in 0 .. j |-> h[k]]
    OBVIOUS
  <2>. HIDE DEF h
  <2>7. IsBall(h, j)
    BY <2>5, <2>6
  <2>. QED BY <2>1, <2>7
<1>2. \E f : IsBall(f, MaxDepth)
  BY <1>0, <1>1
<1>3. BallIn(g, r, seed) = CHOOSE f : IsBall(f, MaxDepth)
  BY DEF BallIn
<1>4. IsBall(BallIn(g, r, seed), MaxDepth)
  BY <1>2, <1>3
<1>. DEFINE B == BallIn(g, r, seed)
<1>. HIDE DEF B, Grow
<1>5. \A k \in 0 .. MaxDepth : B[k] = IF k = 0 THEN {seed} ELSE Grow(B[k - 1])
  BY <1>4 DEF B
<1>6. B[0] = {seed} /\ \A k \in 0 .. MaxDepth : k > 0 => B[k] = Grow(B[k - 1])
  BY <1>0, <1>5
<1>. QED BY <1>6 DEF B, Grow

\* Balls grow.
LEMMA BallsGrow ==
    ASSUME NEW g, NEW r, NEW seed, NEW j \in 0 .. MaxDepth, NEW k \in 0 .. MaxDepth, j <= k
    PROVE  BallIn(g, r, seed)[j] \subseteq BallIn(g, r, seed)[k]
<1>. DEFINE B == BallIn(g, r, seed)
            T == {i \in j .. MaxDepth : ~(B[j] \subseteq B[i])}
<1>. SUFFICES ASSUME k \in T PROVE FALSE
  BY SearchAssumption
<1>. HIDE DEF B
<1>1. PICK i \in T : \A h \in T : i <= h
  <2>1. T \in SUBSET Nat /\ T # {}
    OBVIOUS
  <2>. HIDE DEF T
  <2>. QED BY <2>1, LeastNat
<1>2. i > j /\ i - 1 \in j .. MaxDepth /\ i \in 0 .. MaxDepth /\ i > 0
  BY <1>1, SearchAssumption
<1>3. B[j] \subseteq B[i - 1]
  <2>1. i - 1 \notin T
    BY <1>1, <1>2
  <2>. QED BY <1>2, <2>1
<1>4. B[i - 1] \subseteq B[i]
  BY <1>2, BallFacts DEF B
<1>. QED BY <1>1, <1>3, <1>4

\* What has been reached holds the ball of a distance, if all that is nearer has
\* reached its neighbours.
LEMMA BallIsReached ==
    ASSUME NEW g, NEW r, NEW seed, NEW V, seed \in V, NEW dep,
           \A n \in V : dep[n] \in 0 .. MaxDepth /\ DistanceIn(g, r, dep[n], seed, n),
           NEW d \in 0 .. MaxDepth,
           \A n \in V : dep[n] < d => NearIn(g, r, n) \subseteq V
    PROVE  BallIn(g, r, seed)[d] \subseteq V
<1>. DEFINE B == BallIn(g, r, seed)
            T == {i \in 0 .. d : ~(B[i] \subseteq V)}
<1>0. MaxDepth \in Nat /\ d \in Nat /\ d <= MaxDepth
  BY SearchAssumption
<1>. SUFFICES ASSUME d \in T PROVE FALSE
  BY <1>0
<1>. HIDE DEF B
<1>1. PICK k \in T : \A h \in T : k <= h
  <2>1. T \in SUBSET Nat /\ T # {}
    OBVIOUS
  <2>. HIDE DEF T
  <2>. QED BY <2>1, LeastNat
<1>2. k # 0
  BY <1>1, BallFacts DEF B
<1>3. k \in 0 .. MaxDepth /\ k > 0 /\ k - 1 \in 0 .. d /\ k - 1 < d /\ k - 1 \in 0 .. MaxDepth
  BY <1>0, <1>1, <1>2
<1>4. B[k - 1] \subseteq V
  <2>1. k - 1 \notin T
    BY <1>1, <1>3
  <2>. QED BY <1>3, <2>1
<1>5. ASSUME NEW n \in B[k - 1] PROVE NearIn(g, r, n) \subseteq V
  <2>1. n \in V /\ dep[n] \in 0 .. MaxDepth /\ DistanceIn(g, r, dep[n], seed, n)
    BY <1>4, <1>5
  <2>2. dep[n] <= k - 1
    <3>. SUFFICES ASSUME dep[n] >= k PROVE FALSE
      BY <1>3, <2>1
    <3>1. dep[n] - 1 \in 0 .. MaxDepth /\ k - 1 <= dep[n] - 1 /\ dep[n] > 0
      <4>1. MaxDepth \in Nat /\ k \in 0 .. MaxDepth /\ k > 0 /\ dep[n] \in 0 .. MaxDepth /\ dep[n] >= k
        BY <1>0, <1>3, <2>1
      <4>. QED BY ONLY <4>1
    <3>2. B[k - 1] \subseteq B[dep[n] - 1]
      BY <1>3, <3>1, BallsGrow DEF B
    <3>3. n \notin B[dep[n] - 1]
      BY <2>1, <3>1 DEF DistanceIn, B
    <3>. QED BY <1>5, <3>2, <3>3
  <2>. QED BY <1>3, <2>1, <2>2
<1>6. B[k] = B[k - 1] \cup UNION {NearIn(g, r, n) : n \in B[k - 1]}
  BY <1>3, BallFacts DEF B
<1>. QED BY <1>1, <1>4, <1>5, <1>6

\* Before the first match is walked from, the matches are the answer.
LEMMA InitNear == Init => NearOK
<1>. SUFFICES ASSUME Init PROVE NearOK
  OBVIOUS
<1>1. pc \in {"seed", "root"}
  BY DEF Init
<1>2. ASSUME NEW n PROVE DistanceIn(graph, rows, 0, n, n)
  BY BallFacts DEF DistanceIn
<1>3. CASE pc = "seed"
  <2>1. /\ candidates = code \cap rows /\ found = [n \in Range(todo) |-> 0] /\ todo \in Matches
    BY <1>3 DEF Init
  <2>2. Range(todo) \subseteq candidates
    BY <2>1 DEF Range, Matches
  <2>3. Seeds = Range(todo) /\ DOMAIN found = Range(todo) /\ \A n \in DOMAIN found : found[n] = 0
    BY <2>1 DEF Seeds
  <2>. QED BY <1>1, <1>2, <1>3, <2>1, <2>2, <2>3 DEF NearOK
<1>4. CASE pc = "root"
  <2>1. rows = Nodes /\ code = Nodes /\ candidates = Nodes /\ todo = <<>> /\ found = Nothing
    BY <1>4 DEF Init
  <2>2. DOMAIN found = {} /\ Seeds = {} /\ Range(todo) = {}
    BY <2>1 DEF Nothing, Seeds, Range
  <2>. QED BY <1>4, <2>1, <2>2 DEF NearOK
<1>. QED BY <1>1, <1>3, <1>4

\* A walk starts at its match.
LEMMA SeedNear ==
    ASSUME TypeOK, NearOK, Seed
    PROVE  NearOK'
<1>1. /\ UNCHANGED <<graph, rows, code, candidates, todo, found, writes>> /\ pc' = "walk"
      /\ todo # <<>> /\ depths' = [n \in {Head(todo)} |-> 0] /\ queue' = <<Head(todo)>>
  BY DEF Seed, store, dive
<1>. PICK s : s = Head(todo)
  OBVIOUS
<1>2. DistanceIn(graph, rows, 0, s, s)
  BY BallFacts DEF DistanceIn
<1>3. DOMAIN depths' = {s} /\ depths'[s] = 0 /\ DOMAIN queue' = {1} /\ queue'[1] = s
  BY <1>1
<1>4. Range(queue') = {s}
  BY <1>3 DEF Range
<1>5. WalkFrom(s)'
  <2>1. \A n \in DOMAIN depths' : DistanceIn(graph', rows', depths'[n], s, n)
    BY <1>1, <1>2, <1>3
  <2>2. \A i, j \in DOMAIN queue' : i <= j => /\ depths'[queue'[i]] <= depths'[queue'[j]]
                                             /\ depths'[queue'[j]] <= depths'[queue'[i]] + 1
    BY <1>3
  <2>3. DOMAIN depths' \ Range(queue') = {}
    BY <1>3, <1>4
  <2>. QED BY <1>3, <2>1, <2>2, <2>3 DEF WalkFrom
<1>6. WalkFrom(Head(todo))'
  BY <1>1, <1>5 DEF WalkFrom
<1>7. Seeds' = Seeds
  BY <1>1 DEF Seeds
<1>8. ASSUME writes' = 0
      PROVE  /\ candidates' = code' \cap rows'
             /\ Range(todo') \subseteq Seeds' /\ DOMAIN found' \subseteq candidates'
             /\ \A n \in DOMAIN found' : \E seed \in Seeds' : DistanceIn(graph', rows', found'[n], seed, n)
             /\ \A seed \in Seeds' \ Range(todo') :
                    candidates' \cap BallIn(graph', rows', seed)[MaxDepth] \subseteq DOMAIN found'
  BY <1>1, <1>7, <1>8 DEF NearOK
<1>9. pc' # "answered"
  BY <1>1
<1>. QED BY <1>6, <1>8, <1>9 DEF NearOK

\* A visit reaches what is one hop farther, behind all that waits.
LEMMA VisitWalks ==
    ASSUME TypeOK, Visit, NEW s, WalkFrom(s)
    PROVE  WalkFrom(s)'
<1>. DEFINE n == Head(queue)
            d == depths[n]
            V == DOMAIN depths
            N == New(n)
            L == Len(queue)
<1>0. MaxDepth \in Nat
  BY SearchAssumption
<1>1. /\ UNCHANGED <<graph, rows>> /\ queue # <<>>
      /\ depths' = [m \in V \cup N |-> IF m \in N THEN d + 1 ELSE depths[m]]
  BY DEF Visit, store
<1>2. PICK order \in SetToSeqs(N) : queue' = Tail(queue) \o order
  BY DEF Visit
<1>3. depths \in [V -> 0 .. MaxDepth] /\ V \in SUBSET Nodes /\ queue \in Seq(V)
  BY DepthsFacts DEF TypeOK
<1>4. /\ L \in Nat /\ L > 0 /\ DOMAIN queue = 1 .. L /\ n = queue[1] /\ n \in V
      /\ \A i \in 1 .. L : queue[i] \in V
  BY <1>1, <1>3
<1>5. d \in 0 .. MaxDepth /\ \A m \in V : depths[m] \in 0 .. MaxDepth
  BY <1>3, <1>4
<1>6. /\ N \subseteq NearIn(graph, rows, n) /\ N \cap V = {} /\ (N # {} => d < MaxDepth)
      /\ d < MaxDepth => NearIn(graph, rows, n) \subseteq V \cup N
  <2>1. Neighbours(n) = NearIn(graph, rows, n)
    BY DEF Neighbours, NearIn
  <2>. QED BY <1>0, <1>5, <2>1 DEF New
<1>7. /\ DOMAIN depths' = V \cup N /\ \A m \in N : depths'[m] = d + 1
      /\ \A m \in V : depths'[m] = depths[m]
  BY <1>1, <1>6
<1>8. order \in Seq(N) /\ Range(order) = N
  <2>1. N \subseteq Nodes
    BY <1>6 DEF NearIn, TypeOK
  <2>2. IsFiniteSet(N)
    BY <2>1, SearchAssumption, FS_Subset
  <2>. HIDE DEF N
  <2>. QED BY <2>2, OrderFacts
<1>. HIDE DEF N, d, n
<1>9. /\ DOMAIN queue' = 1 .. (L - 1 + Len(order)) /\ Len(order) \in Nat
      /\ \A i \in 1 .. (L - 1 + Len(order)) :
            queue'[i] = IF i <= L - 1 THEN queue[i + 1] ELSE order[i - (L - 1)]
  <2>1. Tail(queue) \in Seq(V) /\ Len(Tail(queue)) = L - 1
        /\ \A i \in 1 .. L - 1 : Tail(queue)[i] = queue[i + 1]
    BY <1>1, <1>3, <1>4
  <2>. QED BY <1>2, <1>4, <1>8, <2>1
<1>10. \A i \in 1 .. L : d <= depths[queue[i]] /\ depths[queue[i]] <= d + 1
  BY <1>4 DEF WalkFrom, d
<1>11. \A i \in DOMAIN queue' :
        \/ i <= L - 1 /\ i + 1 \in 1 .. L /\ queue'[i] = queue[i + 1]
                      /\ depths'[queue'[i]] = depths[queue[i + 1]]
        \/ i > L - 1 /\ queue'[i] \in N /\ depths'[queue'[i]] = d + 1
  <2>. TAKE i \in DOMAIN queue'
  <2>1. CASE i <= L - 1
    <3>1. i + 1 \in 1 .. L /\ queue'[i] = queue[i + 1]
      BY <1>4, <1>9, <2>1
    <3>. QED BY <1>4, <1>7, <2>1, <3>1
  <2>2. CASE ~(i <= L - 1)
    <3>1. i - (L - 1) \in 1 .. Len(order) /\ queue'[i] = order[i - (L - 1)] /\ i > L - 1
      BY <1>4, <1>9, <2>2
    <3>2. order[i - (L - 1)] \in N
      BY <1>8, <3>1
    <3>. QED BY <1>7, <3>1, <3>2
  <2>. QED BY <2>1, <2>2
<1>12. ASSUME NEW i \in DOMAIN queue', NEW j \in DOMAIN queue', i <= j
       PROVE  /\ depths'[queue'[i]] <= depths'[queue'[j]]
              /\ depths'[queue'[j]] <= depths'[queue'[i]] + 1
  <2>0. i \in Nat /\ j \in Nat /\ L \in Nat
    BY <1>4, <1>9
  <2>1. CASE j <= L - 1
    <3>1. i <= L - 1 /\ i + 1 <= j + 1
      BY <1>12, <2>0, <2>1
    <3>2. /\ i + 1 \in 1 .. L /\ depths'[queue'[i]] = depths[queue[i + 1]]
          /\ j + 1 \in 1 .. L /\ depths'[queue'[j]] = depths[queue[j + 1]]
      BY <1>11, <2>0, <2>1, <3>1
    <3>. QED BY <1>4, <3>1, <3>2 DEF WalkFrom
  <2>2. CASE j > L - 1 /\ i <= L - 1
    <3>1. i + 1 \in 1 .. L /\ depths'[queue'[i]] = depths[queue[i + 1]] /\ depths'[queue'[j]] = d + 1
      BY <1>11, <2>0, <2>2
    <3>2. queue[i + 1] \in V /\ d <= depths[queue[i + 1]] /\ depths[queue[i + 1]] <= d + 1
      BY <1>4, <1>10, <3>1
    <3>. QED BY <1>5, <3>1, <3>2
  <2>3. CASE j > L - 1 /\ i > L - 1
    BY <1>5, <1>11, <2>0, <2>3
  <2>. QED BY <1>12, <2>0, <2>1, <2>2, <2>3
<1>13. BallIn(graph, rows, s)[d] \subseteq V
  <2>1. ASSUME NEW x \in V, depths[x] < d PROVE NearIn(graph, rows, x) \subseteq V
    <3>1. x \notin Range(queue)
      BY <1>4, <1>5, <1>10, <2>1 DEF Range
    <3>2. depths[x] < MaxDepth
      BY <1>0, <1>5, <2>1
    <3>. QED BY <3>1, <3>2 DEF WalkFrom
  <2>2. s \in V /\ \A m \in V : DistanceIn(graph, rows, depths[m], s, m)
    BY DEF WalkFrom
  <2>. HIDE DEF V
  <2>. QED BY ONLY <1>5, <2>1, <2>2, BallIsReached
<1>14. ASSUME NEW m \in N PROVE DistanceIn(graph, rows, d + 1, s, m)
  <2>1. d + 1 \in 0 .. MaxDepth /\ d + 1 > 0 /\ (d + 1) - 1 = d
    BY <1>0, <1>5, <1>6, <1>14
  <2>2. n \in BallIn(graph, rows, s)[d]
    BY <1>4 DEF WalkFrom, DistanceIn, d
  <2>3. m \in BallIn(graph, rows, s)[d + 1]
    <3>1. BallIn(graph, rows, s)[d + 1] = BallIn(graph, rows, s)[d]
            \cup UNION {NearIn(graph, rows, x) : x \in BallIn(graph, rows, s)[d]}
      BY <2>1, BallFacts
    <3>. QED BY <1>6, <1>14, <2>2, <3>1
  <2>4. m \notin BallIn(graph, rows, s)[d]
    BY <1>6, <1>13, <1>14
  <2>. QED BY <2>1, <2>3, <2>4 DEF DistanceIn
<1>15. ASSUME NEW x \in DOMAIN depths' \ Range(queue'), depths'[x] < MaxDepth
       PROVE  NearIn(graph, rows, x) \subseteq DOMAIN depths'
  <2>1. x \notin N
    <3>. SUFFICES ASSUME x \in N PROVE FALSE
      OBVIOUS
    <3>1. PICK i \in DOMAIN order : order[i] = x
      BY <1>8 DEF Range
    <3>2. i \in 1 .. Len(order)
      BY <1>8
    <3>3. i + (L - 1) \in DOMAIN queue' /\ queue'[i + (L - 1)] = order[i]
      <4>1. /\ i + (L - 1) \in 1 .. (L - 1 + Len(order)) /\ ~(i + (L - 1) <= L - 1)
            /\ (i + (L - 1)) - (L - 1) = i
        BY <1>4, <1>9, <3>2
      <4>. QED BY <1>9, <4>1
    <3>. QED BY <1>15, <3>1, <3>3 DEF Range
  <2>2. x \in V /\ depths[x] < MaxDepth
    BY <1>7, <1>15, <2>1
  <2>3. CASE x = n
    BY <1>6, <1>7, <2>2, <2>3 DEF d
  <2>4. CASE x # n
    <3>1. x \notin Range(queue)
      <4>. SUFFICES ASSUME NEW i \in 1 .. L, queue[i] = x PROVE FALSE
        BY <1>4 DEF Range
      <4>1. i # 1
        BY <1>4, <2>4
      <4>2. i - 1 \in DOMAIN queue' /\ i - 1 <= L - 1 /\ (i - 1) + 1 = i
        BY <1>4, <1>9, <4>1
      <4>3. queue'[i - 1] = x
        BY <1>9, <4>2
      <4>. QED BY <1>15, <4>2, <4>3 DEF Range
    <3>. QED BY <1>7, <2>2, <3>1 DEF WalkFrom
  <2>. QED BY <2>3, <2>4
<1>16. \A m \in DOMAIN depths' : DistanceIn(graph, rows, depths'[m], s, m)
  BY <1>7, <1>14 DEF WalkFrom
<1>17. s \in DOMAIN depths'
  BY <1>7 DEF WalkFrom
<1>. HIDE DEF V, L
<1>. QED BY <1>1, <1>12, <1>15, <1>16, <1>17 DEF WalkFrom

\* A walk that is over has reached what is near to its match.
LEMMA MergeNear ==
    ASSUME TypeOK, WalkOK, NearOK, Merge
    PROVE  NearOK'
<1>. PICK s : s = Head(todo)
  OBVIOUS
<1>. DEFINE near == (DOMAIN depths \ {s}) \cap code \cap (candidates \cup rows)
            V == DOMAIN depths
<1>1. /\ UNCHANGED <<graph, rows, code, candidates, writes>> /\ pc' = "seed" /\ pc = "walk"
      /\ found' = [n \in DOMAIN found \cup near |-> IF n \in DOMAIN found THEN found[n] ELSE depths[n]]
      /\ todo' = Tail(todo) /\ queue = <<>> /\ todo # <<>>
  BY DEF Merge, store, dive, WalkOK
<1>. SUFFICES ASSUME writes' = 0 PROVE NearOK'
  BY <1>1 DEF NearOK
<1>2. /\ candidates = code \cap rows
      /\ Range(todo) \subseteq Seeds /\ DOMAIN found \subseteq candidates
      /\ \A n \in DOMAIN found : \E seed \in Seeds : DistanceIn(graph, rows, found[n], seed, n)
      /\ \A seed \in Seeds \ Range(todo) :
            candidates \cap BallIn(graph, rows, seed)[MaxDepth] \subseteq DOMAIN found
      /\ WalkFrom(s)
  BY <1>1 DEF NearOK
<1>3. depths \in [V -> 0 .. MaxDepth] /\ MaxDepth \in Nat
  BY DepthsFacts, SearchAssumption DEF TypeOK
<1>4. s \in Range(todo) /\ Range(todo) \subseteq Range(todo') \cup {s} /\ Range(todo') \subseteq Range(todo)
  <2>1. /\ Len(todo) \in Nat /\ Len(todo) > 0 /\ DOMAIN todo = 1 .. Len(todo) /\ s = todo[1]
        /\ DOMAIN todo' = 1 .. Len(todo) - 1
        /\ \A i \in 1 .. Len(todo) - 1 : todo'[i] = todo[i + 1]
    BY <1>1 DEF TypeOK
  <2>2. \A i \in 2 .. Len(todo) : i - 1 \in 1 .. Len(todo) - 1 /\ (i - 1) + 1 = i
    BY <2>1
  <2>3. \A i \in 2 .. Len(todo) : i - 1 \in DOMAIN todo' /\ todo'[i - 1] = todo[i]
    BY <2>1, <2>2
  <2>4. s \in Range(todo)
    BY <2>1 DEF Range
  <2>5. \A i \in DOMAIN todo : todo[i] = s \/ todo[i] \in Range(todo')
    <3>. SUFFICES ASSUME NEW i \in DOMAIN todo, i # 1 PROVE todo[i] \in Range(todo')
      BY <2>1
    <3>1. i \in 2 .. Len(todo)
      BY <2>1
    <3>. QED BY <2>3, <3>1 DEF Range
  <2>6. \A i \in DOMAIN todo' : i + 1 \in DOMAIN todo /\ todo'[i] = todo[i + 1]
    BY <2>1
  <2>7. Range(todo) \subseteq Range(todo') \cup {s}
    BY <2>5 DEF Range
  <2>8. Range(todo') \subseteq Range(todo)
    BY <2>6 DEF Range
  <2>. QED BY <2>4, <2>7, <2>8
<1>5. s \in Seeds /\ s \in DOMAIN found
  BY <1>2, <1>4 DEF Seeds
<1>6. BallIn(graph, rows, s)[MaxDepth] \subseteq V
  <2>1. Range(queue) = {}
    BY <1>1 DEF Range
  <2>2. s \in V /\ \A n \in V : DistanceIn(graph, rows, depths[n], s, n)
    BY <1>2 DEF WalkFrom
  <2>3. \A n \in V : depths[n] < MaxDepth => NearIn(graph, rows, n) \subseteq V
    BY <1>2, <2>1 DEF WalkFrom
  <2>4. \A n \in V : depths[n] \in 0 .. MaxDepth
    BY <1>3
  <2>5. MaxDepth \in 0 .. MaxDepth
    BY <1>3
  <2>. HIDE DEF V
  <2>. QED BY ONLY <2>2, <2>3, <2>4, <2>5, BallIsReached
<1>7. near = (V \ {s}) \cap candidates
  BY <1>2
<1>8. ASSUME NEW n \in near
      PROVE  depths[n] # 0 /\ DistanceIn(graph, rows, depths[n], s, n)
  <2>1. DistanceIn(graph, rows, depths[n], s, n) /\ n # s
    BY <1>2, <1>8 DEF WalkFrom
  <2>. QED BY <2>1, BallFacts DEF DistanceIn
<1>9. /\ DOMAIN found' = DOMAIN found \cup near
      /\ \A n \in DOMAIN found : found'[n] = found[n]
      /\ \A n \in near : n \in DOMAIN found \/ found'[n] = depths[n]
  BY <1>1
<1>. HIDE DEF near
<1>10. Seeds' = Seeds
  BY <1>8, <1>9 DEF Seeds
<1>11. \A n \in DOMAIN found' : \E seed \in Seeds : DistanceIn(graph, rows, found'[n], seed, n)
  <2>. TAKE n \in DOMAIN found'
  <2>1. CASE n \in DOMAIN found
    BY <1>2, <1>9, <2>1
  <2>2. CASE n \notin DOMAIN found
    BY <1>5, <1>8, <1>9, <2>2
  <2>. QED BY <2>1, <2>2
<1>12. ASSUME NEW seed \in Seeds \ Range(todo')
       PROVE  candidates \cap BallIn(graph, rows, seed)[MaxDepth] \subseteq DOMAIN found'
  <2>1. CASE seed = s
    BY <1>5, <1>6, <1>7, <1>9, <2>1
  <2>2. CASE seed # s
    BY <1>2, <1>4, <1>9, <1>12, <2>2
  <2>. QED BY <2>1, <2>2
<1>13. DOMAIN found' \subseteq candidates
  BY <1>2, <1>7, <1>9
<1>14. Range(todo') \subseteq Seeds
  BY <1>2, <1>4
<1>15. candidates' = code' \cap rows' /\ pc' = "seed"
  BY <1>1, <1>2
<1>16. /\ \A n \in DOMAIN found' : \E seed \in Seeds' : DistanceIn(graph', rows', found'[n], seed, n)
       /\ \A seed \in Seeds' \ Range(todo') :
            candidates' \cap BallIn(graph', rows', seed)[MaxDepth] \subseteq DOMAIN found'
       /\ Range(todo') \subseteq Seeds' /\ DOMAIN found' \subseteq candidates'
  BY <1>1, <1>10, <1>11, <1>12, <1>13, <1>14
<1>. QED BY <1>15, <1>16 DEF NearOK

\* Each step of context_for keeps what it has found near.
LEMMA NextNear ==
    ASSUME TypeOK, WalkOK, NearOK, [Next]_vars
    PROVE  NearOK'
<1>0. ASSUME UNCHANGED <<graph, rows, code, candidates, todo, found, writes>>,
             pc' = "answered" => todo' = <<>> /\ answer' \in Cut,
             pc' = "walk" => WalkFrom(Head(todo))'
      PROVE  NearOK'
  <2>1. Seeds' = Seeds
    BY <1>0 DEF Seeds
  <2>2. ASSUME writes' = 0
        PROVE  /\ candidates' = code' \cap rows'
               /\ Range(todo') \subseteq Seeds' /\ DOMAIN found' \subseteq candidates'
               /\ \A n \in DOMAIN found' : \E seed \in Seeds' : DistanceIn(graph', rows', found'[n], seed, n)
               /\ \A seed \in Seeds' \ Range(todo') :
                    candidates' \cap BallIn(graph', rows', seed)[MaxDepth] \subseteq DOMAIN found'
    BY <1>0, <2>1, <2>2 DEF NearOK
  <2>3. Cut' = Cut
    BY <1>0 DEF Cut
  <2>. QED BY <1>0, <2>2, <2>3 DEF NearOK
<1>1. CASE UNCHANGED vars
  <2>1. UNCHANGED <<graph, rows, code, candidates, todo, found, answer, writes, depths, queue, pc>>
    BY <1>1 DEF vars
  <2>2. ASSUME writes = 0, pc = "walk" PROVE WalkFrom(Head(todo))'
    BY <2>1, <2>2 DEF NearOK, WalkFrom
  <2>. QED BY <2>1, <2>2 DEF NearOK, Seeds, Cut
<1>2. CASE Seed
  BY <1>2, SeedNear
<1>3. CASE Visit
  <2>1. UNCHANGED <<graph, rows, code, candidates, todo, found, writes>> /\ pc = "walk" /\ pc' = "walk"
    BY <1>3 DEF Visit, store, dive
  <2>2. ASSUME writes = 0 PROVE WalkFrom(Head(todo))'
    <3>. PICK s : s = Head(todo)
      OBVIOUS
    <3>1. WalkFrom(s)
      BY <2>1, <2>2 DEF NearOK
    <3>2. WalkFrom(s)'
      BY <1>3, <3>1, VisitWalks
    <3>. QED BY <2>1, <3>2 DEF WalkFrom
  <2>3. CASE writes = 0
    BY <1>0, <2>1, <2>2, <2>3
  <2>4. CASE writes # 0
    BY <2>1, <2>4 DEF NearOK
  <2>. QED BY <2>3, <2>4
<1>4. CASE Merge
  BY <1>4, MergeNear
<1>5. CASE Answer
  BY <1>0, <1>5 DEF Answer, store
<1>6. CASE Root \/ Report \/ Pop \/ \E next \in Nodes : Close(next) \/ Enter(next) \/ Pass(next)
  <2>1. UNCHANGED <<graph, rows, code, candidates, todo, found, writes>>
    BY <1>6 DEF Root, Report, Pop, Close, Enter, Pass, store, walk
  <2>2. pc' \in {"dive", "root", "reported"}
    BY <1>6 DEF Root, Report, Pop, Close, Enter, Pass
  <2>. QED BY <1>0, <2>1, <2>2
<1>7. CASE Write
  <2>1. writes' = writes + 1 /\ writes \in Nat /\ pc' \in {"seed", "walk"}
    BY <1>7 DEF Write, TypeOK
  <2>2. writes' # 0
    BY <2>1
  <2>. QED BY <2>1, <2>2 DEF NearOK
<1>. QED BY <1>1, <1>2, <1>3, <1>4, <1>5, <1>6, <1>7 DEF Next, Step

\* The answer is what is near to a match.
LEMMA NearIsAnswered == TypeOK /\ NearOK => AnswerIsNear
<1>. SUFFICES ASSUME TypeOK, NearOK, pc = "answered", writes = 0,
                     NEW seeds, seeds = {n \in DOMAIN found : found[n] = 0},
                     NEW close, close = (code \cap rows) \cap UNION {Ball(n)[MaxDepth] : n \in seeds}
              PROVE  /\ answer \subseteq close
                     /\ \A n \in answer : \E seed \in seeds : IsDistance(found[n], seed, n)
                     /\ IF Cardinality(close) <= Limit THEN answer = close ELSE Cardinality(answer) = Limit
  BY DEF AnswerIsNear
<1>1. \A seed : Ball(seed) = BallIn(graph, rows, seed)
  BY DEF Ball, BallIn, Neighbours, NearIn
<1>2. \A k, seed, n : IsDistance(k, seed, n) <=> DistanceIn(graph, rows, k, seed, n)
  BY <1>1 DEF IsDistance, DistanceIn
<1>3. seeds = Seeds /\ Range(todo) = {}
  BY DEF Seeds, NearOK, Range
<1>4. /\ candidates = code \cap rows /\ DOMAIN found \subseteq candidates
      /\ \A n \in DOMAIN found : \E seed \in seeds : DistanceIn(graph, rows, found[n], seed, n)
      /\ \A seed \in seeds : candidates \cap BallIn(graph, rows, seed)[MaxDepth] \subseteq DOMAIN found
  BY <1>3 DEF NearOK
<1>5. ASSUME NEW n \in DOMAIN found
      PROVE  \E seed \in seeds : n \in BallIn(graph, rows, seed)[MaxDepth]
  <2>1. PICK seed \in seeds : DistanceIn(graph, rows, found[n], seed, n)
    BY <1>4
  <2>2. found[n] \in 0 .. MaxDepth /\ MaxDepth \in 0 .. MaxDepth /\ found[n] <= MaxDepth
    BY DepthsFacts, SearchAssumption DEF TypeOK
  <2>3. BallIn(graph, rows, seed)[found[n]] \subseteq BallIn(graph, rows, seed)[MaxDepth]
    BY <2>2, BallsGrow
  <2>. QED BY <2>1, <2>3 DEF DistanceIn
<1>6. DOMAIN found = close
  <2>. DEFINE near == UNION {Ball(n)[MaxDepth] : n \in seeds}
  <2>1. \A n : n \in near <=> \E seed \in seeds : n \in Ball(seed)[MaxDepth]
    OBVIOUS
  <2>2. \A n : n \in near <=> \E seed \in seeds : n \in BallIn(graph, rows, seed)[MaxDepth]
    BY <1>1, <2>1
  <2>. HIDE DEF near
  <2>3. \A n \in DOMAIN found : n \in candidates /\ n \in near
    BY <1>4, <1>5, <2>2
  <2>4. \A n \in candidates : n \in near => n \in DOMAIN found
    BY <1>4, <2>2
  <2>5. DOMAIN found = candidates \cap near
    BY <2>3, <2>4
  <2>. QED BY <1>4, <2>5 DEF near
<1>7. answer \in IF Cardinality(close) <= Limit THEN {close}
                 ELSE {S \in SUBSET close : Cardinality(S) = Limit}
  BY <1>6 DEF NearOK, Cut
<1>8. answer \subseteq close
  BY <1>7
<1>. QED BY <1>2, <1>4, <1>6, <1>7, <1>8

\* What context_for answers (reachable, from each match) is code within MaxDepth hops
\* of a match, each with its distance from one, and all of that unless it is more than
\* the limit, for graphs of any size, any depth and limit and whatever order matches
\* and neighbours come in, if no ingest commits meanwhile.
THEOREM AnswersAreNear == Spec => []AnswerIsNear
<1>1. Init => DiveInv /\ WalkOK /\ TypeOK /\ NearOK
  BY InitDive, InitTypes, InitNear DEF Init, WalkOK
<1>2. Spec => [](TypeOK /\ NearOK)
  BY <1>1, NextDive, NextWalk, NextTypes, NextNear, PTL DEF Spec
<1>. QED BY <1>2, NearIsAnswered, PTL

----------------------------------------------------------------------------
(* Knots.                                                                  *)

\* A cycle found runs through both.
Together(u, m) == \E c \in cycles : u \in Range(c) /\ m \in Range(c)

\* Apart from edges of cycles that were found, finished nodes lead to nodes that
\* were finished before them: f numbers them in that order.
Ranks(f, b) ==
    /\ f \in [finished -> 0 .. b]
    /\ \A u \in finished : \A m \in Successors(u) : Together(u, m) \/ (m \in finished /\ f[m] < f[u])
Ranked == \E b \in Nat : \E f \in [finished -> 0 .. b] : Ranks(f, b)

\* An edge that was followed is of a cycle that was found, or leads to a finished
\* node or to the next one of the path.
EdgesKnown ==
    \A i \in DOMAIN stack : \A m \in Successors(stack[i].node) \ stack[i].left :
        \/ Together(stack[i].node, m)
        \/ m \in finished
        \/ i + 1 \in DOMAIN stack /\ stack[i + 1].node = m

KnotInv ==
    /\ pc \notin Diving => finished = {}
    /\ pc \in {"root", "reported"} => stack = <<>>
    /\ pc = "reported" => \A n \in Nodes \ finished : Successors(n) = {}
    /\ \A i \in DOMAIN stack : stack[i].node \notin finished
    /\ EdgesKnown
    /\ Ranked

\* Reachable has the successors of its members, and nothing that has not to be there.
LEMMA ReachFacts ==
    ASSUME NEW n \in Nodes
    PROVE  /\ Successors(n) \subseteq Reachable(n) /\ Reachable(n) \subseteq Nodes
           /\ \A m \in Reachable(n) : Successors(m) \subseteq Reachable(n)
           /\ \A S : Successors(n) \subseteq S /\ (\A m \in S : Successors(m) \subseteq S)
                     => Reachable(n) \subseteq S
<1>. DEFINE N == Cardinality(Nodes)
            Grow(S) == S \cup UNION {Successors(m) : m \in S}
            IsReach(f, j) == f = [k \in 1 .. j |-> IF k = 1 THEN Successors(n) ELSE Grow(f[k - 1])]
            R == CHOOSE f : IsReach(f, N)
<1>0. N \in Nat \ {0} /\ IsFiniteSet(Nodes) /\ \A m : Successors(m) \subseteq Nodes
  BY SearchAssumption, FS_CardinalityType, FS_EmptySet DEF Successors
<1>. HIDE DEF N
<1>1. IsReach(R, N)
  <2>. DEFINE T == {j \in Nat \ {0} : ~ \E f : IsReach(f, j)}
  <2>1. T = {}
    <3>. SUFFICES ASSUME T # {} PROVE FALSE
      OBVIOUS
    <3>1. PICK j \in T : \A i \in T : j <= i
      <4>1. T \in SUBSET Nat
        OBVIOUS
      <4>. HIDE DEF T
      <4>. QED BY <4>1, LeastNat
    <3>. HIDE DEF Grow, R
    <3>2. j # 1
      <4>1. [k \in 1 .. 1 |-> Successors(n)] = [k \in 1 .. 1 |-> IF k = 1 THEN Successors(n)
                                            ELSE Grow([i \in 1 .. 1 |-> Successors(n)][k - 1])]
        OBVIOUS
      <4>2. \E f : IsReach(f, 1)
        BY <4>1
      <4>. QED BY <3>1, <4>2
    <3>3. j - 1 \in Nat \ {0} /\ j - 1 \notin T
      <4>1. j \in Nat \ {0}
        OBVIOUS
      <4>2. j - 1 \in Nat \ {0} /\ ~(j <= j - 1)
        BY ONLY <3>2, <4>1
      <4>. HIDE DEF T
      <4>. QED BY <3>1, <4>2
    <3>4. PICK f : IsReach(f, j - 1)
      BY <3>3
    <3>. DEFINE h == [k \in 1 .. j |-> IF k = j THEN Grow(f[k - 1]) ELSE f[k]]
    <3>5. \A k \in 1 .. j : h[k] = IF k = 1 THEN Successors(n) ELSE Grow(h[k - 1])
      <4>1. \A k \in 1 .. j - 1 : f[k] = IF k = 1 THEN Successors(n) ELSE Grow(f[k - 1])
        BY <3>3, <3>4
      <4>. TAKE k \in 1 .. j
      <4>2. CASE k = j
        BY <3>2, <3>3, <4>2
      <4>3. CASE k # j
        <5>1. k \in 1 .. j - 1 /\ h[k] = f[k] /\ (k # 1 => h[k - 1] = f[k - 1])
          BY <3>3, <4>3
        <5>. HIDE DEF h
        <5>. QED BY <4>1, <5>1
      <4>. QED BY <4>2, <4>3
    <3>6. h = [k \in 1 .. j |-> h[k]]
      OBVIOUS
    <3>. HIDE DEF h
    <3>7. IsReach(h, j)
      BY <3>5, <3>6
    <3>. QED BY <3>1, <3>7
  <2>2. \E f : IsReach(f, N)
    BY <1>0, <2>1
  <2>. HIDE DEF IsReach
  <2>. QED BY <2>2
<1>2. Reachable(n) = R[N]
  BY DEF Reachable, N
<1>. HIDE DEF R
<1>3. /\ R[1] = Successors(n)
      /\ \A k \in 2 .. N : R[k] = Grow(R[k - 1])
  <2>. HIDE DEF Grow
  <2>1. \A k \in 1 .. N : R[k] = IF k = 1 THEN Successors(n) ELSE Grow(R[k - 1])
    BY <1>1
  <2>. QED BY <1>0, <2>1
<1>4. ASSUME NEW S, Successors(n) \subseteq S, \A m \in S : Successors(m) \subseteq S
      PROVE  \A k \in 1 .. N : R[k] \subseteq S
  <2>. DEFINE T == {k \in 1 .. N : ~(R[k] \subseteq S)}
  <2>. SUFFICES ASSUME T # {} PROVE FALSE
    OBVIOUS
  <2>1. PICK k \in T : \A i \in T : k <= i
    <3>1. T \in SUBSET Nat
      OBVIOUS
    <3>. HIDE DEF T
    <3>. QED BY <3>1, LeastNat
  <2>2. k # 1
    BY <1>3, <1>4, <2>1
  <2>3. k - 1 \in 1 .. N /\ k \in 2 .. N /\ k - 1 \notin T
    <3>1. k \in 1 .. N /\ N \in Nat
      BY <1>0
    <3>2. k - 1 \in 1 .. N /\ k \in 2 .. N /\ ~(k <= k - 1)
      BY ONLY <2>2, <3>1
    <3>. HIDE DEF T
    <3>. QED BY <2>1, <3>2
  <2>4. R[k - 1] \subseteq S
    BY <2>3
  <2>. QED BY <1>3, <1>4, <2>1, <2>3, <2>4
<1>5. \A k \in 1 .. N : R[k] \subseteq Nodes
  BY <1>0, <1>4
<1>6. \A k \in 1 .. N : Successors(n) \subseteq R[k]
  <2>. DEFINE T == {k \in 1 .. N : ~(Successors(n) \subseteq R[k])}
  <2>. SUFFICES ASSUME T # {} PROVE FALSE
    OBVIOUS
  <2>1. PICK k \in T : \A i \in T : k <= i
    <3>1. T \in SUBSET Nat
      OBVIOUS
    <3>. HIDE DEF T
    <3>. QED BY <3>1, LeastNat
  <2>2. k # 1
    BY <1>3, <2>1
  <2>3. k - 1 \in 1 .. N /\ k \in 2 .. N /\ k - 1 \notin T
    <3>1. k \in 1 .. N /\ N \in Nat
      BY <1>0
    <3>2. k - 1 \in 1 .. N /\ k \in 2 .. N /\ ~(k <= k - 1)
      BY ONLY <2>2, <3>1
    <3>. HIDE DEF T
    <3>. QED BY <2>1, <3>2
  <2>. QED BY <1>3, <2>1, <2>3
<1>7. \A m \in R[N] : Successors(m) \subseteq R[N]
  <2>. DEFINE Closes(S) == \A m \in S : Successors(m) \subseteq S
              T == {k \in 1 .. N : ~(Closes(R[k]) \/ Cardinality(R[k]) >= k)}
  <2>1. \A k \in 1 .. N : IsFiniteSet(R[k]) /\ Cardinality(R[k]) \in Nat /\ Cardinality(R[k]) <= N
    BY <1>0, <1>5, FS_Subset, FS_CardinalityType DEF N
  <2>2. T = {}
    <3>. SUFFICES ASSUME T # {} PROVE FALSE
      OBVIOUS
    <3>1. PICK k \in T : \A i \in T : k <= i
      <4>1. T \in SUBSET Nat
        OBVIOUS
      <4>. HIDE DEF T
      <4>. QED BY <4>1, LeastNat
    <3>2. k # 1
      <4>1. R[1] # {} => Cardinality(R[1]) >= 1
        <5>1. 1 \in 1 .. N
          BY <1>0
        <5>. QED BY <2>1, <5>1, FS_EmptySet
      <4>2. R[1] = {} => Closes(R[1])
        OBVIOUS
      <4>. QED BY <3>1, <4>1, <4>2
    <3>3. k - 1 \in 1 .. N /\ k \in 2 .. N /\ k - 1 \notin T /\ k \in 1 .. N
      <4>1. k \in 1 .. N /\ N \in Nat
        BY <1>0
      <4>2. k - 1 \in 1 .. N /\ k \in 2 .. N /\ ~(k <= k - 1)
        BY ONLY <3>2, <4>1
      <4>. HIDE DEF T
      <4>. QED BY <3>1, <4>1, <4>2
    <3>4. R[k] = Grow(R[k - 1])
      BY <1>3, <3>3
    <3>5. CASE Closes(R[k - 1])
      <4>1. R[k] = R[k - 1]
        BY <3>4, <3>5
      <4>. QED BY <3>1, <3>5, <4>1
    <3>6. CASE ~Closes(R[k - 1])
      <4>1. Cardinality(R[k - 1]) >= k - 1
        BY <3>3, <3>6
      <4>2. R[k - 1] \subseteq R[k] /\ R[k - 1] # R[k]
        BY <3>4, <3>6
      <4>3. Cardinality(R[k - 1]) <= Cardinality(R[k]) /\ Cardinality(R[k]) # Cardinality(R[k - 1])
        BY <2>1, <3>3, <4>2, FS_Subset
      <4>4. /\ Cardinality(R[k]) \in Nat /\ Cardinality(R[k - 1]) \in Nat /\ k \in 1 .. N
            /\ ~(Cardinality(R[k]) >= k)
        BY <2>1, <3>1, <3>3
      <4>. QED BY ONLY <1>0, <4>1, <4>3, <4>4
    <3>. QED BY <3>5, <3>6
  <2>3. N \in 1 .. N /\ N \notin T
    BY <1>0, <2>2
  <2>4. CASE Closes(R[N])
    BY <2>4
  <2>5. CASE Cardinality(R[N]) >= N
    <3>1. Cardinality(R[N]) = N
      BY <1>0, <2>1, <2>3, <2>5
    <3>2. R[N] = Nodes
      BY <1>0, <1>5, <2>3, <3>1, FS_Subset DEF N
    <3>. QED BY <1>0, <3>2
  <2>. HIDE DEF Closes
  <2>. QED BY <2>3, <2>4, <2>5
<1>8. N \in 1 .. N
  BY <1>0
<1>. HIDE DEF Grow
<1>. QED BY <1>2, <1>4, <1>5, <1>6, <1>7, <1>8

\* What is reachable from what is reachable is reachable.
LEMMA ReachOn ==
    ASSUME NEW n \in Nodes, NEW m \in Reachable(n)
    PROVE  m \in Nodes /\ Reachable(m) \subseteq Reachable(n)
<1>1. m \in Nodes /\ Successors(m) \subseteq Reachable(n)
  BY ReachFacts
<1>. QED BY <1>1, ReachFacts

\* A rotation runs through the same nodes.
LEMMA RotationRange ==
    ASSUME NEW c \in Seq(Nodes), NEW k \in DOMAIN c
    PROVE  Range(Rotated(c, k)) = Range(c) /\ Rotated(c, k)[1] = c[k] /\ 1 \in DOMAIN Rotated(c, k)
<1>. DEFINE n == Len(c)
            a == SubSeq(c, k, n)
            b == SubSeq(c, 1, k - 1)
            r == a \o b
<1>1. n \in Nat /\ DOMAIN c = 1 .. n /\ k \in 1 .. n
  OBVIOUS
<1>2. a \in Seq(Nodes) /\ Len(a) = n - k + 1 /\ \A i \in 1 .. (n - k + 1) : a[i] = c[i + k - 1]
  BY <1>1
<1>3. b \in Seq(Nodes) /\ Len(b) = k - 1 /\ \A i \in 1 .. (k - 1) : b[i] = c[i]
  BY <1>1
<1>4. DOMAIN r = 1 .. n /\ \A i \in 1 .. n : r[i] = IF i <= n - k + 1 THEN a[i] ELSE b[i - (n - k + 1)]
  BY <1>1, <1>2, <1>3
<1>. HIDE DEF a, b, r, n
<1>5. ASSUME NEW i \in 1 .. n PROVE \E j \in 1 .. n : r[i] = c[j]
  <2>1. CASE i <= n - k + 1
    <3>1. i \in 1 .. (n - k + 1) /\ i + k - 1 \in 1 .. n
      BY <1>1, <2>1
    <3>. QED BY <1>2, <1>4, <2>1, <3>1
  <2>2. CASE ~(i <= n - k + 1)
    <3>1. i - (n - k + 1) \in 1 .. (k - 1) /\ i - (n - k + 1) \in 1 .. n
      BY <1>1, <2>2
    <3>. QED BY <1>3, <1>4, <2>2, <3>1
  <2>. QED BY <2>1, <2>2
<1>6. ASSUME NEW j \in 1 .. n PROVE \E i \in 1 .. n : r[i] = c[j]
  <2>1. CASE j >= k
    <3>1. j - k + 1 \in 1 .. (n - k + 1) /\ j - k + 1 \in 1 .. n /\ j - k + 1 <= n - k + 1
          /\ (j - k + 1) + k - 1 = j
      BY <1>1, <2>1
    <3>. QED BY <1>2, <1>4, <3>1
  <2>2. CASE ~(j >= k)
    <3>1. /\ j \in 1 .. (k - 1) /\ j + (n - k + 1) \in 1 .. n /\ ~(j + (n - k + 1) <= n - k + 1)
          /\ (j + (n - k + 1)) - (n - k + 1) = j
      BY <1>1, <2>2
    <3>. QED BY <1>3, <1>4, <3>1
  <2>. QED BY <2>1, <2>2
<1>7. r[1] = c[k] /\ 1 \in 1 .. n
  <2>1. 1 \in 1 .. n /\ 1 <= n - k + 1 /\ 1 \in 1 .. (n - k + 1) /\ 1 + k - 1 = k
    BY <1>1
  <2>. QED BY <1>2, <1>4, <2>1
<1>8. Range(r) = Range(c)
  <2>1. \A i \in DOMAIN r : \E j \in DOMAIN c : c[j] = r[i]
    BY <1>1, <1>4, <1>5
  <2>2. \A j \in DOMAIN c : \E i \in DOMAIN r : r[i] = c[j]
    BY <1>1, <1>4, <1>6
  <2>3. Range(r) \subseteq Range(c)
    BY <2>1 DEF Range
  <2>4. Range(c) \subseteq Range(r)
    BY <2>2 DEF Range
  <2>. QED BY <2>3, <2>4
<1>9. Rotated(c, k) = r
  BY DEF Rotated, r, a, b, n
<1>. QED BY <1>4, <1>7, <1>8, <1>9

\* From a node of a cycle all of them can be reached.
LEMMA CycleIsMutual ==
    ASSUME NEW c, Closed(c), NEW u \in Range(c)
    PROVE  u \in Nodes /\ Range(c) \subseteq Reachable(u)
<1>1. c \in Seq(Nodes) /\ \E k \in DOMAIN c : c[k] = u
  BY DEF Closed, Range
<1>. PICK k \in DOMAIN c : c[k] = u
  BY <1>1
<1>. DEFINE r == Rotated(c, k)
<1>2. Closed(r)
  BY RotationIsClosed DEF Rotated
<1>3. Range(r) = Range(c) /\ r[1] = u
  BY <1>1, RotationRange
<1>. HIDE DEF r
<1>4. Len(r) \in Nat /\ DOMAIN r = 1 .. Len(r) /\ Len(r) > 0 /\ \A i \in 1 .. Len(r) : r[i] \in Nodes
  BY <1>2 DEF Closed
<1>5. u \in Nodes
  BY <1>3, <1>4
<1>6. \A i, j \in 1 .. Len(r) : <<r[i], r[j]>> \in graph => r[j] \in Successors(r[i])
  BY <1>4 DEF Successors
<1>7. \A i \in 2 .. Len(r) : r[i] \in Reachable(u)
  <2>. DEFINE T == {i \in 2 .. Len(r) : r[i] \notin Reachable(u)}
  <2>. SUFFICES ASSUME T # {} PROVE FALSE
    OBVIOUS
  <2>1. PICK i \in T : \A j \in T : i <= j
    <3>1. T \in SUBSET Nat
      BY <1>4
    <3>. HIDE DEF T
    <3>. QED BY <3>1, LeastNat
  <2>2. i \in 2 .. Len(r) /\ r[i] \notin Reachable(u)
    BY <2>1
  <2>3. i \in 1 .. Len(r) /\ i - 1 \in 1 .. Len(r) /\ i > 1 /\ ~(i <= i - 1)
        /\ (i - 1 = 1 \/ i - 1 \in 2 .. Len(r))
    BY <1>4, <2>2
  <2>4. r[i] \in Successors(r[i - 1])
    BY <1>2, <1>4, <1>6, <2>3 DEF Closed
  <2>5. CASE i - 1 = 1
    BY <1>3, <1>5, <2>2, <2>4, <2>5, ReachFacts
  <2>6. CASE i - 1 \in 2 .. Len(r)
    <3>1. r[i - 1] \in Reachable(u)
      BY <2>1, <2>3, <2>6
    <3>. QED BY <1>5, <2>2, <2>4, <3>1, ReachFacts
  <2>. QED BY <2>3, <2>5, <2>6
<1>8. r[1] \in Reachable(u)
  <2>1. 1 \in 1 .. Len(r) /\ Len(r) \in 1 .. Len(r) /\ (Len(r) = 1 \/ Len(r) \in 2 .. Len(r))
    BY <1>4
  <2>2. r[1] \in Successors(r[Len(r)])
    BY <1>2, <1>6, <2>1 DEF Closed
  <2>3. CASE Len(r) = 1
    BY <1>3, <1>5, <2>2, <2>3, ReachFacts
  <2>4. CASE Len(r) \in 2 .. Len(r)
    BY <1>5, <1>7, <2>2, <2>4, ReachFacts
  <2>. QED BY <2>1, <2>3, <2>4
<1>9. \A i \in 1 .. Len(r) : i = 1 \/ i \in 2 .. Len(r)
  BY <1>4
<1>10. Range(r) \subseteq Reachable(u)
  BY <1>4, <1>7, <1>8, <1>9 DEF Range
<1>. QED BY <1>3, <1>5, <1>10

\* A cycle in the sense of the reference is a closed path.
LEMMA CycleIsClosed == ASSUME NEW c \in Seq(Nodes), IsCycle(c) PROVE Closed(c)
<1>1. Len(c) \in Nat /\ DOMAIN c = 1 .. Len(c) /\ Len(c) > 0
  BY DEF IsCycle
<1>2. \A i \in DOMAIN c : <<c[i], c[IF i = Len(c) THEN 1 ELSE i + 1]>> \in graph
  BY DEF IsCycle, EdgesOf
<1>3. ASSUME NEW i \in DOMAIN c, i > 1 PROVE <<c[i - 1], c[i]>> \in graph
  <2>1. i - 1 \in DOMAIN c /\ i - 1 # Len(c) /\ (i - 1) + 1 = i
    BY <1>1, <1>3
  <2>. QED BY <1>2, <2>1
<1>4. <<c[Len(c)], c[1]>> \in graph
  <2>1. Len(c) \in DOMAIN c
    BY <1>1
  <2>. QED BY <1>2, <2>1
<1>. QED BY <1>1, <1>3, <1>4 DEF Closed, IsCycle, IsInjective

\* If all that has edges is finished, a knot has a node finished before all nodes of
\* the knot, and what leads it on is a cycle that was found.
LEMMA KnotHasCycle ==
    ASSUME CyclesOK, KnotInv, pc = "reported", NEW n \in Nodes, Knot(n) # {}
    PROVE  \E c \in cycles : Range(c) \subseteq Knot(n)
<1>. DEFINE K == Knot(n)
<1>1. \A m : m \in K <=> m \in Reachable(n) /\ n \in Reachable(m)
  BY DEF Knot
<1>. HIDE DEF K
<1>2. n \in K
  <2>1. PICK m : m \in Reachable(n) /\ n \in Reachable(m)
    BY <1>1 DEF K
  <2>2. n \in Reachable(n)
    BY <2>1, ReachOn
  <2>. QED BY <1>1, <2>2
<1>3. \A u \in K : u \in Nodes
  BY <1>1, ReachOn
<1>4. ASSUME NEW u \in K PROVE \E m \in Successors(u) : m \in K
  <2>. DEFINE S == Successors(u) \cup UNION {Reachable(m) : m \in Successors(u)}
  <2>1. u \in Nodes /\ Successors(u) \subseteq Nodes /\ u \in Reachable(n) /\ n \in Reachable(u)
    BY <1>1, <1>3, <1>4 DEF Successors
  <2>2. \A x \in S : Successors(x) \subseteq S
    <3>. TAKE x \in S
    <3>1. CASE x \in Successors(u)
      BY <2>1, <3>1, ReachFacts
    <3>2. CASE x \notin Successors(u)
      <4>1. PICK m \in Successors(u) : x \in Reachable(m)
        BY <3>2
      <4>2. Successors(x) \subseteq Reachable(m)
        BY <2>1, <4>1, ReachFacts
      <4>. QED BY <4>2
    <3>. QED BY <3>1, <3>2
  <2>3. Successors(u) \subseteq S
    OBVIOUS
  <2>. HIDE DEF S
  <2>4. Reachable(u) \subseteq S
    BY <2>1, <2>2, <2>3, ReachFacts
  <2>5. PICK m \in Successors(u) : n = m \/ n \in Reachable(m)
    BY <2>1, <2>4 DEF S
  <2>6. m \in Reachable(n)
    BY <2>1, ReachFacts
  <2>. QED BY <1>1, <1>2, <2>5, <2>6
<1>5. K \subseteq finished
  <2>1. \A u \in Nodes \ finished : Successors(u) = {}
    BY DEF KnotInv
  <2>. QED BY <1>3, <1>4, <2>1
<1>6. PICK b \in Nat : \E f \in [finished -> 0 .. b] : Ranks(f, b)
  BY DEF KnotInv, Ranked
<1>7. PICK f \in [finished -> 0 .. b] : Ranks(f, b)
  BY <1>6
<1>8. PICK u \in K : \A m \in K : f[u] <= f[m]
  <2>. DEFINE T == {f[m] : m \in K}
  <2>1. T \in SUBSET Nat /\ T # {}
    BY <1>2, <1>5
  <2>2. PICK x \in T : \A y \in T : x <= y
    <3>. HIDE DEF T
    <3>. QED BY <2>1, LeastNat
  <2>. QED BY <2>2
<1>9. PICK m \in Successors(u) : m \in K
  BY <1>4
<1>10. Together(u, m)
  <2>1. Together(u, m) \/ (m \in finished /\ f[m] < f[u])
    BY <1>5, <1>7, <1>8, <1>9 DEF Ranks
  <2>2. f[u] <= f[m] /\ f[u] \in Nat /\ f[m] \in Nat
    BY <1>5, <1>8, <1>9
  <2>. QED BY <2>1, <2>2
<1>11. PICK c \in cycles : u \in Range(c)
  BY <1>10 DEF Together
<1>12. Closed(c)
  BY CycleIsClosed DEF CyclesOK, CyclesAreReal
<1>13. ASSUME NEW x \in Range(c) PROVE x \in K
  <2>1. x \in Nodes /\ u \in Nodes /\ u \in Reachable(x) /\ x \in Reachable(u)
    BY <1>11, <1>12, <1>13, CycleIsMutual
  <2>2. u \in Reachable(n) /\ n \in Reachable(u)
    BY <1>1
  <2>. QED BY <1>1, <2>1, <2>2, ReachOn
<1>. QED BY <1>13 DEF K

\* Nothing is finished at first.
LEMMA InitKnots == Init => KnotInv
<1>. SUFFICES ASSUME Init PROVE KnotInv
  OBVIOUS
<1>1. finished = {} /\ stack = <<>> /\ pc # "reported"
  BY DEF Init
<1>2. Ranked
  <2>. DEFINE f == [u \in finished |-> 0]
  <2>1. 0 \in Nat /\ f \in [finished -> 0 .. 0] /\ Ranks(f, 0)
    BY <1>1 DEF Ranks
  <2>. HIDE DEF f
  <2>. QED BY <2>1 DEF Ranked
<1>. QED BY <1>1, <1>2 DEF KnotInv, EdgesKnown

\* Finding more cycles does not undo the order.
LEMMA RankedStays ==
    ASSUME Ranked, UNCHANGED <<graph, finished>>, cycles \subseteq cycles'
    PROVE  Ranked'
<1>1. PICK b \in Nat : \E f \in [finished -> 0 .. b] : Ranks(f, b)
  BY DEF Ranked
<1>2. PICK f \in [finished -> 0 .. b] : Ranks(f, b)
  BY <1>1
<1>3. \A u : Successors(u)' = Successors(u)
  BY DEF Successors
<1>4. \A u, m : Together(u, m) => Together(u, m)'
  BY DEF Together
<1>5. f \in [finished' -> 0 .. b] /\ Ranks(f, b)'
  BY <1>2, <1>3, <1>4 DEF Ranks
<1>. QED BY <1>5 DEF Ranked

\* Of the node on top, all edges of which were followed, the order may take.
LEMMA PopKnots ==
    ASSUME PathOK, KnotInv, Pop
    PROVE  KnotInv'
<1>. DEFINE n == Len(stack)
<1>. PICK top : top = Top.node
  OBVIOUS
<1>1. /\ stack # <<>> /\ Top.left = {} /\ finished' = finished \cup {top}
      /\ stack' = SubSeq(stack, 1, n - 1) /\ UNCHANGED <<graph, cycles>>
      /\ pc = "dive" /\ pc' = IF n = 1 THEN "root" ELSE "dive"
  BY DEF Pop, Front, store
<1>2. /\ n \in Nat /\ n > 0 /\ DOMAIN stack = 1 .. n /\ stack[n].node = top /\ stack[n].left = {}
      /\ DOMAIN stack' = 1 .. (n - 1) /\ \A i \in 1 .. (n - 1) : stack'[i] = stack[i]
  <2>1. stack \in Seq(Frames) /\ Len(stack) \in Nat \ {0} /\ DOMAIN stack = 1 .. Len(stack)
    BY <1>1 DEF PathOK
  <2>2. stack[n] = Top
    BY DEF Top
  <2>. QED BY <1>1, <2>1, <2>2
<1>3. top \notin finished
  BY <1>2 DEF KnotInv
<1>4. \A m \in Successors(top) : Together(top, m) \/ m \in finished
  <2>1. n \in DOMAIN stack /\ n + 1 \notin DOMAIN stack
    BY <1>2
  <2>2. \A m \in Successors(stack[n].node) \ stack[n].left :
            Together(stack[n].node, m) \/ m \in finished
    BY <2>1 DEF KnotInv, EdgesKnown
  <2>. QED BY <1>2, <2>2
<1>5. \A u : Successors(u)' = Successors(u)
  BY <1>1 DEF Successors
<1>6. \A u, m : Together(u, m)' <=> Together(u, m)
  BY <1>1 DEF Together
<1>7. Ranked'
  <2>1. PICK b \in Nat : \E f \in [finished -> 0 .. b] : Ranks(f, b)
    BY DEF KnotInv, Ranked
  <2>2. PICK f \in [finished -> 0 .. b] : Ranks(f, b)
    BY <2>1
  <2>. PICK h : h = [u \in finished' |-> IF u = top THEN b + 1 ELSE f[u]]
    OBVIOUS
  <2>3. \A u \in finished : f[u] \in 0 .. b
    BY <2>2
  <2>4. h \in [finished' -> 0 .. b + 1] /\ b + 1 \in Nat
    BY <1>1, <1>3, <2>1, <2>3
  <2>5. /\ h[top] = b + 1 /\ top \in finished'
        /\ \A u \in finished : u \in finished' /\ h[u] = f[u] /\ u # top
    BY <1>1, <1>3
  <2>6. ASSUME NEW u \in finished', NEW m \in Successors(u)
        PROVE  Together(u, m) \/ (m \in finished' /\ h[m] < h[u])
    <3>1. CASE u = top
      <4>1. Together(u, m) \/ (m \in finished /\ h[m] = f[m] /\ f[m] \in 0 .. b)
        BY <1>4, <2>3, <2>5, <2>6, <3>1
      <4>. QED BY <2>1, <2>5, <3>1, <4>1
    <3>2. CASE u # top
      <4>1. u \in finished
        BY <1>1, <2>6, <3>2
      <4>2. Together(u, m) \/ (m \in finished /\ f[m] < f[u])
        BY <2>2, <2>6, <4>1 DEF Ranks
      <4>. QED BY <2>5, <4>1, <4>2
    <3>. QED BY <3>1, <3>2
  <2>. PICK c : c = b + 1
    OBVIOUS
  <2>7. \A u \in finished' : \A m \in Successors(u)' : Together(u, m)' \/ (m \in finished' /\ h[m] < h[u])
    BY <1>5, <1>6, <2>6
  <2>8. Ranks(h, c)'
    BY <2>4, <2>7 DEF Ranks
  <2>9. c \in Nat /\ h \in [finished' -> 0 .. c]
    BY <2>4
  <2>. QED BY <2>8, <2>9 DEF Ranked
<1>8. \A i \in DOMAIN stack' : stack'[i].node \notin finished'
  <2>0. \A i \in 1 .. (n - 1) : i \in DOMAIN stack /\ i # n
    <3>1. n \in Nat /\ DOMAIN stack = 1 .. n
      BY <1>2
    <3>. HIDE DEF n
    <3>. QED BY <3>1
  <2>1. \A i \in 1 .. (n - 1) : stack[i].node \notin finished
    BY <2>0 DEF KnotInv
  <2>2. \A i \in 1 .. (n - 1) : stack[i].node # top
    <3>1. n \in DOMAIN stack /\ stack[n].node = top
      BY <1>2
    <3>2. \A i, j \in DOMAIN stack : stack[i].node = stack[j].node => i = j
      BY DEF PathOK
    <3>. HIDE DEF n
    <3>. QED BY <2>0, <3>1, <3>2
  <2>. QED BY <1>1, <1>2, <2>1, <2>2
<1>9. ASSUME NEW i \in DOMAIN stack', NEW m \in Successors(stack'[i].node) \ stack'[i].left
      PROVE  \/ Together(stack'[i].node, m)
             \/ m \in finished'
             \/ i + 1 \in DOMAIN stack' /\ stack'[i + 1].node = m
  <2>1. i \in 1 .. (n - 1) /\ i \in DOMAIN stack /\ stack'[i] = stack[i]
    BY <1>2
  <2>2. \/ Together(stack[i].node, m) \/ m \in finished
        \/ i + 1 \in DOMAIN stack /\ stack[i + 1].node = m
    BY <1>9, <2>1 DEF KnotInv, EdgesKnown
  <2>3. CASE i + 1 = n
    BY <1>1, <1>2, <2>1, <2>2, <2>3
  <2>4. CASE i + 1 # n
    <3>1. i + 1 \in DOMAIN stack => i + 1 \in 1 .. (n - 1)
      BY <1>2, <2>1, <2>4
    <3>. QED BY <1>1, <1>2, <2>1, <2>2, <3>1
  <2>. QED BY <2>3, <2>4
<1>10. pc' = "root" => stack' = <<>>
  <2>. SUFFICES ASSUME pc' = "root" PROVE stack' = <<>>
    OBVIOUS
  <2>1. n = 1
    BY <1>1
  <2>2. stack \in Seq(Frames)
    BY DEF PathOK
  <2>. QED BY <1>1, <2>1, <2>2
<1>11. pc' \in {"root", "dive"} /\ pc' \in Diving /\ pc' # "reported"
  BY <1>1 DEF Diving
<1>12. EdgesKnown'
  BY <1>1, <1>9 DEF EdgesKnown, Successors, Together
<1>. QED BY <1>7, <1>8, <1>10, <1>11, <1>12 DEF KnotInv

\* An edge that is followed closes a cycle, leads to what is finished, or is the
\* path's next.
LEMMA FollowKnots ==
    ASSUME PathOK, KnotInv, NEW next \in Nodes, Close(next) \/ Enter(next) \/ Pass(next)
    PROVE  KnotInv'
<1>. DEFINE n == Len(stack)
<1>1. /\ stack # <<>> /\ next \in Top.left /\ UNCHANGED <<graph, finished>>
  BY DEF Close, Enter, Pass, store
<1>2. pc = "dive" /\ pc' = "dive" /\ cycles \subseteq cycles'
  <2>1. pc = "dive" /\ pc' = "dive"
    BY DEF Close, Enter, Pass
  <2>2. cycles \subseteq cycles'
    BY DEF Close, Enter, Pass, Found
  <2>. QED BY <2>1, <2>2
<1>3. /\ n \in Nat /\ n > 0 /\ DOMAIN stack = 1 .. n /\ stack[n] = Top /\ n \in DOMAIN stack
      /\ n + 1 \notin DOMAIN stack
  BY <1>1 DEF PathOK, Top
<1>4. /\ Take(next) \in Seq(Frames) /\ Len(Take(next)) = n /\ DOMAIN Take(next) = DOMAIN stack
      /\ \A i \in DOMAIN stack : Take(next)[i].node = stack[i].node
      /\ \A i \in DOMAIN stack : i # n => Take(next)[i] = stack[i]
      /\ Take(next)[n].left = Top.left \ {next}
  <2>1. stack[n] \in Frames
    BY <1>3 DEF PathOK
  <2>2. Take(next)[n] = [stack[n] EXCEPT !.left = @ \ {next}]
    BY <1>3 DEF Take
  <2>3. Take(next)[n].left = Top.left \ {next}
    BY <1>3, <2>1, <2>2 DEF Frames
  <2>4. \A i \in DOMAIN stack : i # n => Take(next)[i] = stack[i]
    BY DEF Take
  <2>. QED BY <1>1, <2>3, <2>4, TakeKeepsPath
<1>5. \A u : Successors(u)' = Successors(u)
  BY <1>1 DEF Successors
<1>6. \A u, m : Together(u, m) => Together(u, m)'
  BY <1>2 DEF Together
<1>7. Ranked'
  BY <1>1, <1>2, RankedStays DEF KnotInv
<1>8. ASSUME NEW i \in DOMAIN stack, NEW m \in Successors(stack[i].node) \ Take(next)[i].left
      PROVE  \/ i = n /\ m = next
             \/ Together(stack[i].node, m)
             \/ m \in finished
             \/ i + 1 \in DOMAIN stack /\ stack[i + 1].node = m
  <2>1. (i = n /\ m = next) \/ m \notin stack[i].left
    BY <1>3, <1>4, <1>8
  <2>. QED BY <1>8, <2>1 DEF KnotInv, EdgesKnown
<1>9. CASE Enter(next)
  <2>1. stack' = Append(Take(next), Frame(next)) /\ next \notin finished
    BY <1>9 DEF Enter
  <2>2. Frame(next).node = next /\ Frame(next).left = Successors(next) /\ Frame(next) \in Frames
    BY DEF Frame, Frames, Successors
  <2>3. /\ DOMAIN stack' = 1 .. (n + 1) /\ stack'[n + 1] = Frame(next)
        /\ \A i \in 1 .. n : stack'[i] = Take(next)[i]
    BY <1>3, <1>4, <2>1, <2>2
  <2>4. ASSUME NEW i \in DOMAIN stack', NEW m \in Successors(stack'[i].node) \ stack'[i].left
        PROVE  \/ Together(stack'[i].node, m)
               \/ m \in finished
               \/ i + 1 \in DOMAIN stack' /\ stack'[i + 1].node = m
    <3>1. CASE i = n + 1
      BY <2>2, <2>3, <2>4, <3>1
    <3>2. CASE i # n + 1
      <4>1. i \in DOMAIN stack /\ i + 1 \in DOMAIN stack' /\ stack'[i] = Take(next)[i]
            /\ stack'[i].node = stack[i].node
        BY <1>3, <1>4, <2>3, <3>2
      <4>2. \/ i = n /\ m = next
            \/ Together(stack[i].node, m) \/ m \in finished
            \/ i + 1 \in DOMAIN stack /\ stack[i + 1].node = m
        BY <1>8, <2>4, <4>1
      <4>3. i + 1 \in DOMAIN stack => stack'[i + 1].node = stack[i + 1].node
        BY <1>3, <1>4, <2>3
      <4>. QED BY <2>2, <2>3, <4>1, <4>2, <4>3
    <3>. QED BY <3>1, <3>2
  <2>5. \A i \in DOMAIN stack' : stack'[i].node \notin finished
    <3>1. \A i \in 1 .. n : stack'[i].node \notin finished
      BY <1>3, <1>4, <2>3 DEF KnotInv
    <3>2. stack'[n + 1].node \notin finished
      BY <2>1, <2>2, <2>3
    <3>3. \A i \in 1 .. (n + 1) : i = n + 1 \/ i \in 1 .. n
      BY <1>3
    <3>. QED BY <2>3, <3>1, <3>2, <3>3
  <2>6. EdgesKnown'
    BY <1>1, <1>2, <2>4 DEF EdgesKnown, Successors, Together
  <2>7. pc' \in Diving /\ pc' \notin {"root", "reported"} /\ finished' = finished
    BY <1>1, <1>2 DEF Diving
  <2>. QED BY <1>7, <2>5, <2>6, <2>7 DEF KnotInv
<1>10. CASE Close(next) \/ Pass(next)
  <2>1. stack' = Take(next)
    BY <1>10 DEF Close, Pass
  <2>. PICK top : top = Top.node
    OBVIOUS
  <2>2. Together(top, next)' \/ next \in finished
    <3>1. CASE Pass(next)
      BY <3>1 DEF Pass
    <3>2. CASE Close(next)
      <4>1. PICK i \in DOMAIN stack : Path[i] = next /\ Found(SubSeq(Path, i, Len(stack)))
        BY <3>2 DEF Close
      <4>. DEFINE body == SubSeq(Path, i, n)
      <4>2. body \in Seq(Nodes)
        <5>1. Closed(body)
          BY <1>1, <4>1, SuffixIsClosed
        <5>. HIDE DEF body
        <5>. QED BY <5>1 DEF Closed
      <4>3. Path \in Seq(Nodes) /\ Len(Path) = n /\ Path[n] = Top.node
        <5>1. \A j \in 1 .. n : stack[j].node \in Nodes
          <6>1. \A j \in 1 .. n : stack[j] \in Frames
            BY <1>3 DEF PathOK
          <6>. QED BY <6>1 DEF Frames
        <5>. QED BY <1>3, <5>1 DEF Path
      <4>4. /\ 1 \in DOMAIN body /\ body[1] = next
            /\ n - i + 1 \in DOMAIN body /\ body[n - i + 1] = Top.node
        <5>1. i \in 1 .. n /\ Path[i] = next
          BY <1>3, <4>1
        <5>2. Len(body) = n - i + 1 /\ \A j \in 1 .. (n - i + 1) : body[j] = Path[j + i - 1]
          BY <1>3, <4>3, <5>1
        <5>3. 1 \in 1 .. (n - i + 1) /\ n - i + 1 \in 1 .. (n - i + 1) /\ 1 + i - 1 = i
              /\ (n - i + 1) + i - 1 = n
          BY <1>3, <5>1
        <5>4. DOMAIN body = 1 .. (n - i + 1)
          BY <4>2, <5>2
        <5>. HIDE DEF body, n
        <5>. QED BY <4>3, <5>1, <5>2, <5>3, <5>4
      <4>5. next \in Range(body) /\ Top.node \in Range(body)
        <5>. HIDE DEF body
        <5>. QED BY <4>4 DEF Range
      <4>. HIDE DEF body
      <4>6. PICK pivot \in DOMAIN body : cycles' = cycles \cup {Rotated(body, pivot)}
        BY <4>1 DEF Found, body
      <4>7. Range(Rotated(body, pivot)) = Range(body)
        BY <4>2, RotationRange
      <4>8. PICK c : c = Rotated(body, pivot)
        OBVIOUS
      <4>9. c \in cycles' /\ next \in Range(c) /\ Top.node \in Range(c)
        BY <4>5, <4>6, <4>7, <4>8
      <4>. QED BY <1>3, <4>9 DEF Together
    <3>. QED BY <1>10, <3>1, <3>2
  <2>3. ASSUME NEW i \in DOMAIN stack', NEW m \in Successors(stack'[i].node) \ stack'[i].left
        PROVE  \/ \E c \in cycles' : stack'[i].node \in Range(c) /\ m \in Range(c)
               \/ m \in finished
               \/ i + 1 \in DOMAIN stack' /\ stack'[i + 1].node = m
    <3>1. i \in DOMAIN stack /\ stack'[i].node = stack[i].node /\ stack'[i].left = Take(next)[i].left
          /\ DOMAIN stack' = DOMAIN stack /\ (i + 1 \in DOMAIN stack => stack'[i + 1].node = stack[i + 1].node)
      BY <1>4, <2>1
    <3>2. \/ i = n /\ m = next
          \/ Together(stack[i].node, m) \/ m \in finished
          \/ i + 1 \in DOMAIN stack /\ stack[i + 1].node = m
      BY <1>8, <2>3, <3>1
    <3>. QED BY <1>2, <1>3, <2>2, <3>1, <3>2 DEF Together
  <2>4. \A i \in DOMAIN stack' : stack'[i].node \notin finished
    BY <1>4, <2>1 DEF KnotInv
  <2>5. EdgesKnown'
    BY <1>1, <2>3 DEF EdgesKnown, Successors, Together
  <2>6. pc' \in Diving /\ pc' \notin {"root", "reported"} /\ finished' = finished
    BY <1>1, <1>2 DEF Diving
  <2>. QED BY <1>7, <2>4, <2>5, <2>6 DEF KnotInv
<1>. QED BY <1>9, <1>10

\* Each step of the search keeps what is finished in order.
LEMMA NextKnots == ASSUME DiveInv, KnotInv, [Next]_vars PROVE KnotInv'
<1>1. PathOK /\ Ranked
  BY DEF DiveInv, KnotInv
<1>2. CASE UNCHANGED vars
  <2>1. UNCHANGED <<graph, finished, cycles, pc, stack>>
    BY <1>2 DEF vars
  <2>2. Ranked' /\ (EdgesKnown => EdgesKnown')
    BY <1>1, <2>1, RankedStays DEF EdgesKnown, Successors, Together
  <2>3. \A n : Successors(n)' = Successors(n)
    BY <2>1 DEF Successors
  <2>. QED BY <2>1, <2>2, <2>3 DEF KnotInv
<1>3. CASE Seed \/ Visit \/ Merge \/ Answer \/ Write
  <2>1. pc \notin Diving /\ pc' \notin Diving /\ UNCHANGED <<stack, finished, cycles>>
    BY <1>3 DEF Seed, Visit, Merge, Answer, Write, dive, Diving
  <2>2. stack' = <<>> /\ finished' = {}
    BY <2>1 DEF DiveInv, KnotInv
  <2>3. Ranked'
    <3>. DEFINE f == [u \in {} |-> 0]
    <3>1. 0 \in Nat /\ f \in [finished' -> 0 .. 0] /\ Ranks(f, 0)'
      BY <2>2 DEF Ranks
    <3>. QED BY <2>2, <3>1 DEF Ranked, Ranks
  <2>4. EdgesKnown'
    BY <2>2 DEF EdgesKnown
  <2>. QED BY <2>1, <2>2, <2>3, <2>4 DEF KnotInv, Diving
<1>4. CASE Root
  <2>1. PICK root \in Nodes \ finished : stack' = <<Frame(root)>>
    BY <1>4 DEF Root
  <2>2. UNCHANGED <<graph, finished, cycles>> /\ pc' = "dive"
    BY <1>4 DEF Root, store
  <2>3. stack'[1].node = root /\ stack'[1].left = Successors(root) /\ DOMAIN stack' = {1}
    BY <2>1 DEF Frame
  <2>4. Ranked'
    BY <1>1, <2>2, RankedStays
  <2>5. EdgesKnown'
    BY <2>2, <2>3 DEF EdgesKnown, Successors
  <2>. QED BY <2>1, <2>2, <2>3, <2>4, <2>5 DEF KnotInv, Diving
<1>5. CASE Pop
  BY <1>1, <1>5, PopKnots
<1>6. CASE Report
  <2>1. UNCHANGED <<graph, finished, cycles, stack>> /\ pc = "root" /\ pc' = "reported"
    BY <1>6 DEF Report, store, dive
  <2>2. \A n : Successors(n)' = Successors(n)
    BY <2>1 DEF Successors
  <2>3. \A n \in Nodes \ finished' : Successors(n)' = {}
    BY <1>6, <2>1, <2>2 DEF Report
  <2>4. stack' = <<>>
    BY <2>1 DEF KnotInv
  <2>5. Ranked' /\ EdgesKnown'
    BY <1>1, <2>1, <2>4, RankedStays DEF EdgesKnown
  <2>6. pc' \in Diving
    BY <2>1 DEF Diving
  <2>. QED BY <2>3, <2>4, <2>5, <2>6 DEF KnotInv
<1>7. ASSUME NEW next \in Nodes, Close(next) \/ Enter(next) \/ Pass(next) PROVE KnotInv'
  BY <1>1, <1>7, FollowKnots
<1>. QED BY <1>2, <1>3, <1>4, <1>5, <1>6, <1>7 DEF Next, Step

\* A circular dependency never goes unnoticed: whichever order nodes and edges come
\* in, what cycles() reports has a cycle of every knot, through no node of another.
\* Finished nodes lead to nodes finished before them, but for edges of a cycle that
\* was found; so the node of a knot that was finished first has such an edge.
THEOREM KnotsAreAlwaysReported == Spec => []KnotsAreReported
<1>1. DiveInv /\ KnotInv => KnotsAreReported
  BY KnotHasCycle DEF DiveInv, KnotsAreReported
<1>2. DiveInv /\ KnotInv /\ [Next]_vars => DiveInv' /\ KnotInv'
  BY NextDive, NextKnots
<1>. QED BY <1>1, <1>2, InitDive, InitKnots, PTL DEF Spec
=============================================================================
