----------------------------- MODULE GraphSearch -----------------------------
(***************************************************************************)
(* The searches of the code graph (graph/store.py, graph/query.py).        *)
(*                                                                         *)
(* context_for walks breadth-first from each node that matches a task      *)
(* (GraphStore.reachable) and collects what is near.  Every step of a walk *)
(* is a query of its own, so an ingest may commit between two of them.     *)
(*                                                                         *)
(* cycles reads the edges at once and searches them depth-first, with a    *)
(* stack of its own, for circular imports.                                 *)
(*                                                                         *)
(* The rows of a table come in any order.  Scores are left out: which of    *)
(* the nodes found have the highest is left open.                          *)
(***************************************************************************)
EXTENDS Integers, Sequences, FiniteSets, SequencesExt

CONSTANTS Nodes,      \* ids of nodes, ordered as their strings are
          Imports,    \* the graphs of imports to search for cycles, sets of edges
          Relations,  \* the graphs of calls and the like that context_for walks
          MaxOdd,     \* bound: nodes without a row, and nodes that are no code
          MaxDepth,   \* the depth context_for walks to
          Limit,      \* how much context_for answers with
          MaxSeeds,   \* bound: nodes that match a task
          MaxWrites   \* bound: commits of an ingest during a search

ASSUME SearchAssumption ==
    /\ Nodes \subseteq Int /\ IsFiniteSet(Nodes)
    /\ Imports \cup Relations \subseteq SUBSET (Nodes \X Nodes)
    /\ {MaxOdd, MaxDepth, Limit, MaxSeeds, MaxWrites} \subseteq Nat

VARIABLES graph,     \* the edges of the wanted kinds
          rows,      \* the nodes that have a row; an edge may outlive its node
          code,      \* the nodes of a kind worth surfacing (_SEED_KINDS)
          candidates,\* context_for: those that had a row when it began
          pc,        \* what the search does next
          todo,      \* context_for: matches to walk from, the best first
          depths,    \* reachable: [nodes reached -> depth]
          queue,     \* reachable: nodes reached and not visited
          found,     \* context_for: [nodes -> depth], what is near so far
          answer,    \* context_for: the nodes it returned
          writes,    \* how many commits there were since the search began
          stack,     \* cycles: the path searched, each node with its edges left
          finished,  \* cycles: nodes all of whose edges were followed
          cycles     \* cycles: what was found

vars == <<graph, rows, code, candidates, pc, todo, depths, queue, found, answer, writes, stack, finished, cycles>>
store == <<graph, rows, code, candidates>>
walk == <<todo, depths, queue, found, answer>>
dive == <<stack, finished, cycles>>
----------------------------------------------------------------------------
Nothing == [n \in {} |-> 0]

Successors(n) == {m \in Nodes : <<n, m>> \in graph}

\* neighbours, in both directions: nodes without a row are left out.
Neighbours(n) == {m \in rows : <<n, m>> \in graph \/ <<m, n>> \in graph}

\* Nodes that match a task, by rank: any of the candidates.
Matches == UNION {{s \in [1 .. k -> candidates] : IsInjective(s)} : k \in 0 .. MaxSeeds}

Most == {S \in SUBSET Nodes : Cardinality(Nodes \ S) <= MaxOdd}

Init ==
    /\ depths = Nothing /\ queue = <<>> /\ answer = {}
    /\ writes = 0
    /\ stack = <<>> /\ finished = {} /\ cycles = {}
    /\ \/ /\ pc = "seed"
          /\ graph \in Relations
          /\ rows \in Most /\ code \in Most
          /\ candidates = code \cap rows
          /\ todo \in Matches
          /\ found = [n \in Range(todo) |-> 0]
       \/ /\ pc = "root"
          /\ graph \in Imports
          /\ rows = Nodes /\ code = Nodes /\ candidates = Nodes
          /\ todo = <<>>
          /\ found = Nothing
----------------------------------------------------------------------------
(* context_for and reachable.                                              *)

Seed ==
    /\ pc = "seed" /\ todo # <<>>
    /\ depths' = [n \in {Head(todo)} |-> 0]
    /\ queue' = <<Head(todo)>>
    /\ pc' = "walk"
    /\ UNCHANGED <<store, todo, found, answer, writes, dive>>

\* Mutant: the depth is checked one hop too late.
DeepNew(n) == IF depths[n] > MaxDepth THEN {} ELSE Neighbours(n) \ DOMAIN depths

\* What visiting n reaches for the first time.
New(n) == IF depths[n] >= MaxDepth THEN {} ELSE Neighbours(n) \ DOMAIN depths

Visit ==
    /\ pc = "walk" /\ queue # <<>>
    /\ LET n == Head(queue) IN
        /\ depths' = [m \in DOMAIN depths \cup New(n) |->
                        IF m \in New(n) THEN depths[n] + 1 ELSE depths[m]]
        /\ \E order \in SetToSeqs(New(n)) : queue' = Tail(queue) \o order
    /\ UNCHANGED <<store, pc, todo, found, answer, writes, dive>>

\* What is reached and is code joins what was found, unless it is there already
\* with the depth it has.
Merge ==
    /\ pc = "walk" /\ queue = <<>>
    /\ LET near == (DOMAIN depths \ {Head(todo)}) \cap code \cap (candidates \cup rows) IN
        found' = [n \in DOMAIN found \cup near |->
                    IF n \in DOMAIN found THEN found[n] ELSE depths[n]]
    /\ todo' = Tail(todo)
    /\ pc' = "seed"
    /\ UNCHANGED <<store, depths, queue, answer, writes, dive>>

\* ranked[:limit]: of what was found, the limit's number of nodes.
Cut ==
    IF Cardinality(DOMAIN found) <= Limit THEN {DOMAIN found}
    ELSE {S \in SUBSET DOMAIN found : Cardinality(S) = Limit}

Answer ==
    /\ pc = "seed" /\ todo = <<>>
    /\ answer' \in Cut
    /\ pc' = "answered"
    /\ UNCHANGED <<store, todo, depths, queue, found, writes, dive>>

Difference(S, x) == IF x \in S THEN S \ {x} ELSE S \cup {x}

\* An ingest commits: an edge or a node comes or goes.
Write ==
    /\ pc \in {"seed", "walk"} /\ writes < MaxWrites
    /\ \/ \E e \in Nodes \X Nodes : graph' = Difference(graph, e) /\ rows' = rows
       \/ \E n \in Nodes : rows' = Difference(rows, n) /\ graph' = graph
    /\ writes' = writes + 1
    /\ UNCHANGED <<code, candidates, pc, walk, dive>>
----------------------------------------------------------------------------
(* cycles.                                                                 *)

Frame(n) == [node |-> n, left |-> Successors(n)]
Top == stack[Len(stack)]

\* on_path and in_path.
Path == [i \in DOMAIN stack |-> stack[i].node]

\* Mutant: nodes finished by an earlier search are searched again.
AnyRoot ==
    /\ pc = "root"
    /\ \E root \in Nodes : Successors(root) # {} /\ stack' = <<Frame(root)>>
    /\ pc' = "dive"
    /\ UNCHANGED <<store, walk, writes, finished, cycles>>

\* The next node that has edges and was not finished by an earlier search.
Root ==
    /\ pc = "root"
    /\ \E root \in Nodes \ finished : Successors(root) # {} /\ stack' = <<Frame(root)>>
    /\ pc' = "dive"
    /\ UNCHANGED <<store, walk, writes, finished, cycles>>

Pop ==
    /\ pc = "dive" /\ stack # <<>> /\ Top.left = {}
    /\ finished' = finished \cup {Top.node}
    /\ stack' = Front(stack)
    /\ pc' = IF Len(stack) = 1 THEN "root" ELSE "dive"
    /\ UNCHANGED <<store, walk, writes, cycles>>

Take(next) == [stack EXCEPT ![Len(stack)].left = @ \ {next}]

Rotated(body, k) == SubSeq(body, k, Len(body)) \o SubSeq(body, 1, k - 1)

\* A cycle found starts at its least node, whichever the search came from.
Found(body) ==
    \E pivot \in DOMAIN body :
        /\ \A i \in DOMAIN body : body[pivot] <= body[i]
        /\ cycles' = cycles \cup {Rotated(body, pivot)}

\* Mutant: the whole path counts, from the root on.
CloseWhole(next) ==
    /\ pc = "dive" /\ stack # <<>> /\ next \in Top.left
    /\ next \in Range(Path) /\ Found(Path)
    /\ stack' = Take(next)
    /\ UNCHANGED <<store, walk, writes, pc, finished>>

\* An edge back to the path closes a cycle, one that may be known.
Close(next) ==
    /\ pc = "dive" /\ stack # <<>> /\ next \in Top.left
    /\ \E i \in DOMAIN stack :
        /\ Path[i] = next
        /\ Found(SubSeq(Path, i, Len(stack)))
    /\ stack' = Take(next)
    /\ UNCHANGED <<store, walk, writes, pc, finished>>

\* Any other node that is not finished is searched next.
Enter(next) ==
    /\ pc = "dive" /\ stack # <<>> /\ next \in Top.left
    /\ next \notin Range(Path) /\ next \notin finished
    /\ stack' = Append(Take(next), Frame(next))
    /\ UNCHANGED <<store, walk, writes, pc, finished, cycles>>

\* A node that an earlier part of the search has finished is passed by.
Pass(next) ==
    /\ pc = "dive" /\ stack # <<>> /\ next \in Top.left
    /\ next \notin Range(Path) /\ next \in finished
    /\ stack' = Take(next)
    /\ UNCHANGED <<store, walk, writes, pc, finished, cycles>>

\* Mutant: the first finished root ends the search.
ReportFirst ==
    /\ pc = "root"
    /\ finished # {} \/ \A n \in Nodes : Successors(n) = {}
    /\ pc' = "reported"
    /\ UNCHANGED <<store, walk, writes, dive>>

Report ==
    /\ pc = "root"
    /\ \A n \in Nodes \ finished : Successors(n) = {}
    /\ pc' = "reported"
    /\ UNCHANGED <<store, walk, writes, dive>>
----------------------------------------------------------------------------
Step ==
    \/ Seed \/ Visit \/ Merge \/ Answer
    \/ Root \/ Pop \/ Report
    \/ \E next \in Nodes : Close(next) \/ Enter(next) \/ Pass(next)

Next == Step \/ Write

\* A search is one call of one thread: nothing in it waits for anything.  An
\* ingest need not commit.
Spec == Init /\ [][Next]_vars /\ WF_vars(Step)
----------------------------------------------------------------------------
(* The reference.                                                          *)

\* What is within k hops of a node.
Ball(seed) ==
    LET ball[k \in 0 .. MaxDepth] ==
            IF k = 0 THEN {seed}
            ELSE ball[k - 1] \cup UNION {Neighbours(n) : n \in ball[k - 1]}
    IN  ball

IsDistance(k, seed, n) == n \in Ball(seed)[k] /\ (k > 0 => n \notin Ball(seed)[k - 1])

\* What an edge or more lead to.
Reachable(n) ==
    LET reach[k \in 1 .. Cardinality(Nodes)] ==
            IF k = 1 THEN Successors(n)
            ELSE reach[k - 1] \cup UNION {Successors(m) : m \in reach[k - 1]}
    IN  reach[Cardinality(Nodes)]

\* The nodes that n is circularly dependent on.
Knot(n) == {m \in Reachable(n) : n \in Reachable(m)}

EdgesOf(c) == {<<c[i], c[IF i = Len(c) THEN 1 ELSE i + 1]>> : i \in DOMAIN c}

IsCycle(c) == c # <<>> /\ IsInjective(c) /\ EdgesOf(c) \subseteq graph

Cycles == {c \in UNION {[1 .. k -> Nodes] : k \in 1 .. Cardinality(Nodes)} :
              IsCycle(c) /\ \A i \in DOMAIN c : c[1] <= c[i]}
----------------------------------------------------------------------------
(* Correctness.                                                            *)

Depths == UNION {[S -> 0 .. MaxDepth] : S \in SUBSET Nodes}

TypeOK ==
    /\ graph \in SUBSET (Nodes \X Nodes)
    /\ rows \subseteq Nodes /\ code \subseteq Nodes /\ candidates \subseteq code
    /\ pc \in {"seed", "walk", "answered", "root", "dive", "reported"}
    /\ todo \in Seq(candidates) /\ queue \in Seq(DOMAIN depths)
    /\ depths \in Depths /\ found \in Depths /\ answer \subseteq Nodes
    /\ writes \in Nat
    /\ stack \in Seq([node: Nodes, left: SUBSET Nodes])
    /\ finished \subseteq Nodes
    /\ cycles \subseteq Seq(Nodes)

\* context_for answers with what is near: code that is within MaxDepth hops of a
\* match, each with its distance from one, and all of it unless it is more than the
\* limit, which is then used up; whatever order matches and neighbours come in and
\* whichever nodes on the way are not code (unless an ingest commits meanwhile).
AnswerIsNear ==
    (pc = "answered" /\ writes = 0) =>
        LET seeds == {n \in DOMAIN found : found[n] = 0}
            near  == (code \cap rows) \cap UNION {Ball(n)[MaxDepth] : n \in seeds}
        IN  /\ answer \subseteq near
            /\ \A n \in answer : \E seed \in seeds : IsDistance(found[n], seed, n)
            /\ IF Cardinality(near) <= Limit THEN answer = near ELSE Cardinality(answer) = Limit

\* Every path cycles() reports is a circular import: a path of edges back to
\* where it began that runs through no node twice.
CyclesAreReal == \A c \in cycles : IsCycle(c)

\* If files are circularly dependent, cycles() reports a cycle among them, in
\* whichever order nodes and edges come: an empty report means there is none.
KnotsAreReported ==
    pc = "reported" => \A n \in Nodes : Knot(n) # {} => \E c \in cycles : Range(c) \subseteq Knot(n)

\* Every search comes to its end, on circular and on changing graphs too.
SearchEnds == <>(pc \in {"answered", "reported"})

\* What the docstring of cycles says it returns: "Every simple cycle".
EveryCycle == pc = "reported" => cycles = Cycles
=============================================================================
