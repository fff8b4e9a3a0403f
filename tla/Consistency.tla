----------------------------- MODULE Consistency -----------------------------
(***************************************************************************)
(* What is concluded from the code graph: the queries of graph/query.py,   *)
(* the verdicts of consistency/check.py on claims about code, and the      *)
(* checks of reliability/ that read imports, callers and tests.            *)
(*                                                                         *)
(* They only read.  Each is a function of the tables that GraphIngest      *)
(* keeps, in whatever state ingests, edits and crashes have left them.     *)
(* Wording, evidence and confidence are left out.                          *)
(***************************************************************************)
EXTENDS GraphIngest

CONSTANTS Within,        \* pairs of a text and a dotted name or path that holds it
          SearchLimit,   \* rows that a search returns (50)
          FallbackLimit, \* rows of the last search of define (10)
          Private,       \* the names that start with _
          Top,           \* the package above those of the policy
          Packages,      \* packages under the layering policy
          Allowed,       \* [Packages -> the packages it may import]
          Core,          \* the package every other may import
          Marked,        \* paths with a high-risk marker
          ManyCallers,   \* callers that make a file's change risky (3)
          ManyImporters  \* importing files that do (2)

ASSUME PolicyAssumption ==
    /\ Within \subseteq Quals \X (Quals \cup Files)
    /\ SearchLimit \in Nat /\ FallbackLimit \in Nat \ {0}
    /\ Private \subseteq Names
    /\ Top \in Names /\ Packages \subseteq Names \cup {Blank} /\ Gone \notin Names \cup {Blank}
    /\ Allowed \in [Packages -> SUBSET Packages]
    /\ \A f \in Files : ModuleOf[f][1] = Top /\ Len(ModuleOf[f]) > 1 => ModuleOf[f][2] \in Packages
    /\ Marked \subseteq Files
    /\ ManyCallers \in Nat \ {0} /\ ManyImporters \in Nat \ {0}
----------------------------------------------------------------------------
(* Queries.                                                                *)

\* nodes_named: a name is one part.  (That of a file has a suffix: it is a path.)
Named(q) == {d \in nodes : d.kind # "file" /\ <<Last(d.qual)>> = q}

\* search_nodes: what holds the text, up to a limit.
Matching(q) ==
    {d \in nodes : d.qual = q \/ <<q, d.qual>> \in Within \/ (d.kind = "file" /\ <<q, d.file>> \in Within)}
SearchNodes(q, limit) ==
    IF Cardinality(Matching(q)) <= limit THEN Matching(q)
    ELSE CHOOSE S \in SUBSET Matching(q) : Cardinality(S) = limit

\* define: what has the name, what is found and has the dotted name, or what is found.
Define(q) ==
    LET exact == {d \in SearchNodes(q, SearchLimit) : d.qual = q}
    IN  IF Named(q) # {} THEN Named(q)
        ELSE IF exact # {} THEN exact
        ELSE SearchNodes(q, FallbackLimit)

\* neighbours: over resolved edges, to nodes that are there.
Outward(d, kind) ==
    {e.target : e \in {x \in edges : x.kind = kind /\ x.source = d /\ x.resolved}} \cap nodes
Inward(d, kind) ==
    {e.source : e \in {x \in edges : x.kind = kind /\ x.target = d /\ x.resolved}} \cap nodes

Callers(d) == Inward(d, "calls")
TestsFor(d) == Inward(d, "tests")
ImportedBy(f) == Inward(FileNode(f), "imports")

Untested == {d \in nodes : d.kind \in {"def", "class"} /\ NameOf(d) \notin Private /\ TestsFor(d) = {}}
----------------------------------------------------------------------------
(* Verdicts on claims.                                                     *)

\* `verity check`: without a graph, or with an empty one, a claim about code is
\* not judged.
Judged(verdict) == IF nodes = {} THEN "unverifiable" ELSE verdict

SymbolExists(q) == Judged(IF Define(q) # {} THEN "supported" ELSE "contradicted")

Linked(q, r, kind) == \E d \in Define(q) : Outward(d, kind) \cap Define(r) # {}

\* The ingester saw such a use but could not tell of what.
Unsure(q, r, kind) ==
    \E d \in Define(q) : \E e \in edges :
        e.kind = kind /\ e.source = d /\ ~e.resolved /\ Last(e.target.qual) = Last(r)

\* Mutant: an unresolved edge is not looked for.
UsesOrNot(q, r, kind) ==
    IF Define(q) = {} \/ Define(r) = {} THEN "contradicted"
    ELSE IF Linked(q, r, kind) THEN "supported"
    ELSE "contradicted"

\* _check_defined_relation for "`q` calls `r`", or inherits.
DefinedRelation(q, r, kind) ==
    IF Define(q) = {} \/ Define(r) = {} THEN "contradicted"
    ELSE IF Linked(q, r, kind) THEN "supported"
    ELSE IF Unsure(q, r, kind) THEN "unverifiable"
    ELSE "contradicted"

\* check_file_imports for "`f` imports `g`".
FileImports(f, g) ==
    IF FileNode(f) \in nodes /\ FileNode(g) \in Outward(FileNode(f), "imports")
    THEN "supported" ELSE "contradicted"

\* check_symbol_calls_file for "`q` calls `g`", g a file: an import is needed
\* for it but does not confirm it.
SymbolCallsFile(q, g) ==
    IF \E d \in Define(q) : d.file # Gone /\ FileNode(g) \in Outward(FileNode(d.file), "imports")
    THEN "unverifiable" ELSE "contradicted"

Negated(verdict) ==
    CASE verdict = "supported" -> "contradicted"
      [] verdict = "contradicted" -> "supported"
      [] OTHER -> verdict

\* check_symbol_relation: the verdict on a claim, negated or not.
SymbolRelation(claim) ==
    LET verdict ==
            CASE claim.relation = "imports" -> FileImports(claim.subject, claim.target)
              [] claim.relation = "calls file" -> SymbolCallsFile(claim.subject, claim.target)
              [] OTHER -> DefinedRelation(claim.subject, claim.target, claim.relation)
    IN  Judged(IF claim.negated THEN Negated(verdict) ELSE verdict)

\* check_file_exists asks the repository, not the graph.
FileExists(f) == IF repo[f] # Gone THEN "supported" ELSE "contradicted"
----------------------------------------------------------------------------
(* Layering and risk.                                                      *)

\* top_package; what is not under Top is out of scope.
Package(f) == IF ModuleOf[f][1] = Top /\ Len(ModuleOf[f]) > 1 THEN ModuleOf[f][2] ELSE Gone

Forbidden(p, q) == p # Gone /\ q # Gone /\ q \notin {p, Core} \cup Allowed[p]

\* check_architecture: the imports that the policy does not allow.
ArchitectureFindings ==
    {p \in Files \X Files :
        /\ Forbidden(Package(p[1]), Package(p[2]))
        /\ FileNode(p[1]) \in nodes /\ FileNode(p[2]) \in Outward(FileNode(p[1]), "imports")}

\* classify_file_risk: a path that the graph does not know has no signal but
\* its name.
Risk(f) ==
    IF f \in Marked THEN "high"
    ELSE IF \/ \E d \in NodesOf(f) : Cardinality(Callers(d)) >= ManyCallers
            \/ NodesOf(f) # {} /\ Cardinality(ImportedBy(f)) >= ManyImporters
            \/ NodesOf(f) \cap Untested # {}
         THEN "medium"
    ELSE "low"
----------------------------------------------------------------------------
(* Correctness.                                                            *)

UsesOf(f, c) == IF c[f] = Gone THEN {} ELSE c[f].uses
ImportsOf(f, c) == IF c[f] = Gone THEN {} ELSE ToSet(c[f].imports)

Relation(q, r, kind, negated) == [relation |-> kind, subject |-> q, target |-> r, negated |-> negated]

\* A claim is never confirmed out of thin air: whatever was edited and whichever
\* ingest crashed or is half-way, a call or a base between defined names that is
\* confirmed stands in a file as it was recorded, under its name or by what its
\* first part was imported for; and an import or a breach of the layering that is
\* reported is one of the module, of what is in it, or of a module right under it.
VerdictsAreBacked ==
    /\ \A n, m \in Names : \A kind \in {"calls", "inherits"} :
        (Named(<<n>>) # {} /\ Named(<<m>>) # {}
          /\ SymbolRelation(Relation(<<n>>, <<m>>, kind, FALSE)) = "supported")
            => \E f \in Files : \E u \in UsesOf(f, files) :
                u.kind = kind /\ NameOf(u.by) = n /\ m \in Sought(files[f], u)
    /\ \A f, g \in Files :
        (SymbolRelation(Relation(f, g, "imports", FALSE)) = "supported" \/ <<f, g>> \in ArchitectureFindings)
            => \E i \in ImportsOf(f, files) : ModuleOf[g] \in Tried(i)

\* The module that Python gives: the submodule of that name, or else the module the
\* name is in.
Truly(i) ==
    IF i.symbol /\ \E g \in Sound(repo) : ModuleOf[g] = i.full THEN i.full ELSE Module(i)

\* What a use names is taken for something of another name: nothing in its file is
\* called that, and its first part was imported.
Redirected(f, c, u) ==
    /\ DefinedAs(f, c, u.raw) = {} /\ DefinedAs(f, c, <<Last(u.raw)>>) = {}
    /\ Alias(c, u.raw) \ {Last(u.raw)} # {}

\* The files that an import by an absolute name brings into file f.
TrulyImports(f, g) ==
    \E i \in ImportsOf(f, repo) : {h \in Sound(repo) : ModuleOf[h] = Truly(i)} = {g}

\* After an ingest of everything that no edit disturbed: what is defined is found by
\* its name; a call or a base that is written, of a name the repository defines, is
\* not contradicted, nor its negation confirmed, unless an imported first part
\* redirects it; an import by the full name of one file's module is confirmed, the
\* layering check misses none of them, and a file with many is not tiered low.
FreshVerdictsAreRight ==
    (Running("done") /\ job.force /\ job.quiet /\ AllSound(repo)) =>
        /\ \A f \in Sound(repo) : \A d \in ToSet(repo[f].defs) :
            /\ SymbolExists(<<NameOf(d)>>) = "supported"
            /\ Cardinality(Matching(d.qual)) <= SearchLimit => SymbolExists(d.qual) = "supported"
        /\ \A f, g \in Sound(repo) : \A u \in repo[f].uses : \A d \in ToSet(repo[g].defs) :
            (NameOf(d) = Last(u.raw) /\ ~Redirected(f, repo[f], u)) =>
                LET verdict(negated) == SymbolRelation(Relation(<<NameOf(u.by)>>, <<NameOf(d)>>, u.kind, negated))
                IN  verdict(FALSE) # "contradicted" /\ verdict(TRUE) # "supported"
        /\ \A f, g \in Files : TrulyImports(f, g) =>
            /\ SymbolRelation(Relation(f, g, "imports", FALSE)) = "supported"
            /\ Forbidden(Package(f), Package(g)) => <<f, g>> \in ArchitectureFindings
        /\ \A g \in Files :
            Cardinality({f \in Files : TrulyImports(f, g)}) >= ManyImporters => Risk(g) # "low"

\* What check.py says of its verdicts: "an ambiguous or unresolvable case is
\* `UNVERIFIABLE`, never guessed".  An import that could not be resolved, of a name
\* that ends like the module of a file, is no ground to contradict a claim of it.
NeverGuessed ==
    Running("done") =>
        \A f, g \in Files :
            (/\ {FileNode(f), FileNode(g)} \subseteq nodes
             /\ \E e \in edges : /\ e.kind = "imports" /\ e.source = FileNode(f) /\ ~e.resolved
                                 /\ Last(e.target.qual) = Last(ModuleOf[g]))
            => SymbolRelation(Relation(f, g, "imports", FALSE)) # "contradicted"
=============================================================================
