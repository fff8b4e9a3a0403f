----------------------------- MODULE GraphIngest -----------------------------
(***************************************************************************)
(* `verity ingest`: ingest_repo (graph/ingest.py) keeps the SQLite code    *)
(* graph (graph/store.py) in step with a repository of Python files.       *)
(*                                                                         *)
(* Files are visited one by one (walk_repo sorts them; here in any order). *)
(* A file whose content hash is the recorded one is skipped, any other is  *)
(* forgotten, parsed and recorded; the nodes and edges of the parsed files *)
(* are written in a second pass, when every definition is known.  Each     *)
(* write commits on its own, so a process that dies between two of them    *)
(* leaves the earlier ones behind; and users edit files while it runs.     *)
(*                                                                         *)
(* A file's content is what it defines, in the order it is visited, what   *)
(* its functions call and its classes inherit from, by dotted names, and   *)
(* what it imports.  Dotted names are sequences of their parts: the dots   *)
(* of a relative import stand before blank parts, and the module of an     *)
(* __init__.py at the root is one blank part.                              *)
(***************************************************************************)
EXTENDS Naturals, FiniteSets, SequencesExt

CONSTANTS Files,      \* the paths of the repository
          Names,      \* parts of dotted names
          Blank,      \* the part between two dots
          ModuleOf,   \* module_qualname: [Files -> dotted name of its module]
          TestFiles,  \* the paths that is_test_path accepts
          TestNames,  \* the names that start with test_
          Sources,    \* [Files -> the contents a file may have]
          Gone,       \* no such file
          MaxEdits,   \* bound: edits of the repository
          MaxCrashes  \* bound: ingests that die half-way

Quals == Seq(Names \cup {Blank}) \ {<<>>}

Definitions == [qual: Quals, class: BOOLEAN]
\* A call in a function, or a base of a class, as it is written.
Uses == [kind: {"calls", "inherits"}, by: Definitions, raw: Quals]
\* The name that an import binds, and for what: a module or, with symbol, something
\* in one (`from module import name`).
Imports == [local: Names, full: Quals, symbol: BOOLEAN]

\* ok: the file is one to parse, and parses: it is not too large, unreadable,
\* in a nested project or syntactically wrong.
Content == [ok: BOOLEAN, defs: Seq(Definitions), uses: SUBSET Uses, imports: Seq(Imports)]

ASSUME FilesAssumption ==
    /\ IsFiniteSet(Files)
    /\ TestFiles \subseteq Files /\ TestNames \subseteq Names /\ Blank \notin Names
    /\ ModuleOf \in [Files -> Quals]
    /\ Sources \in [Files -> SUBSET Content]
    /\ \A f \in Files : \A c \in Sources[f] :
        /\ \A u \in c.uses : u.by \in ToSet(c.defs) /\ (u.kind = "inherits" <=> u.by.class)
        /\ \A i \in ToSet(c.imports) : i.symbol => Len(i.full) > 1
    /\ Gone \notin Content /\ Gone \notin Files
    /\ MaxEdits \in Nat /\ MaxCrashes \in Nat

VARIABLES repo,     \* [Files -> content or Gone]
          files,    \* the table of ingested files: [Files -> content hashed, or Gone]
          nodes,    \* the table of nodes
          edges,    \* the table of edges
          job,      \* the ingest that is running
          edits,    \* how often the repository was edited
          crashes,  \* how many ingests died
          settled   \* an ingest has ended and no file was edited since it began

store == <<files, nodes, edges>>
vars == <<repo, files, nodes, edges, job, edits, crashes, settled>>
----------------------------------------------------------------------------
(* Nodes and edges.                                                        *)

Node(kind, f, q) == [kind |-> kind, file |-> f, qual |-> q]
FileNode(f) == Node("file", f, ModuleOf[f])
ExternalNode(q) == Node("external", Gone, q)
RawName(q) == Node("name", Gone, q)
DefNode(f, d) ==
    Node(IF d.class THEN "class" ELSE IF f \in TestFiles /\ Last(d.qual) \in TestNames THEN "test" ELSE "def",
         f, d.qual)
NameOf(d) == Last(d.qual)

Edge(kind, source, target) ==
    [kind |-> kind, source |-> source, target |-> target,
     resolved |-> target.kind \notin {"name", "external"}]

\* nodes_in_file.
NodesOf(f) == {n \in nodes : n.file = f}

Module(i) == IF i.symbol THEN Front(i.full) ELSE i.full

\* What ModuleExtractor finds in file f of content c.
DefsOf(f, c) == {DefNode(f, d) : d \in ToSet(c.defs)}
Extracted(f, c) == {FileNode(f)} \cup DefsOf(f, c) \cup {ExternalNode(Module(i)) : i \in ToSet(c.imports)}

\* Its dict `defined`: a dotted name stands for the last definition of it, a bare
\* one for the first that ends in it, if none is called just that.
DefinedAs(f, c, q) ==
    LET same == {i \in DOMAIN c.defs : c.defs[i].qual = q}
        alike == {i \in DOMAIN c.defs : <<NameOf(c.defs[i])>> = q}
    IN  {DefNode(f, c.defs[i]) : i \in
            IF same # {} THEN {i \in same : \A j \in same : j <= i}
                         ELSE {i \in alike : \A j \in alike : i <= j}}

\* Mutant: names are registered, not the ids of their nodes.
RegisteredNames(f, c) == {NameOf(d) : d \in ToSet(c.defs)}

\* What a parsed file adds to the definitions: a node for each bare name.
Registered(f, c) == UNION {DefinedAs(f, c, <<NameOf(d)>>) : d \in ToSet(c.defs)}
----------------------------------------------------------------------------
(* _resolve.                                                               *)

\* What the first part of a dotted name was imported for; the last import binds it.
Alias(c, raw) ==
    LET binding == {i \in DOMAIN c.imports : c.imports[i].local = raw[1]}
    IN  {Last(c.imports[i].full) : i \in {i \in binding : \A j \in binding : j <= i}}

\* The definition of a bare name, if there is just one.
Sole(known, n) == LET N == {d \in known : NameOf(d) = n} IN {d \in N : N = {d}}

\* What is used is defined in the file, dotted or bare, or it is the one definition
\* of what was imported, or of its last part, or stays a name.
Callee(f, c, raw, known) ==
    LET bare == <<Last(raw)>>
        alias == UNION {Sole(known, n) : n \in Alias(c, raw)}
        found == IF DefinedAs(f, c, raw) # {} THEN DefinedAs(f, c, raw)
                 ELSE IF DefinedAs(f, c, bare) # {} THEN DefinedAs(f, c, bare)
                 ELSE IF alias # {} THEN alias
                 ELSE Sole(known, Last(raw))
    IN  IF found = {} THEN RawName(raw) ELSE CHOOSE d \in found : TRUE

\* module_ids: of the files of one module a stored one that is not the root is
\* preferred, otherwise some file that has just been parsed.
Modules == {ModuleOf[f] : f \in Files}
ModuleIds(stored, parsed) ==
    {m \in [Modules -> Files \cup {Gone}] : \A q \in Modules :
        LET old == {f \in stored : ModuleOf[f] = q /\ q # <<Blank>>}
            new == {f \in parsed : ModuleOf[f] = q}
        IN  m[q] \in IF old # {} THEN old ELSE IF new # {} THEN new ELSE {Gone}}

Parent(q) == IF Len(q) > 1 THEN Front(q) ELSE q

\* What an import is looked up as: a module of that name, the module that has it,
\* or that module's parent.
Tried(i) == (IF i.symbol THEN {i.full} ELSE {}) \cup {Module(i), Parent(Module(i))}

Imported(i, m) ==
    LET At(q) == IF q \in Modules THEN m[q] ELSE Gone
        q == IF i.symbol /\ At(i.full) # Gone THEN i.full
             ELSE IF At(Module(i)) # Gone THEN Module(i)
             ELSE Parent(Module(i))
    IN  IF At(q) # Gone THEN FileNode(At(q)) ELSE ExternalNode(Module(i))

\* The parent of a method; what is in a function has an edge from no node.
Container(f, d) ==
    IF d.class \/ Len(d.qual) = 1 THEN FileNode(f) ELSE Node("class", f, Front(d.qual))

Contained(f, c) == {Edge("contains", Container(f, d), DefNode(f, d)) : d \in ToSet(c.defs)}
UseEdge(f, c, u, known) == Edge(u.kind, DefNode(f, u.by), Callee(f, c, u.raw, known))
ImportEdge(f, i, m) == Edge("imports", FileNode(f), Imported(i, m))

Resolved(f, c, known, m) ==
    Contained(f, c)
    \cup {UseEdge(f, c, u, known) : u \in c.uses}
    \cup {ImportEdge(f, i, m) : i \in ToSet(c.imports)}

\* _link_tests: what the resolved calls of the tests N lead to.
TestEdges(N, E) ==
    {Edge("tests", e.source, e.target) :
        e \in {d \in E : /\ d.kind = "calls" /\ d.resolved
                         /\ d.source \in N /\ d.source.kind = "test"
                         /\ d.target \in N /\ d.target.kind # "test"}}
----------------------------------------------------------------------------
NoJob == [step |-> "none", force |-> FALSE, todo |-> {}, now |-> Gone, seen |-> {},
          pending |-> [f \in Files |-> Gone], known |-> {},
          modules |-> [q \in Modules |-> Gone], quiet |-> TRUE]

Init ==
    /\ repo \in {r \in [Files -> (UNION {Sources[f] : f \in Files}) \cup {Gone}] :
                  \A f \in Files : r[f] \in Sources[f] \cup {Gone}}
    /\ files = [f \in Files |-> Gone]
    /\ nodes = {} /\ edges = {}
    /\ job = NoJob
    /\ edits = 0 /\ crashes = 0 /\ settled = FALSE

Running(step) == job.step = step
Goto(step) == job' = [job EXCEPT !.step = step]

Begin(force) ==
    LET present == {f \in Files : repo[f] # Gone} IN
    /\ Running("none")
    /\ job' = [NoJob EXCEPT !.step = "walk", !.force = force, !.seen = present, !.todo = present]
    /\ settled' = (settled /\ ~force)
    /\ UNCHANGED <<repo, store, edits, crashes>>

Parses(f) == repo[f] # Gone /\ repo[f].ok

Visited(f) == [job EXCEPT !.todo = @ \ {f}]

\* A file not to be parsed, or gone since the walk: it is left as it is.
Skip(f) ==
    /\ Running("walk") /\ f \in job.todo
    /\ ~Parses(f)
    /\ job' = Visited(f)
    /\ UNCHANGED <<repo, store, edits, crashes, settled>>

\* Mutant: what an unchanged file defines is not registered.
UnchangedUnregistered(f) ==
    /\ Running("walk") /\ f \in job.todo
    /\ Parses(f)
    /\ ~job.force /\ files[f] = repo[f]
    /\ job' = Visited(f)
    /\ UNCHANGED <<repo, store, edits, crashes, settled>>

\* A file with the recorded hash: its definitions, but not its tests, are
\* registered from the graph, all of them.
Unchanged(f) ==
    /\ Running("walk") /\ f \in job.todo
    /\ Parses(f)
    /\ ~job.force /\ files[f] = repo[f]
    /\ job' = [Visited(f) EXCEPT !.known = @ \cup {n \in NodesOf(f) : n.kind \in {"def", "class"}}]
    /\ UNCHANGED <<repo, store, edits, crashes, settled>>

Touches(e, N) == e.source \in N \/ e.target \in N

\* Mutant: only the row of the file is deleted.
ForgetRow(f) ==
    /\ files' = [files EXCEPT ![f] = Gone]
    /\ UNCHANGED <<nodes, edges>>

\* forget_file: the nodes of the file, every edge from or to one, and its row.
Forget(f) ==
    /\ edges' = {e \in edges : ~Touches(e, NodesOf(f))}
    /\ nodes' = nodes \ NodesOf(f)
    /\ files' = [files EXCEPT ![f] = Gone]

\* Any other file that parses is forgotten, and its content is kept.
Parse(f) ==
    /\ Running("walk") /\ f \in job.todo
    /\ Parses(f)
    /\ job.force \/ files[f] # repo[f]
    /\ Forget(f)
    /\ job' = [job EXCEPT !.step = "record", !.now = f, !.pending[f] = repo[f],
                          !.known = @ \cup Registered(f, repo[f])]
    /\ UNCHANGED <<repo, edits, crashes, settled>>

\* Mutant: record_file is never called.
RecordNothing(f) ==
    /\ Running("record") /\ f = job.now
    /\ job' = [Visited(f) EXCEPT !.step = "walk"]
    /\ UNCHANGED <<repo, store, edits, crashes, settled>>

Record(f) ==
    /\ Running("record") /\ f = job.now
    /\ files' = [files EXCEPT ![f] = job.pending[f]]
    /\ job' = [Visited(f) EXCEPT !.step = "walk"]
    /\ UNCHANGED <<repo, nodes, edges, edits, crashes, settled>>

Vanish(f) ==
    /\ Running("walk") /\ job.todo = {}
    /\ files[f] # Gone /\ f \notin job.seen
    /\ Forget(f)
    /\ UNCHANGED <<repo, job, edits, crashes, settled>>

Parsed == {f \in Files : job.pending[f] # Gone}

\* The second pass starts: modules are those of files with a node or just parsed.
Resolve ==
    /\ Running("walk") /\ job.todo = {}
    /\ \A f \in Files : files[f] # Gone => f \in job.seen
    /\ \E m \in ModuleIds({f \in Files : FileNode(f) \in nodes}, Parsed) :
        job' = [job EXCEPT !.step = "nodes", !.todo = Parsed, !.modules = m]
    /\ UNCHANGED <<repo, store, edits, crashes, settled>>

AddNodes(f) ==
    /\ Running("nodes") /\ f \in job.todo
    /\ nodes' = nodes \cup Extracted(f, job.pending[f])
    /\ job' = [job EXCEPT !.step = "edges", !.now = f]
    /\ UNCHANGED <<repo, files, edges, edits, crashes, settled>>

AddEdges(f) ==
    /\ Running("edges") /\ f = job.now
    /\ edges' = edges \cup Resolved(f, job.pending[f], job.known, job.modules)
    /\ job' = [Visited(f) EXCEPT !.step = "nodes"]
    /\ UNCHANGED <<repo, files, nodes, edits, crashes, settled>>

\* Mutant: the placeholders stay.
KeepExternals ==
    /\ Running("nodes") /\ job.todo = {}
    /\ Goto("link")
    /\ UNCHANGED <<repo, store, edits, crashes, settled>>

DropOrphanExternals ==
    /\ Running("nodes") /\ job.todo = {}
    /\ nodes' = {n \in nodes : n.kind = "external" => \E e \in edges : e.target = n}
    /\ Goto("link")
    /\ UNCHANGED <<repo, files, edges, edits, crashes, settled>>

LinkTests ==
    /\ Running("link")
    /\ edges' = edges \cup TestEdges(nodes, edges)
    /\ Goto("done")
    /\ UNCHANGED <<repo, files, nodes, edits, crashes, settled>>

Finish ==
    /\ Running("done")
    /\ job' = NoJob
    /\ settled' = job.quiet
    /\ UNCHANGED <<repo, store, edits, crashes>>

\* The process is killed, or an exception nothing catches ends it.
Crash ==
    /\ job.step # "none"
    /\ crashes < MaxCrashes
    /\ crashes' = crashes + 1
    /\ job' = NoJob
    /\ UNCHANGED <<repo, store, edits, settled>>

\* A file is created, changed or deleted.
Edit(f, c) ==
    /\ edits < MaxEdits
    /\ c # repo[f]
    /\ repo' = [repo EXCEPT ![f] = c]
    /\ edits' = edits + 1
    /\ job' = [job EXCEPT !.quiet = (job.step = "none")]
    /\ settled' = FALSE
    /\ UNCHANGED <<store, crashes>>

Next ==
    \/ \E force \in BOOLEAN : Begin(force)
    \/ \E f \in Files :
        \/ Skip(f) \/ Unchanged(f) \/ Parse(f) \/ Record(f) \/ Vanish(f)
        \/ AddNodes(f) \/ AddEdges(f)
    \/ Resolve \/ DropOrphanExternals \/ LinkTests \/ Finish \/ Crash
    \/ \E f \in Files : \E c \in Sources[f] \cup {Gone} : Edit(f, c)

Spec == Init /\ [][Next]_vars
----------------------------------------------------------------------------
(* The graph of a repository, without a history: the reference.            *)

Sound(r) == {f \in Files : r[f] # Gone /\ r[f].ok}
AllSound(r) == \A f \in Files : r[f] # Gone => r[f].ok

FreshKnown(r) == UNION {Registered(g, r[g]) : g \in Sound(r)}
FreshModules(r) == ModuleIds({}, Sound(r))

Fresh(r, m) ==
    LET E == UNION {Resolved(f, r[f], FreshKnown(r), m) : f \in Sound(r)}
        N == (UNION {{FileNode(f)} \cup DefsOf(f, r[f]) : f \in Sound(r)})
               \cup {e.target : e \in {d \in E : d.target.kind = "external"}}
    IN  <<[f \in Files |-> IF f \in Sound(r) THEN r[f] ELSE Gone], N, E \cup TestEdges(N, E)>>
----------------------------------------------------------------------------
(* Correctness.                                                            *)

Contents == [Files -> Content \cup {Gone}]
Nodes == [kind: {"file", "external", "class", "def", "test", "name"}, file: Files \cup {Gone}, qual: Quals]
Kinds == {"contains", "calls", "inherits", "imports", "tests"}
Steps == {"none", "walk", "record", "nodes", "edges", "link", "done"}

TypeOK ==
    /\ repo \in Contents /\ files \in Contents
    /\ nodes \subseteq Nodes
    /\ edges \subseteq [kind: Kinds, source: Nodes, target: Nodes, resolved: BOOLEAN]
    /\ job \in [step: Steps, force: BOOLEAN, todo: SUBSET Files, now: Files \cup {Gone},
                seen: SUBSET Files, pending: Contents, known: SUBSET Nodes,
                modules: [Modules -> Files \cup {Gone}], quiet: BOOLEAN]
    /\ edits \in Nat /\ crashes \in Nat /\ settled \in BOOLEAN

\* The graph "never asserts the existence of something that is gone": whatever
\* ingests crashed and whatever was edited meanwhile, a node with a path is one
\* of the content recorded for its file.
NodesMatchRecord ==
    \A n \in nodes : n.kind # "external" =>
        n.file \in Files /\ files[n.file] # Gone /\ n \in Extracted(n.file, files[n.file])

\* The names whose definitions decide what a use is resolved to.
Sought(c, u) == {Last(u.raw)} \cup Alias(c, u.raw)

\* No test has the name, and no file defines it twice: a file that is skipped
\* registers each of its definitions but no test, one that is parsed one of a name.
Clear(n) == \A f \in Sound(repo) : \A d, e \in DefsOf(f, repo[f]) :
    NameOf(d) = n /\ NameOf(e) = n => d = e /\ d.kind # "test"

\* An incremental ingest gives a changed file the edges that ingesting the whole
\* repository anew would: what it uses of the files that were skipped is found as
\* well, if its names are clear; so is what it imports, but for the package at the
\* root, which is a module only when it is parsed.
IncrementalAgrees ==
    (Running("done") /\ job.quiet /\ crashes = 0 /\ AllSound(repo)) =>
        \E m \in FreshModules(repo) : \A f \in Parsed :
            LET c == repo[f]
                out == {e \in edges : e.source.file = f /\ e.kind # "tests"}
                told == {u \in c.uses : \A n \in Sought(c, u) : Clear(n)}
                plain == {i \in ToSet(c.imports) : <<Blank>> \notin Tried(i)}
                agreed == Contained(f, c)
                          \cup {UseEdge(f, c, u, FreshKnown(repo)) : u \in told}
                          \cup {ImportEdge(f, i, m) : i \in plain}
            IN  agreed \subseteq out /\ (told = c.uses /\ plain = ToSet(c.imports) => out = agreed)

\* Once an ingest has run to its end, further ones leave the graph alone, at
\* every step of theirs, until a file is edited or --force is given.
IngestIsIdempotent == [][settled /\ settled' => UNCHANGED store]_vars

\* `verity ingest --force` repairs everything: whatever crashes and edits came
\* before, it ends with the graph of the repository as it is, if all files parse.
ForceRepairs ==
    (Running("done") /\ job.force /\ job.quiet /\ AllSound(repo)) =>
        \E m \in FreshModules(repo) : store = Fresh(repo, m)

\* What ingest.py says of calls: "recorded with resolved=False, never dropped".
\* Every call of a file as recorded has its edge when an ingest has ended.
CallsNeverDropped ==
    (Running("done") /\ crashes = 0) =>
        \A f \in Files : files[f] # Gone => \A u \in files[f].uses :
            \E e \in edges : /\ e.kind = u.kind /\ e.source = DefNode(f, u.by)
                             /\ NameOf(e.target) \in Sought(files[f], u)

\* What ADR-0038 says of graph/store.py, "transactional": an ingest that died
\* leaves nothing that the next one does not put right.
CrashIsRepaired ==
    (Running("done") /\ job.quiet) => \A f \in Sound(repo) : DefsOf(f, repo[f]) \subseteq nodes
=============================================================================
