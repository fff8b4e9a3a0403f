------------------------- MODULE GraphIngest_proofs -------------------------
(***************************************************************************)
(* The graph holds no node that the recorded content of its file does not  *)
(* define, and no verdict is given without evidence: whatever is edited    *)
(* and whichever ingests die, what is confirmed about calls, imports and   *)
(* layers stands in a file as it was recorded, for every repository and    *)
(* every policy.  An ingest that nothing disturbs does what it is for: it  *)
(* leaves alone what is in order, writes for a changed file what ingesting *)
(* everything would and, with --force, repairs whatever went before.       *)
(***************************************************************************)
EXTENDS Consistency, FoldFacts

Edges == [kind: Kinds, source: Nodes, target: Nodes, resolved: BOOLEAN]
Jobs == [step: Steps, force: BOOLEAN, todo: SUBSET Files, now: Files \cup {Gone},
         seen: SUBSET Files, pending: Contents, known: SUBSET Nodes,
         modules: [Modules -> Files \cup {Gone}], quiet: BOOLEAN]

----------------------------------------------------------------------------
(* Types.                                                                  *)

\* A dotted name has a first, a last and, if it is not one part, the parts before.
LEMMA QualFacts ==
    ASSUME NEW q \in Quals
    PROVE  /\ Len(q) \in Nat \ {0} /\ Last(q) \in Names \cup {Blank} /\ q[1] \in Names \cup {Blank}
           /\ <<Last(q)>> \in Quals
           /\ Len(q) > 1 => Front(q) \in Quals
<1>1. q \in Seq(Names \cup {Blank}) /\ q # <<>>
  BY DEF Quals
<1>2. Len(q) \in Nat \ {0} /\ q[1] \in Names \cup {Blank} /\ q[Len(q)] \in Names \cup {Blank}
  BY <1>1
<1>3. <<Last(q)>> \in Quals
  BY <1>2 DEF Last, Quals
<1>4. ASSUME Len(q) > 1 PROVE Front(q) \in Quals
  <2>1. Front(q) \in Seq(Names \cup {Blank}) /\ Len(Front(q)) = Len(q) - 1
    BY <1>1, <1>2, <1>4 DEF Front
  <2>. QED BY <1>2, <1>4, <2>1 DEF Quals
<1>. QED BY <1>2, <1>3, <1>4 DEF Last

\* The members of a sequence are of its type.
LEMMA ToSetType ==
    ASSUME NEW T, NEW q \in Seq(T)
    PROVE  ToSet(q) \subseteq T
BY DEF ToSet

\* What a content is made of has its type.
LEMMA ContentFacts ==
    ASSUME NEW c \in Content
    PROVE  /\ \A d \in ToSet(c.defs) : d \in Definitions
           /\ \A d \in c.uses : d \in Uses
           /\ \A d \in ToSet(c.imports) : d \in Imports
<1>1. c.defs \in Seq(Definitions) /\ c.imports \in Seq(Imports) /\ c.uses \subseteq Uses
  BY DEF Content
<1>. QED BY <1>1, ToSetType

\* What the extractor and the resolver make of a file are nodes and edges.
LEMMA DefNodeType ==
    ASSUME NEW f \in Files, NEW d \in Definitions
    PROVE  DefNode(f, d) \in Nodes
BY DEF DefNode, Node, Nodes, Definitions

\* Definitions of a file are nodes of it.
LEMMA DefsType ==
    ASSUME NEW f \in Files, NEW c \in Content
    PROVE  DefsOf(f, c) \subseteq Nodes
BY ContentFacts, DefNodeType DEF DefsOf

\* A file's node, and one for a module, are nodes.
LEMMA FileNodeType ==
    ASSUME NEW f \in Files
    PROVE  FileNode(f) \in Nodes
BY FilesAssumption DEF FileNode, Node, Nodes

\* The imports of a source have a module.
WellFormed(c) ==
    /\ \A u \in c.uses : u.by \in ToSet(c.defs)
    /\ \A i \in ToSet(c.imports) : i.symbol => Len(i.full) > 1

\* The contents a file may have are so.
LEMMA SourcesFacts ==
    ASSUME NEW f \in Files, NEW c \in Sources[f]
    PROVE  c \in Content /\ WellFormed(c)
BY FilesAssumption DEF WellFormed

\* The module of an import is a dotted name, and so is its parent.
LEMMA ModuleType ==
    ASSUME NEW c \in Content, WellFormed(c), NEW i \in ToSet(c.imports)
    PROVE  Module(i) \in Quals /\ Parent(Module(i)) \in Quals /\ ExternalNode(Module(i)) \in Nodes
<1>1. i \in Imports /\ (i.symbol => Len(i.full) > 1)
  BY ContentFacts DEF WellFormed
<1>2. i.full \in Quals
  BY <1>1 DEF Imports
<1>3. Module(i) \in Quals
  BY <1>1, <1>2, QualFacts DEF Module
<1>4. Parent(Module(i)) \in Quals
  BY <1>3, QualFacts DEF Parent
<1>. QED BY <1>3, <1>4 DEF ExternalNode, Node, Nodes

\* The nodes of a source have the type of the table of nodes.
LEMMA ExtractedType ==
    ASSUME NEW f \in Files, NEW c \in Content, WellFormed(c)
    PROVE  Extracted(f, c) \subseteq Nodes
BY DefsType, FileNodeType, ModuleType DEF Extracted

\* An edge has the type of the table of edges.
LEMMA EdgeType ==
    ASSUME NEW k \in Kinds, NEW m \in Nodes, NEW n \in Nodes
    PROVE  Edge(k, m, n) \in Edges
BY DEF Edge, Edges

\* What a name stands for in a file is a definition of that name.
LEMMA DefinedFacts ==
    ASSUME NEW f, NEW c, NEW q, NEW d \in DefinedAs(f, c, q)
    PROVE  d \in DefsOf(f, c) /\ (d.qual = q \/ <<NameOf(d)>> = q)
<1>. DEFINE same == {i \in DOMAIN c.defs : c.defs[i].qual = q}
            alike == {i \in DOMAIN c.defs : <<NameOf(c.defs[i])>> = q}
<1>1. PICK i \in same \cup alike : d = DefNode(f, c.defs[i])
  BY DEF DefinedAs
<1>2. d.qual = c.defs[i].qual
  BY <1>1 DEF DefNode, Node
<1>3. d \in DefsOf(f, c)
  BY <1>1 DEF DefsOf, ToSet
<1>. QED BY <1>1, <1>2, <1>3 DEF NameOf

\* What a file registers is defined in it.
LEMMA RegisteredFacts ==
    ASSUME NEW f, NEW c
    PROVE  Registered(f, c) \subseteq DefsOf(f, c)
<1>1. ASSUME NEW x \in Registered(f, c) PROVE x \in DefsOf(f, c)
  <2>1. PICK d \in ToSet(c.defs) : x \in DefinedAs(f, c, <<NameOf(d)>>)
    BY <1>1 DEF Registered
  <2>. QED BY <2>1, DefinedFacts
<1>. QED BY <1>1

\* A dotted name ends in the name of what it stands for.
LEMMA DefinedName ==
    ASSUME NEW f, NEW c, NEW q, NEW d \in DefinedAs(f, c, q)
    PROVE  NameOf(d) = Last(q)
<1>1. d.qual = q \/ <<NameOf(d)>> = q
  BY DefinedFacts
<1>2. CASE d.qual = q
  BY <1>2 DEF NameOf
<1>3. CASE <<NameOf(d)>> = q
  BY <1>3 DEF Last
<1>. QED BY <1>1, <1>2, <1>3

\* The definition that is found for a name has it.
LEMMA SoleFacts ==
    ASSUME NEW K, NEW n, NEW d \in Sole(K, n)
    PROVE  d \in K /\ NameOf(d) = n /\ \A e \in K : NameOf(e) = n => e = d
BY DEF Sole

\* What a use is resolved to is a definition of its file or a registered one of a
\* name that is sought, or it stays a name.
LEMMA CalleeFacts ==
    ASSUME NEW f, NEW c, NEW u, NEW K
    PROVE  LET t == Callee(f, c, u.raw, K)
           IN  /\ NameOf(t) \in Sought(c, u)
               /\ t = RawName(u.raw) \/ t \in DefsOf(f, c) \/ t \in K
<1>. DEFINE raw == u.raw
            bare == <<Last(raw)>>
            alias == UNION {Sole(K, n) : n \in Alias(c, raw)}
            found == IF DefinedAs(f, c, raw) # {} THEN DefinedAs(f, c, raw)
                     ELSE IF DefinedAs(f, c, bare) # {} THEN DefinedAs(f, c, bare)
                     ELSE IF alias # {} THEN alias
                     ELSE Sole(K, Last(raw))
<1>1. Callee(f, c, raw, K) = IF found = {} THEN RawName(raw) ELSE CHOOSE d \in found : TRUE
  BY DEF Callee
<1>2. NameOf(RawName(raw)) = Last(raw)
  BY DEF NameOf, RawName, Node
<1>3. Last(bare) = Last(raw)
  BY DEF Last
<1>4. ASSUME NEW d \in found PROVE (d \in DefsOf(f, c) \/ d \in K) /\ NameOf(d) \in Sought(c, u)
  <2>1. d \in DefinedAs(f, c, raw) \/ d \in DefinedAs(f, c, bare) \/ d \in alias \/ d \in Sole(K, Last(raw))
    BY <1>4
  <2>2. CASE d \in DefinedAs(f, c, raw)
    BY <2>2, DefinedFacts, DefinedName DEF Sought
  <2>3. CASE d \in DefinedAs(f, c, bare)
    BY <1>3, <2>3, DefinedFacts, DefinedName DEF Sought
  <2>4. CASE d \in alias
    <3>1. PICK n \in Alias(c, raw) : d \in Sole(K, n)
      BY <2>4
    <3>. QED BY <3>1, SoleFacts DEF Sought
  <2>5. CASE d \in Sole(K, Last(raw))
    BY <2>5, SoleFacts DEF Sought
  <2>. QED BY <2>1, <2>2, <2>3, <2>4, <2>5
<1>5. CASE found = {}
  BY <1>1, <1>2, <1>5 DEF Sought
<1>6. CASE found # {}
  <2>1. Callee(f, c, raw, K) \in found
    BY <1>1, <1>6
  <2>. QED BY <1>4, <2>1
<1>. QED BY <1>5, <1>6

\* What a call is resolved to is a node.
LEMMA CalleeType ==
    ASSUME NEW f \in Files, NEW c \in Content, NEW u \in Uses, NEW K \in SUBSET Nodes
    PROVE  Callee(f, c, u.raw, K) \in Nodes
<1>1. RawName(u.raw) \in Nodes
  BY DEF RawName, Node, Nodes, Uses
<1>. QED BY <1>1, CalleeFacts, DefsType

\* What modules are taken for: files of that name.
ModulesAgree(m) ==
    /\ m \in [Modules -> Files \cup {Gone}]
    /\ \A q \in Modules : m[q] # Gone => m[q] \in Files /\ ModuleOf[m[q]] = q

\* It is so of what the second pass looks modules up in.
LEMMA ModuleIdsFacts ==
    ASSUME NEW S \in SUBSET Files, NEW P \in SUBSET Files, NEW m \in ModuleIds(S, P)
    PROVE  ModulesAgree(m)
<1>1. m \in [Modules -> Files \cup {Gone}]
  BY DEF ModuleIds
<1>2. ASSUME NEW q \in Modules, m[q] # Gone PROVE m[q] \in Files /\ ModuleOf[m[q]] = q
  <2>. DEFINE old == {f \in S : ModuleOf[f] = q /\ q # <<Blank>>}
              new == {f \in P : ModuleOf[f] = q}
  <2>1. m[q] \in IF old # {} THEN old ELSE IF new # {} THEN new ELSE {Gone}
    BY DEF ModuleIds
  <2>2. m[q] \in old \/ m[q] \in new
    BY <1>2, <2>1
  <2>. QED BY <2>2
<1>. QED BY <1>1, <1>2 DEF ModulesAgree

\* What an import is resolved to is a file of a module it is looked up as, or an
\* external module.
LEMMA ImportedFacts ==
    ASSUME NEW m, ModulesAgree(m), NEW i
    PROVE  \/ Imported(i, m) = ExternalNode(Module(i))
           \/ \E g \in Files : Imported(i, m) = FileNode(g) /\ ModuleOf[g] \in Tried(i)
<1>. DEFINE At(q) == IF q \in Modules THEN m[q] ELSE Gone
            q == IF i.symbol /\ At(i.full) # Gone THEN i.full
                 ELSE IF At(Module(i)) # Gone THEN Module(i)
                 ELSE Parent(Module(i))
<1>1. Imported(i, m) = IF At(q) # Gone THEN FileNode(At(q)) ELSE ExternalNode(Module(i))
  BY DEF Imported
<1>2. q \in Tried(i)
  BY DEF Tried
<1>3. At(q) # Gone => At(q) \in Files /\ ModuleOf[At(q)] = q
  BY DEF ModulesAgree
<1>. QED BY <1>1, <1>2, <1>3

\* The container of a definition is a node.
LEMMA ContainerType ==
    ASSUME NEW f \in Files, NEW d \in Definitions
    PROVE  Container(f, d) \in Nodes
<1>1. d.qual \in Quals
  BY DEF Definitions
<1>2. CASE d.class \/ Len(d.qual) = 1
  BY <1>2, FileNodeType DEF Container
<1>3. CASE ~(d.class \/ Len(d.qual) = 1)
  <2>a. Len(d.qual) \in Nat \ {0}
    BY <1>1, QualFacts
  <2>b. Len(d.qual) # 1
    BY <1>3, Zenon
  <2>c. \A k \in Nat \ {0} : k # 1 => k > 1
    OBVIOUS
  <2>0. Len(d.qual) > 1
    BY <2>a, <2>b, <2>c, Zenon
  <2>1. Front(d.qual) \in Quals
    BY <1>1, <2>0, QualFacts
  <2>. QED BY <1>3, <2>1 DEF Container, Node, Nodes
<1>. QED BY <1>2, <1>3

\* The edges a file is resolved to have the type of the table of edges.
LEMMA ResolvedType ==
    ASSUME NEW f \in Files, NEW c \in Content, WellFormed(c), NEW K \in SUBSET Nodes, NEW m, ModulesAgree(m)
    PROVE  Resolved(f, c, K, m) \subseteq Edges
<1>1. ASSUME NEW d \in ToSet(c.defs) PROVE Edge("contains", Container(f, d), DefNode(f, d)) \in Edges
  BY ContentFacts, DefNodeType, ContainerType, EdgeType DEF Kinds
<1>2. ASSUME NEW u \in c.uses PROVE UseEdge(f, c, u, K) \in Edges
  <2>1. u \in Uses /\ u.by \in Definitions /\ u.kind \in Kinds
    BY ContentFacts DEF Uses, Kinds
  <2>. QED BY <2>1, DefNodeType, CalleeType, EdgeType DEF UseEdge
<1>3. ASSUME NEW i \in ToSet(c.imports) PROVE ImportEdge(f, i, m) \in Edges
  <2>1. Imported(i, m) \in Nodes
    BY ImportedFacts, ModuleType, FileNodeType
  <2>. QED BY <2>1, FileNodeType, EdgeType DEF ImportEdge, Kinds
<1>. QED BY <1>1, <1>2, <1>3 DEF Resolved, Contained

\* The derived edges of tests are edges.
LEMMA TestEdgesType ==
    ASSUME NEW N \in SUBSET Nodes, NEW E \in SUBSET Edges
    PROVE  TestEdges(N, E) \subseteq Edges
BY EdgeType DEF TestEdges, Edges, Kinds

\* A file's content is one of its sources, whose calls start in what it defines.
ContentsAreSources ==
    /\ \A f \in Files : repo[f] \in Sources[f] \cup {Gone}
    /\ \A f \in Files : job.pending[f] \in Sources[f] \cup {Gone}
    /\ ModulesAgree(job.modules)

TypeInv == TypeOK /\ ContentsAreSources

\* What the ingest has parsed is what it has recorded, but for the file whose
\* row it is about to write, which has none; the second pass writes what was
\* parsed.
PendingIsRecorded ==
    /\ \A f \in Files : job.pending[f] # Gone =>
        /\ f \in job.seen
        /\ files[f] = job.pending[f] \/ (job.step = "record" /\ f = job.now)
    /\ job.step = "record" =>
        job.now \in Files /\ job.pending[job.now] # Gone /\ files[job.now] = Gone
    /\ job.step \in {"walk", "record"} => job.todo \subseteq job.seen
    /\ job.step \in {"nodes", "edges"} => job.todo \subseteq Parsed
    /\ job.step = "edges" => job.now \in Parsed

Inv == TypeInv /\ PendingIsRecorded /\ NodesMatchRecord

\* The tables are empty at first.
LEMMA InitType == Init => TypeInv
<1>. SUFFICES ASSUME Init PROVE TypeInv
  OBVIOUS
<1>1. repo \in Contents /\ files \in Contents
  BY FilesAssumption DEF Init, Contents
<1>2. job \in Jobs
  BY DEF Init, Jobs, NoJob, Steps, Contents
<1>3. ModulesAgree(NoJob.modules)
  BY DEF ModulesAgree, NoJob
<1>4. TypeOK
  BY <1>1, <1>2 DEF Init, TypeOK, Jobs
<1>5. ContentsAreSources
  <2>1. job = NoJob /\ \A f \in Files : repo[f] \in Sources[f] \cup {Gone}
    BY DEF Init
  <2>2. \A f \in Files : NoJob.pending[f] = Gone
    BY DEF NoJob
  <2>. QED BY <1>3, <2>1, <2>2 DEF ContentsAreSources
<1>. QED BY <1>4, <1>5 DEF TypeInv

\* Forgetting a file takes its row and all of its nodes, and nothing else.
LEMMA ForgetFacts ==
    ASSUME NEW f \in Files, files \in Contents, Forget(f)
    PROVE  /\ files' \in Contents
           /\ files'[f] = Gone
           /\ \A g \in Files : g # f => files'[g] = files[g]
           /\ nodes' \subseteq nodes
           /\ edges' \subseteq edges
           /\ \A n \in nodes' : n.kind # "external" => n.file # f
BY DEF Forget, Contents, NodesOf

\* Types are inductive, with what is pending as recorded.
LEMMA NextType == TypeInv /\ PendingIsRecorded /\ [Next]_vars => TypeInv'
<1>. SUFFICES ASSUME TypeInv, PendingIsRecorded, [Next]_vars PROVE TypeInv'
  OBVIOUS
<1>0. job \in Jobs /\ repo \in Contents /\ files \in Contents
  BY DEF TypeInv, TypeOK, Jobs
<1>a. edges \subseteq Edges /\ nodes \subseteq Nodes
  BY DEF TypeInv, TypeOK, Edges
<1>s. ASSUME repo' = repo, edits' \in Nat, crashes' \in Nat, settled' \in BOOLEAN,
             files' \in Contents, nodes' \subseteq Nodes, edges' \subseteq Edges, job' \in Jobs,
             \A f \in Files : job'.pending[f] \in Sources[f] \cup {Gone}, ModulesAgree(job'.modules)
      PROVE  TypeInv'
  BY <1>0, <1>s DEF TypeInv, TypeOK, Jobs, Edges, ContentsAreSources
<1>k. (\A f \in Files : job.pending[f] \in Sources[f] \cup {Gone}) /\ ModulesAgree(job.modules)
  BY DEF TypeInv, ContentsAreSources
<1>c. edits \in Nat /\ crashes \in Nat /\ settled \in BOOLEAN
  BY DEF TypeInv, TypeOK
<1>1. ASSUME NEW force \in BOOLEAN, Begin(force) PROVE TypeInv'
  <2>1. job' \in Jobs /\ (\A f \in Files : job'.pending[f] = Gone) /\ ModulesAgree(job'.modules)
    BY <1>1 DEF Begin, Jobs, NoJob, Steps, Contents, ModulesAgree
  <2>. QED BY <1>0, <1>a, <1>c, <1>1, <1>s, <2>1 DEF Begin, store
<1>2. ASSUME NEW f \in Files, Skip(f) PROVE TypeInv'
  <2>1. job' \in Jobs /\ job'.pending = job.pending /\ job'.modules = job.modules
    BY <1>0, <1>2 DEF Skip, Visited, Jobs
  <2>. QED BY <1>0, <1>a, <1>c, <1>k, <1>2, <1>s, <2>1 DEF Skip, store
<1>3. ASSUME NEW f \in Files, Unchanged(f) PROVE TypeInv'
  <2>1. job' \in Jobs /\ job'.pending = job.pending /\ job'.modules = job.modules
    BY <1>0, <1>a, <1>3 DEF Unchanged, Visited, Jobs, NodesOf
  <2>. QED BY <1>0, <1>a, <1>c, <1>k, <1>3, <1>s, <2>1 DEF Unchanged, store
<1>4. ASSUME NEW f \in Files, Parse(f) PROVE TypeInv'
  <2>1. repo[f] \in Content /\ repo[f] \in Sources[f]
    BY <1>0, <1>4 DEF Parse, Parses, Contents, TypeInv, ContentsAreSources
  <2>2. Registered(f, repo[f]) \subseteq Nodes
    BY <2>1, DefsType, RegisteredFacts
  <2>3. job' \in Jobs
    BY <1>0, <1>4, <2>1, <2>2 DEF Parse, Jobs, Steps, Contents
  <2>4. (\A g \in Files : job'.pending[g] \in Sources[g] \cup {Gone}) /\ ModulesAgree(job'.modules)
    BY <1>0, <1>4, <1>k, <2>1 DEF Parse, Jobs, Contents
  <2>5. files' \in Contents /\ nodes' \subseteq nodes /\ edges' \subseteq edges
    BY <1>0, <1>4, ForgetFacts DEF Parse
  <2>. QED BY <1>a, <1>c, <1>4, <1>s, <2>3, <2>4, <2>5 DEF Parse
<1>5. ASSUME NEW f \in Files, Record(f) PROVE TypeInv'
  <2>1. job' \in Jobs /\ job'.pending = job.pending /\ job'.modules = job.modules
    BY <1>0, <1>5 DEF Record, Visited, Jobs, Steps
  <2>2. files' \in Contents
    BY <1>0, <1>5 DEF Record, Contents, Jobs
  <2>. QED BY <1>a, <1>c, <1>k, <1>5, <1>s, <2>1, <2>2 DEF Record
<1>6. ASSUME NEW f \in Files, Vanish(f) PROVE TypeInv'
  <2>1. files' \in Contents /\ nodes' \subseteq nodes /\ edges' \subseteq edges
    BY <1>0, <1>6, ForgetFacts DEF Vanish
  <2>. QED BY <1>0, <1>a, <1>c, <1>k, <1>6, <1>s, <2>1 DEF Vanish
<1>7. ASSUME NEW f \in Files, AddNodes(f) PROVE TypeInv'
  <2>0. job.pending[f] \in Content /\ WellFormed(job.pending[f])
    BY <1>0, <1>k, <1>7, SourcesFacts DEF AddNodes, Running, Jobs, Contents, PendingIsRecorded, Parsed
  <2>1. job' \in Jobs /\ job'.pending = job.pending /\ job'.modules = job.modules
    BY <1>0, <1>7 DEF AddNodes, Jobs, Steps
  <2>2. nodes' \subseteq Nodes
    BY <1>a, <1>7, <2>0, ExtractedType DEF AddNodes
  <2>. QED BY <1>0, <1>a, <1>c, <1>k, <1>7, <1>s, <2>1, <2>2 DEF AddNodes
<1>8. ASSUME NEW f \in Files, AddEdges(f) PROVE TypeInv'
  <2>1. job' \in Jobs /\ job'.pending = job.pending /\ job'.modules = job.modules
    BY <1>0, <1>8 DEF AddEdges, Visited, Jobs, Steps
  <2>2. job.pending[f] \in Content /\ WellFormed(job.pending[f])
    BY <1>0, <1>k, <1>8, SourcesFacts DEF AddEdges, Running, Jobs, Contents, PendingIsRecorded, Parsed
  <2>3. job.known \subseteq Nodes
    BY <1>0 DEF Jobs
  <2>4. edges' \subseteq Edges
    BY <1>a, <1>k, <1>8, <2>2, <2>3, ResolvedType DEF AddEdges
  <2>. QED BY <1>0, <1>a, <1>c, <1>k, <1>8, <1>s, <2>1, <2>4 DEF AddEdges
<1>9. CASE Resolve
  <2>0. PICK m \in ModuleIds({f \in Files : FileNode(f) \in nodes}, Parsed) :
          job' = [job EXCEPT !.step = "nodes", !.todo = Parsed, !.modules = m]
    BY <1>9 DEF Resolve
  <2>m. ModulesAgree(m)
    BY ModuleIdsFacts DEF Parsed
  <2>1. job' \in Jobs /\ job'.pending = job.pending /\ job'.modules = m
    BY <1>0, <2>0, <2>m DEF Jobs, Steps, Parsed, ModulesAgree
  <2>. QED BY <1>0, <1>a, <1>c, <1>k, <1>9, <1>s, <2>1, <2>m DEF Resolve, store
<1>10. CASE DropOrphanExternals
  <2>1. job' \in Jobs /\ job'.pending = job.pending /\ job'.modules = job.modules
    BY <1>0, <1>10 DEF DropOrphanExternals, Goto, Jobs, Steps
  <2>. QED BY <1>0, <1>a, <1>c, <1>k, <1>10, <1>s, <2>1 DEF DropOrphanExternals
<1>11. CASE LinkTests
  <2>1. job' \in Jobs /\ job'.pending = job.pending /\ job'.modules = job.modules
    BY <1>0, <1>11 DEF LinkTests, Goto, Jobs, Steps
  <2>2. edges' \subseteq Edges
    BY <1>a, <1>11, TestEdgesType DEF LinkTests
  <2>. QED BY <1>0, <1>a, <1>c, <1>k, <1>11, <1>s, <2>1, <2>2 DEF LinkTests
<1>12. CASE Finish
  <2>1. job' \in Jobs /\ (\A f \in Files : job'.pending[f] = Gone) /\ ModulesAgree(job'.modules)
    BY <1>12 DEF Finish, Jobs, NoJob, Steps, Contents, ModulesAgree
  <2>. QED BY <1>0, <1>a, <1>c, <1>12, <1>s, <2>1 DEF Finish, store, Jobs
<1>13. CASE Crash
  <2>1. job' \in Jobs /\ (\A f \in Files : job'.pending[f] = Gone) /\ ModulesAgree(job'.modules)
    BY <1>13 DEF Crash, Jobs, NoJob, Steps, Contents, ModulesAgree
  <2>. QED BY <1>0, <1>a, <1>c, <1>13, <1>s, <2>1 DEF Crash, store
<1>14. ASSUME NEW f \in Files, NEW c \in Sources[f] \cup {Gone}, Edit(f, c) PROVE TypeInv'
  <2>1. c \in Content \cup {Gone}
    BY FilesAssumption
  <2>2. repo' \in Contents /\ \A g \in Files : repo'[g] \in Sources[g] \cup {Gone}
    BY <1>0, <1>14, <2>1 DEF Edit, Contents, TypeInv, ContentsAreSources
  <2>3. job' \in Jobs /\ job'.pending = job.pending /\ job'.modules = job.modules
    BY <1>0, <1>14 DEF Edit, Jobs
  <2>4. edits' \in Nat /\ crashes' = crashes /\ settled' = FALSE
    BY <1>c, <1>14 DEF Edit
  <2>5. files' = files /\ nodes' = nodes /\ edges' = edges
    BY <1>14 DEF Edit, store
  <2>6. TypeOK'
    BY <1>0, <1>a, <1>c, <2>2, <2>3, <2>4, <2>5 DEF TypeOK, Jobs, Edges
  <2>7. ContentsAreSources'
    BY <1>k, <2>2, <2>3 DEF ContentsAreSources
  <2>. QED BY <2>6, <2>7 DEF TypeInv
<1>15. CASE UNCHANGED vars
  BY <1>15 DEF vars, store, TypeInv, TypeOK, ContentsAreSources
<1>. QED BY <1>1, <1>2, <1>3, <1>4, <1>5, <1>6, <1>7, <1>8, <1>9, <1>10, <1>11, <1>12, <1>13,
            <1>14, <1>15 DEF Next
----------------------------------------------------------------------------
(* Records and nodes.                                                      *)

\* The nodes that a file's content yields are nodes of that file.
LEMMA ExtractedFacts ==
    ASSUME NEW f \in Files, NEW c
    PROVE  \A n \in Extracted(f, c) : n.kind # "external" => n.file = f
BY DEF Extracted, DefsOf, DefNode, FileNode, ExternalNode, Node

\* Only the ingest of a file touches its row, and forgets its nodes first.
LEMMA InitRecord == Init => PendingIsRecorded /\ NodesMatchRecord
BY DEF Init, PendingIsRecorded, NodesMatchRecord, NoJob

\* So is the agreement of nodes and what is pending with the files' rows.
LEMMA NextRecord == Inv /\ [Next]_vars => PendingIsRecorded' /\ NodesMatchRecord'
<1>. SUFFICES ASSUME Inv, [Next]_vars PROVE PendingIsRecorded' /\ NodesMatchRecord'
  OBVIOUS
<1>0. job \in Jobs /\ files \in Contents /\ repo \in Contents
  BY DEF Inv, TypeInv, TypeOK, Jobs
<1>a. PendingIsRecorded /\ NodesMatchRecord
  BY DEF Inv
<1>b. ASSUME UNCHANGED <<files, nodes>> PROVE NodesMatchRecord'
  BY <1>a, <1>b DEF NodesMatchRecord
<1>1. ASSUME NEW force \in BOOLEAN, Begin(force) PROVE PendingIsRecorded' /\ NodesMatchRecord'
  BY <1>1, <1>b DEF Begin, PendingIsRecorded, NoJob, Parsed, store
<1>2. ASSUME NEW f \in Files, Skip(f) PROVE PendingIsRecorded' /\ NodesMatchRecord'
  BY <1>0, <1>a, <1>2, <1>b DEF Skip, Running, Visited, Jobs, PendingIsRecorded, Parsed, store
<1>3. ASSUME NEW f \in Files, Unchanged(f) PROVE PendingIsRecorded' /\ NodesMatchRecord'
  BY <1>0, <1>a, <1>3, <1>b DEF Unchanged, Running, Visited, Jobs, PendingIsRecorded, Parsed, store
<1>4. ASSUME NEW f \in Files, Parse(f) PROVE PendingIsRecorded' /\ NodesMatchRecord'
  <2>1. /\ files'[f] = Gone
        /\ \A g \in Files : g # f => files'[g] = files[g]
        /\ nodes' \subseteq nodes
        /\ \A n \in nodes' : n.kind # "external" => n.file # f
    BY <1>0, <1>4, ForgetFacts DEF Parse
  <2>2. NodesMatchRecord'
    BY <1>0, <1>a, <2>1 DEF NodesMatchRecord, Contents
  <2>3. PendingIsRecorded'
    BY <1>0, <1>a, <1>4, <2>1 DEF Parse, Parses, Running, Jobs, Contents, PendingIsRecorded, Parsed
  <2>. QED BY <2>2, <2>3
<1>5. ASSUME NEW f \in Files, Record(f) PROVE PendingIsRecorded' /\ NodesMatchRecord'
  <2>1. files[f] = Gone /\ files'[f] = job.pending[f] /\ \A g \in Files : g # f => files'[g] = files[g]
    BY <1>0, <1>a, <1>5 DEF Record, Running, Contents, PendingIsRecorded
  <2>2. NodesMatchRecord'
    BY <1>0, <1>a, <1>5, <2>1 DEF Record, NodesMatchRecord, Contents
  <2>3. PendingIsRecorded'
    BY <1>0, <1>a, <1>5, <2>1 DEF Record, Running, Visited, Jobs, PendingIsRecorded, Parsed
  <2>. QED BY <2>2, <2>3
<1>6. ASSUME NEW f \in Files, Vanish(f) PROVE PendingIsRecorded' /\ NodesMatchRecord'
  <2>1. /\ files'[f] = Gone
        /\ \A g \in Files : g # f => files'[g] = files[g]
        /\ nodes' \subseteq nodes
        /\ \A n \in nodes' : n.kind # "external" => n.file # f
    BY <1>0, <1>6, ForgetFacts DEF Vanish
  <2>2. NodesMatchRecord'
    BY <1>0, <1>a, <2>1 DEF NodesMatchRecord, Contents
  <2>3. PendingIsRecorded'
    BY <1>a, <1>6, <2>1 DEF Vanish, Running, PendingIsRecorded, Parsed
  <2>. QED BY <2>2, <2>3
<1>7. ASSUME NEW f \in Files, AddNodes(f) PROVE PendingIsRecorded' /\ NodesMatchRecord'
  <2>1. f \in Parsed /\ files[f] = job.pending[f] /\ files[f] # Gone
    BY <1>a, <1>7 DEF AddNodes, Running, PendingIsRecorded, Parsed
  <2>2. NodesMatchRecord'
    BY <1>a, <1>7, <2>1, ExtractedFacts DEF AddNodes, NodesMatchRecord
  <2>3. PendingIsRecorded'
    BY <1>0, <1>a, <1>7, <2>1 DEF AddNodes, Running, Jobs, PendingIsRecorded, Parsed
  <2>. QED BY <2>2, <2>3
<1>8. ASSUME NEW f \in Files, AddEdges(f) PROVE PendingIsRecorded' /\ NodesMatchRecord'
  BY <1>0, <1>a, <1>8, <1>b DEF AddEdges, Running, Visited, Jobs, PendingIsRecorded, Parsed
<1>9. CASE Resolve
  BY <1>0, <1>a, <1>9, <1>b DEF Resolve, Running, Jobs, PendingIsRecorded, Parsed, store
<1>10. CASE DropOrphanExternals
  <2>1. NodesMatchRecord'
    BY <1>a, <1>10 DEF DropOrphanExternals, NodesMatchRecord
  <2>. QED BY <1>0, <1>a, <1>10, <2>1 DEF DropOrphanExternals, Running, Goto, Jobs, PendingIsRecorded, Parsed
<1>11. CASE LinkTests
  BY <1>0, <1>a, <1>11, <1>b DEF LinkTests, Running, Goto, Jobs, PendingIsRecorded, Parsed
<1>12. CASE Finish
  BY <1>12, <1>b DEF Finish, PendingIsRecorded, NoJob, Parsed, store
<1>13. CASE Crash
  BY <1>13, <1>b DEF Crash, PendingIsRecorded, NoJob, Parsed, store
<1>14. ASSUME NEW f \in Files, NEW c, Edit(f, c) PROVE PendingIsRecorded' /\ NodesMatchRecord'
  BY <1>0, <1>a, <1>14, <1>b DEF Edit, Jobs, PendingIsRecorded, Parsed, store
<1>15. CASE UNCHANGED vars
  BY <1>a, <1>15, <1>b DEF vars, store, PendingIsRecorded, Parsed
<1>. QED BY <1>1, <1>2, <1>3, <1>4, <1>5, <1>6, <1>7, <1>8, <1>9, <1>10, <1>11, <1>12, <1>13,
            <1>14, <1>15 DEF Next

\* The inductive invariant holds in every reachable state.
LEMMA SpecInv == Spec => []Inv
<1>1. Init => Inv
  BY InitType, InitRecord DEF Inv
<1>2. Inv /\ [Next]_vars => Inv'
  BY NextType, NextRecord DEF Inv
<1>. QED BY <1>1, <1>2, PTL DEF Spec

\* Every table of the graph and every field of a running ingest has its type.
THEOREM GraphTypeCorrect == Spec => []TypeOK
<1>1. Inv => TypeOK
  BY DEF Inv, TypeInv
<1>. QED BY <1>1, SpecInv, PTL

\* No node outlives the definition it was made from: nodes with a path are
\* those of the content recorded for the path, at every moment.
THEOREM NodesAreRecorded == Spec => []NodesMatchRecord
<1>1. Inv => NodesMatchRecord
  BY DEF Inv
<1>. QED BY <1>1, SpecInv, PTL
----------------------------------------------------------------------------
(* Verdicts.                                                               *)


\* What an edge of a use or of an import says, a content says.
BackedUse(e, c) ==
    \E u \in c.uses :
        u.kind = e.kind /\ NameOf(u.by) = NameOf(e.source) /\ NameOf(e.target) \in Sought(c, u)
BackedImport(e, c) ==
    e.target.kind = "file" => \E i \in ToSet(c.imports) : ModuleOf[e.target.file] \in Tried(i)

Backed(e, c) == IF e.kind = "imports" THEN BackedImport(e, c) ELSE BackedUse(e, c)

\* A use or import starts at a node that is there, and is one of that node's
\* file; the second pass writes the nodes of a file before its edges.
Claims == {"calls", "inherits", "imports"}
EdgesMatchRecord ==
    /\ \A e \in edges : e.kind \in Claims =>
        e.source \in nodes /\ e.source.kind # "external" /\ Backed(e, files[e.source.file])
    /\ job.step = "edges" =>
        {FileNode(job.now)} \cup DefsOf(job.now, job.pending[job.now]) \subseteq nodes
----------------------------------------------------------------------------
(* The edges.                                                              *)

\* What a file contributes: uses of the names in its content, from what it
\* defines, and its imports.
LEMMA ResolvedFacts ==
    ASSUME NEW f \in Files, NEW c \in Content, WellFormed(c), NEW K, NEW m, ModulesAgree(m),
           NEW e \in Resolved(f, c, K, m), e.kind \in Claims
    PROVE  /\ e.source \in {FileNode(f)} \cup DefsOf(f, c)
           /\ e.source.kind # "external" /\ e.source.file = f
           /\ Backed(e, c)
<1>1. CASE \E u \in c.uses : e = UseEdge(f, c, u, K)
  <2>1. PICK u \in c.uses : e = UseEdge(f, c, u, K)
    BY <1>1
  <2>2. e.kind = u.kind /\ e.source = DefNode(f, u.by) /\ e.target = Callee(f, c, u.raw, K)
    BY <2>1 DEF UseEdge, Edge
  <2>3. NameOf(e.target) \in Sought(c, u)
    BY <2>2, CalleeFacts
  <2>4. NameOf(e.source) = NameOf(u.by)
    BY <2>2 DEF NameOf, DefNode, Node
  <2>5. /\ e.source \in DefsOf(f, c) /\ e.source.kind # "external" /\ e.source.file = f
    BY <2>2 DEF DefsOf, DefNode, Node, WellFormed
  <2>6. e.kind # "imports"
    BY <2>2, ContentFacts DEF Uses
  <2>7. BackedUse(e, c)
    BY <2>2, <2>3, <2>4 DEF BackedUse
  <2>. QED BY <2>5, <2>6, <2>7 DEF Backed
<1>2. CASE \E i \in ToSet(c.imports) : e = ImportEdge(f, i, m)
  <2>1. PICK i \in ToSet(c.imports) : e = ImportEdge(f, i, m)
    BY <1>2
  <2>2. e.kind = "imports" /\ e.source = FileNode(f) /\ e.target = Imported(i, m)
    BY <2>1 DEF Edge, ImportEdge
  <2>3. CASE e.target = ExternalNode(Module(i))
    BY <2>2, <2>3 DEF Backed, BackedImport, ExternalNode, FileNode, Node
  <2>4. CASE \E g \in Files : e.target = FileNode(g) /\ ModuleOf[g] \in Tried(i)
    BY <2>2, <2>4 DEF Backed, BackedImport, FileNode, Node
  <2>. QED BY <2>2, <2>3, <2>4, ImportedFacts
<1>3. CASE e \in Contained(f, c)
  BY <1>3 DEF Contained, Edge, Claims
<1>. QED BY <1>1, <1>2, <1>3 DEF Resolved

\* Forgetting a file leaves the edges of other files, with their nodes and rows.
LEMMA ForgetKeepsEdges ==
    ASSUME Inv, EdgesMatchRecord, NEW f \in Files, Forget(f), job'.step # "edges"
    PROVE  EdgesMatchRecord'
<1>1. SUFFICES ASSUME NEW e \in edges', e.kind \in Claims
      PROVE  e.source \in nodes' /\ e.source.kind # "external" /\ Backed(e, files'[e.source.file])
  BY DEF EdgesMatchRecord
<1>2. e \in edges /\ e.source \notin NodesOf(f)
  BY <1>1 DEF Forget, Touches
<1>3. e.source \in nodes /\ e.source.kind # "external"
  BY <1>1, <1>2 DEF EdgesMatchRecord
<1>4. e.source.file # f /\ e.source.file \in Files
  BY <1>2, <1>3 DEF NodesOf, Inv, NodesMatchRecord
<1>5. e.source \in nodes' /\ files'[e.source.file] = files[e.source.file]
  BY <1>2, <1>3, <1>4 DEF Forget, Inv, TypeInv, TypeOK, Contents
<1>. QED BY <1>1, <1>2, <1>3, <1>5 DEF EdgesMatchRecord

\* The graph has no edges at first.
LEMMA InitEdges == Init => EdgesMatchRecord
BY DEF Init, EdgesMatchRecord, NoJob

\* Edges are written and removed with the record of their file.
LEMMA NextEdges == Inv /\ EdgesMatchRecord /\ [Next]_vars => EdgesMatchRecord'
<1>. SUFFICES ASSUME Inv, EdgesMatchRecord, [Next]_vars PROVE EdgesMatchRecord'
  OBVIOUS
<1>0. job \in Jobs /\ files \in Contents
  BY DEF Inv, TypeInv, TypeOK, Jobs
<1>s. ASSUME UNCHANGED store, job'.step # "edges" PROVE EdgesMatchRecord'
  BY <1>s DEF EdgesMatchRecord, store
<1>1. ASSUME NEW force \in BOOLEAN, Begin(force) PROVE EdgesMatchRecord'
  BY <1>1, <1>s DEF Begin, NoJob
<1>2. ASSUME NEW f \in Files, Skip(f) PROVE EdgesMatchRecord'
  BY <1>0, <1>2, <1>s DEF Skip, Running, Visited, Jobs
<1>3. ASSUME NEW f \in Files, Unchanged(f) PROVE EdgesMatchRecord'
  BY <1>0, <1>3, <1>s DEF Unchanged, Running, Visited, Jobs
<1>4. ASSUME NEW f \in Files, Parse(f) PROVE EdgesMatchRecord'
  BY <1>0, <1>4, ForgetKeepsEdges DEF Parse, Jobs
<1>5. ASSUME NEW f \in Files, Record(f) PROVE EdgesMatchRecord'
  <2>1. files[f] = Gone /\ \A g \in Files : g # f => files'[g] = files[g]
    BY <1>0, <1>5 DEF Record, Running, Contents, Inv, PendingIsRecorded
  <2>2. \A n \in nodes : n.kind # "external" => n.file \in Files /\ n.file # f
    BY <2>1 DEF Inv, NodesMatchRecord
  <2>3. job'.step # "edges" /\ nodes' = nodes /\ edges' = edges
    BY <1>0, <1>5 DEF Record, Visited, Jobs
  <2>. QED BY <2>1, <2>2, <2>3 DEF EdgesMatchRecord
<1>6. ASSUME NEW f \in Files, Vanish(f) PROVE EdgesMatchRecord'
  BY <1>6, ForgetKeepsEdges DEF Vanish, Running
<1>7. ASSUME NEW f \in Files, AddNodes(f) PROVE EdgesMatchRecord'
  <2>1. /\ nodes' = nodes \cup Extracted(f, job.pending[f])
        /\ files' = files /\ edges' = edges
        /\ job'.now = f /\ job'.pending = job.pending
    BY <1>0, <1>7 DEF AddNodes, Jobs
  <2>. QED BY <2>1 DEF EdgesMatchRecord, Extracted
<1>8. ASSUME NEW f \in Files, AddEdges(f) PROVE EdgesMatchRecord'
  <2>1. job.step = "edges" /\ f = job.now
    BY <1>8 DEF AddEdges, Running
  <2>2. files[f] = job.pending[f] /\ job.pending[f] \in Sources[f]
    BY <2>1 DEF Inv, TypeInv, ContentsAreSources, PendingIsRecorded, Parsed
  <2>3. job.pending[f] \in Content /\ WellFormed(job.pending[f]) /\ ModulesAgree(job.modules)
    BY <2>2, SourcesFacts DEF Inv, TypeInv, ContentsAreSources
  <2>4. \A e \in Resolved(f, job.pending[f], job.known, job.modules) : e.kind \in Claims =>
            e.source \in nodes /\ e.source.kind # "external" /\ Backed(e, files[e.source.file])
    BY <2>1, <2>2, <2>3, ResolvedFacts DEF EdgesMatchRecord
  <2>5. job'.step # "edges" /\ nodes' = nodes /\ files' = files
        /\ edges' = edges \cup Resolved(f, job.pending[f], job.known, job.modules)
    BY <1>0, <1>8 DEF AddEdges, Visited, Jobs
  <2>. QED BY <2>4, <2>5 DEF EdgesMatchRecord
<1>9. CASE Resolve
  BY <1>0, <1>9, <1>s DEF Resolve, Jobs
<1>10. CASE DropOrphanExternals
  <2>1. \A n \in nodes : n.kind # "external" => n \in nodes'
    BY <1>10 DEF DropOrphanExternals
  <2>2. job'.step # "edges" /\ edges' = edges /\ files' = files
    BY <1>0, <1>10 DEF DropOrphanExternals, Goto, Jobs
  <2>. QED BY <2>1, <2>2 DEF EdgesMatchRecord
<1>11. CASE LinkTests
  <2>1. \A e \in edges' : e.kind \in Claims => e \in edges
    BY <1>11 DEF LinkTests, TestEdges, Edge, Claims
  <2>2. job'.step # "edges" /\ nodes' = nodes /\ files' = files
    BY <1>0, <1>11 DEF LinkTests, Goto, Jobs
  <2>. QED BY <2>1, <2>2 DEF EdgesMatchRecord
<1>12. CASE Finish
  BY <1>12, <1>s DEF Finish, NoJob
<1>13. CASE Crash
  BY <1>13, <1>s DEF Crash, NoJob
<1>14. ASSUME NEW f \in Files, NEW c, Edit(f, c) PROVE EdgesMatchRecord'
  <2>1. job'.step = job.step /\ job'.now = job.now /\ job'.pending = job.pending
    BY <1>0, <1>14 DEF Edit, Jobs
  <2>. QED BY <1>14, <2>1 DEF Edit, store, EdgesMatchRecord
<1>15. CASE UNCHANGED vars
  BY <1>15 DEF vars, store, EdgesMatchRecord
<1>. QED BY <1>1, <1>2, <1>3, <1>4, <1>5, <1>6, <1>7, <1>8, <1>9, <1>10, <1>11, <1>12, <1>13,
            <1>14, <1>15 DEF Next

\* The edges are as recorded in every reachable state.
LEMMA EdgesInvariant == Spec => []EdgesMatchRecord
BY SpecInv, InitEdges, NextEdges, PTL DEF Spec
----------------------------------------------------------------------------
(* The verdicts.                                                           *)

\* An import that a query finds is one of the importing file as recorded.
LEMMA ImportsAreRecorded ==
    ASSUME Inv, EdgesMatchRecord, NEW f \in Files, NEW g \in Files,
           FileNode(g) \in Outward(FileNode(f), "imports")
    PROVE  \E i \in ImportsOf(f, files) : ModuleOf[g] \in Tried(i)
<1>1. PICK e \in edges : e.kind = "imports" /\ e.source = FileNode(f) /\ e.target = FileNode(g)
  BY DEF Outward
<1>2. FileNode(f) \in nodes /\ Backed(e, files[f])
  BY <1>1 DEF EdgesMatchRecord, Claims, FileNode, Node
<1>3. BackedImport(e, files[f])
  BY <1>1, <1>2 DEF Backed
<1>4. e.target.kind = "file" /\ e.target.file = g
  BY <1>1 DEF FileNode, Node
<1>5. files[f] # Gone
  BY <1>2 DEF FileNode, Node, Inv, NodesMatchRecord
<1>. QED BY <1>3, <1>4, <1>5 DEF BackedImport, ImportsOf

\* A use of one name by another stands in a file as recorded.
Stands(n, m, kind) ==
    \E f \in Files : \E u \in UsesOf(f, files) :
        u.kind = kind /\ NameOf(u.by) = n /\ m \in Sought(files[f], u)

\* So is a use of a name that the graph has.
LEMMA UsesAreRecorded ==
    ASSUME Inv, EdgesMatchRecord, NEW n \in Names, NEW m \in Names, NEW kind \in {"calls", "inherits"},
           Named(<<n>>) # {}, Named(<<m>>) # {}, Linked(<<n>>, <<m>>, kind)
    PROVE  Stands(n, m, kind)
<1>1. Define(<<n>>) = Named(<<n>>) /\ Define(<<m>>) = Named(<<m>>)
  BY DEF Define
<1>2. PICK d \in Named(<<n>>) : Outward(d, kind) \cap Named(<<m>>) # {}
  BY <1>1 DEF Linked
<1>3. PICK e \in edges : e.kind = kind /\ e.source = d /\ e.target \in Named(<<m>>)
  BY <1>2 DEF Outward
<1>4. d \in nodes /\ d.kind # "external" /\ Backed(e, files[d.file])
  BY <1>3 DEF EdgesMatchRecord, Claims, Named
<1>5. d.file \in Files /\ files[d.file] # Gone
  BY <1>4 DEF Inv, NodesMatchRecord
<1>6. <<NameOf(e.source)>> = <<n>> /\ <<NameOf(e.target)>> = <<m>>
  BY <1>3 DEF Named, NameOf
<1>7. NameOf(e.source) = n /\ NameOf(e.target) = m
  BY <1>6
<1>8. PICK u \in files[d.file].uses :
        u.kind = kind /\ NameOf(u.by) = n /\ m \in Sought(files[d.file], u)
  BY <1>3, <1>4, <1>7 DEF Backed, BackedUse
<1>9. UsesOf(d.file, files) = files[d.file].uses
  BY <1>5 DEF UsesOf
<1>. QED BY <1>5, <1>8, <1>9, Zenon DEF Stands

\* A claim is confirmed, and a breach of the layering reported, only if what it says,
\* or what its names were imported for, stands in a file as recorded
\* (check_symbol_relation, check_architecture).
THEOREM VerdictsStayBacked == Spec => []VerdictsAreBacked
<1>1. Inv /\ EdgesMatchRecord => VerdictsAreBacked
  <2>. SUFFICES ASSUME Inv, EdgesMatchRecord PROVE VerdictsAreBacked
    OBVIOUS
  <2>1. ASSUME NEW n \in Names, NEW m \in Names, NEW kind \in {"calls", "inherits"},
               Named(<<n>>) # {}, Named(<<m>>) # {},
               SymbolRelation(Relation(<<n>>, <<m>>, kind, FALSE)) = "supported"
        PROVE  Stands(n, m, kind)
    <3>1. DefinedRelation(<<n>>, <<m>>, kind) = "supported"
      BY <2>1 DEF SymbolRelation, Judged, Relation
    <3>2. Linked(<<n>>, <<m>>, kind)
      BY <3>1 DEF DefinedRelation
    <3>. QED BY <2>1, <3>2, UsesAreRecorded
  <2>2. ASSUME NEW f \in Files, NEW g \in Files,
               SymbolRelation(Relation(f, g, "imports", FALSE)) = "supported"
        PROVE  FileNode(g) \in Outward(FileNode(f), "imports")
    <3>1. FileImports(f, g) = "supported"
      BY <2>2 DEF SymbolRelation, Judged, Relation
    <3>. QED BY <3>1 DEF FileImports
  <2>3. ASSUME NEW f \in Files, NEW g \in Files, <<f, g>> \in ArchitectureFindings
        PROVE  FileNode(g) \in Outward(FileNode(f), "imports")
    BY <2>3 DEF ArchitectureFindings
  <2>4. ASSUME NEW f \in Files, NEW g \in Files,
               SymbolRelation(Relation(f, g, "imports", FALSE)) = "supported" \/ <<f, g>> \in ArchitectureFindings
        PROVE  \E i \in ImportsOf(f, files) : ModuleOf[g] \in Tried(i)
    BY <2>2, <2>3, <2>4, ImportsAreRecorded
  <2>. QED BY <2>1, <2>4 DEF VerdictsAreBacked, Stands
<1>. QED BY <1>1, EdgesInvariant, SpecInv, PTL
----------------------------------------------------------------------------
(* What an ingest that nothing disturbs has done at each of its steps.     *)

\* Every edge is one of a file, by a node of the file at one of its ends: what
\* contains a function may itself be a function, which is looked for as a class.
Anchored(e, N) ==
    /\ e.source.kind # "external"
    /\ \/ e.source \in N
       \/ e.target \in N /\ e.target.kind # "external" /\ e.target.file = e.source.file
SourcesAreThere == \A e \in edges : Anchored(e, nodes) /\ e.source.file \in Files

\* The edges that a file contributes start at its own nodes, or lead to them, and
\* are none of tests.
LEMMA ResolvedSources ==
    ASSUME NEW f \in Files, NEW c \in Content, WellFormed(c), NEW K, NEW m, NEW e \in Resolved(f, c, K, m)
    PROVE  /\ Anchored(e, {FileNode(f)} \cup DefsOf(f, c))
           /\ e.source.file = f
           /\ e.kind # "tests"
<1>1. CASE \E u \in c.uses : e = UseEdge(f, c, u, K)
  <2>1. PICK u \in c.uses : e = UseEdge(f, c, u, K)
    BY <1>1
  <2>2. e.source = DefNode(f, u.by) /\ e.kind = u.kind /\ u.kind # "tests"
    BY <2>1, ContentFacts DEF UseEdge, Edge, Uses
  <2>. QED BY <2>2 DEF DefsOf, DefNode, Node, WellFormed, Anchored
<1>2. CASE \E i \in ToSet(c.imports) : e = ImportEdge(f, i, m)
  BY <1>2 DEF Edge, ImportEdge, FileNode, Node, Anchored
<1>3. CASE e \in Contained(f, c)
  <2>1. PICK d \in ToSet(c.defs) : e = Edge("contains", Container(f, d), DefNode(f, d))
    BY <1>3 DEF Contained
  <2>2. e.kind = "contains" /\ e.source = Container(f, d) /\ e.target = DefNode(f, d)
    BY <2>1 DEF Edge
  <2>3. Container(f, d).file = f /\ Container(f, d).kind # "external"
    BY DEF Container, FileNode, Node
  <2>4. DefNode(f, d).file = f /\ DefNode(f, d) \in DefsOf(f, c) /\ DefNode(f, d).kind # "external"
    BY DEF DefNode, Node, DefsOf
  <2>. QED BY <2>2, <2>3, <2>4 DEF Anchored
<1>. QED BY <1>1, <1>2, <1>3 DEF Resolved

\* What the second pass writes for a file.
LEMMA WritesFacts ==
    ASSUME Inv, NEW f \in Files, AddEdges(f)
    PROVE  /\ f = job.now /\ f \in Parsed /\ files[f] = job.pending[f]
           /\ job.pending[f] \in Content /\ WellFormed(job.pending[f]) /\ ModulesAgree(job.modules)
           /\ edges' = edges \cup Resolved(f, job.pending[f], job.known, job.modules)
<1>1. job.step = "edges" /\ f = job.now
  BY DEF AddEdges, Running
<1>2. f \in Parsed /\ files[f] = job.pending[f] /\ job.pending[f] \in Sources[f]
  BY <1>1 DEF Inv, TypeInv, ContentsAreSources, PendingIsRecorded, Parsed
<1>3. job.pending[f] \in Content /\ WellFormed(job.pending[f]) /\ ModulesAgree(job.modules)
  BY <1>2, SourcesFacts DEF Inv, TypeInv, ContentsAreSources
<1>. QED BY <1>1, <1>2, <1>3 DEF AddEdges

\* The edges it writes are those of the file, and none of tests.
LEMMA WrittenSources ==
    ASSUME Inv, NEW f \in Files, AddEdges(f),
           NEW e \in Resolved(f, job.pending[f], job.known, job.modules)
    PROVE  /\ Anchored(e, {FileNode(f)} \cup DefsOf(f, job.pending[f]))
           /\ e.source.file = f /\ e.kind # "tests"
<1>. DEFINE c == job.pending[f]
<1>1. c \in Content /\ WellFormed(c) /\ e \in Resolved(f, c, job.known, job.modules)
  BY WritesFacts
<1>. HIDE DEF c
<1>2. /\ Anchored(e, {FileNode(f)} \cup DefsOf(f, c))
      /\ e.source.file = f /\ e.kind # "tests"
  BY <1>1, ResolvedSources
<1>. QED BY <1>2 DEF c

\* The steps that change the nodes or the edges.
LEMMA GraphMoves ==
    ASSUME [Next]_vars
    PROVE  \/ \E f \in Files : Forget(f) \/ AddNodes(f) \/ AddEdges(f)
           \/ DropOrphanExternals \/ LinkTests
           \/ nodes' = nodes /\ edges' = edges
<1>1. CASE \E force \in BOOLEAN : Begin(force)
  BY <1>1 DEF Begin, store
<1>2. ASSUME NEW f \in Files, Skip(f) \/ Unchanged(f) \/ Record(f) PROVE nodes' = nodes /\ edges' = edges
  BY <1>2 DEF Skip, Unchanged, Record, store
<1>3. ASSUME NEW f \in Files, Parse(f) \/ Vanish(f) PROVE Forget(f)
  BY <1>3 DEF Parse, Vanish
<1>4. CASE Resolve \/ Finish \/ Crash
  BY <1>4 DEF Resolve, Finish, Crash, store
<1>5. ASSUME NEW f, NEW c, Edit(f, c) PROVE nodes' = nodes /\ edges' = edges
  BY <1>5 DEF Edit, store
<1>6. CASE UNCHANGED vars
  BY <1>6 DEF vars, store
<1>. QED BY <1>1, <1>2, <1>3, <1>4, <1>5, <1>6 DEF Next

\* Edges go with their nodes, and come after them.
LEMMA SourcesNext == Inv /\ EdgesMatchRecord /\ SourcesAreThere /\ [Next]_vars => SourcesAreThere'
<1>. SUFFICES ASSUME Inv, EdgesMatchRecord, SourcesAreThere, [Next]_vars PROVE SourcesAreThere'
  OBVIOUS
<1>1. ASSUME nodes' = nodes, edges' = edges PROVE SourcesAreThere'
  BY <1>1 DEF SourcesAreThere
<1>2. ASSUME NEW f \in Files, Forget(f) PROVE SourcesAreThere'
  BY <1>2 DEF SourcesAreThere, Forget, Touches, Anchored
<1>3. ASSUME NEW f \in Files, AddNodes(f) PROVE SourcesAreThere'
  BY <1>3 DEF SourcesAreThere, AddNodes, Anchored
<1>4. ASSUME NEW f \in Files, AddEdges(f) PROVE SourcesAreThere'
  <2>1. \A e \in Resolved(f, job.pending[f], job.known, job.modules) :
            Anchored(e, {FileNode(f)} \cup DefsOf(f, job.pending[f])) /\ e.source.file = f
    BY <1>4, WrittenSources
  <2>2. {FileNode(f)} \cup DefsOf(f, job.pending[f]) \subseteq nodes
    BY <1>4 DEF AddEdges, Running, EdgesMatchRecord
  <2>3. nodes' = nodes
    BY <1>4 DEF AddEdges
  <2>4. \A e \in Resolved(f, job.pending[f], job.known, job.modules) : Anchored(e, nodes) /\ e.source.file = f
    BY <2>1, <2>2 DEF Anchored
  <2>. QED BY <1>4, <2>3, <2>4, WritesFacts DEF SourcesAreThere
<1>5. CASE DropOrphanExternals
  <2>1. edges' = edges /\ \A n \in nodes : n.kind # "external" => n \in nodes'
    BY <1>5 DEF DropOrphanExternals
  <2>2. ASSUME NEW e \in edges PROVE Anchored(e, nodes')
    <3>1. Anchored(e, nodes)
      BY DEF SourcesAreThere
    <3>. QED BY <2>1, <3>1 DEF Anchored
  <2>. QED BY <2>1, <2>2 DEF SourcesAreThere
<1>6. CASE LinkTests
  <2>1. \A e \in TestEdges(nodes, edges) : \E d \in edges : e.source = d.source /\ e.source \in nodes
    BY DEF TestEdges, Edge
  <2>2. \A e \in TestEdges(nodes, edges) : Anchored(e, nodes) /\ e.source.file \in Files
    BY <2>1 DEF SourcesAreThere, Anchored
  <2>. QED BY <1>6, <2>2 DEF SourcesAreThere, LinkTests
<1>. QED BY <1>1, <1>2, <1>3, <1>4, <1>5, <1>6, GraphMoves

\* So every edge is anchored at a node that is there.
LEMMA SourcesInvariant == Spec => []SourcesAreThere
<1>1. Init => SourcesAreThere
  BY DEF Init, SourcesAreThere
<1>. QED BY <1>1, SourcesNext, SpecInv, EdgesInvariant, PTL DEF Spec

\* The graph agrees with the repository: every sound file is recorded as it is,
\* and no file that is gone.
Current == \A f \in Sound(repo) : files[f] = repo[f]
Present == \A f \in Files : files[f] # Gone => repo[f] # Gone

\* What the last two steps of an ingest see to.
NoOrphans == \A n \in nodes : n.kind = "external" => \E e \in edges : e.target = n
TestsLinked == TestEdges(nodes, edges) \subseteq edges

\* An ingest under way that no edit has disturbed, in its first pass or after it.
Calm == job.step # "none" /\ job.quiet
Walking == job.step \in {"walk", "record"}
Walked == job.step \in {"nodes", "edges", "link", "done"}

\* It has walked the repository as it is, and recorded what it has visited.
WalkInv ==
    Calm =>
        /\ job.seen = {f \in Files : repo[f] # Gone}
        /\ \A f \in Parsed : f \in Sound(repo) /\ job.pending[f] = repo[f]
        /\ job.step = "walk" => Parsed \cap job.todo = {}
        /\ job.step = "record" => job.now \in job.todo /\ \A f \in Parsed \cap job.todo : f = job.now
        /\ Walking => \A f \in Sound(repo) \ job.todo :
                         files[f] = repo[f] /\ (job.force => f \in Parsed)
        /\ Walked => Current /\ Present /\ (job.force => Sound(repo) \subseteq Parsed)
        /\ job.step \in {"link", "done"} => job.todo = {} /\ NoOrphans
        /\ job.step = "done" => TestsLinked

\* How the second pass starts.
LEMMA ResolveFacts ==
    ASSUME Inv, Resolve
    PROVE  /\ job.step = "walk" /\ job.todo = {} /\ repo' = repo /\ settled' = settled
           /\ files' = files /\ nodes' = nodes /\ edges' = edges
           /\ \A f \in Files : files[f] # Gone => f \in job.seen
           /\ job'.step = "nodes" /\ job'.pending = job.pending /\ job'.todo = Parsed
           /\ job'.known = job.known
           /\ job'.modules \in ModuleIds({f \in Files : FileNode(f) \in nodes}, Parsed)
           /\ job'.quiet = job.quiet /\ job'.seen = job.seen /\ job'.force = job.force
<1>0. job \in Jobs
  BY DEF Inv, TypeInv, TypeOK, Jobs
<1>1. PICK m \in ModuleIds({f \in Files : FileNode(f) \in nodes}, Parsed) :
        job' = [job EXCEPT !.step = "nodes", !.todo = Parsed, !.modules = m]
  BY DEF Resolve
<1>2. /\ job'.step = "nodes" /\ job'.pending = job.pending /\ job'.todo = Parsed
      /\ job'.known = job.known /\ job'.modules = m
      /\ job'.quiet = job.quiet /\ job'.seen = job.seen /\ job'.force = job.force
  BY <1>0, <1>1 DEF Jobs
<1>. QED BY <1>2 DEF Resolve, Running, store

\* Each step of an ingest keeps it.
LEMMA WalkNext == Inv /\ WalkInv /\ [Next]_vars => WalkInv'
<1>. SUFFICES ASSUME Inv, WalkInv, [Next]_vars, Calm' PROVE WalkInv'
  BY DEF WalkInv
<1>0. job \in Jobs /\ files \in Contents /\ repo \in Contents
  BY DEF Inv, TypeInv, TypeOK, Jobs
<1>f. \A f \in Sound(repo) : f \in Files /\ repo[f] # Gone
  BY DEF Sound
<1>1. ASSUME NEW force \in BOOLEAN, Begin(force) PROVE WalkInv'
  <2>1. /\ job'.step = "walk" /\ repo' = repo /\ job'.seen = {f \in Files : repo[f] # Gone}
        /\ job'.todo = job'.seen /\ \A f \in Files : job'.pending[f] = Gone
    BY <1>1 DEF Begin, NoJob
  <2>. QED BY <1>f, <2>1 DEF WalkInv, Walking, Walked, Parsed
<1>2. ASSUME NEW f \in Files, Skip(f) PROVE WalkInv'
  <2>1. /\ job.step = "walk" /\ f \notin Sound(repo) /\ repo' = repo /\ files' = files
        /\ job' = [job EXCEPT !.todo = @ \ {f}]
    BY <1>2 DEF Skip, Running, Visited, Parses, Sound, store
  <2>. QED BY <1>0, <2>1 DEF WalkInv, Walking, Walked, Parsed, Calm, Jobs
<1>3. ASSUME NEW f \in Files, Unchanged(f) PROVE WalkInv'
  <2>1. /\ job.step = "walk" /\ repo' = repo /\ files' = files /\ ~job.force /\ files[f] = repo[f]
        /\ job'.step = "walk" /\ job'.todo = job.todo \ {f} /\ job'.pending = job.pending
        /\ job'.quiet = job.quiet /\ job'.seen = job.seen /\ job'.force = job.force
    BY <1>0, <1>3 DEF Unchanged, Running, Visited, store, Jobs
  <2>. QED BY <1>0, <2>1 DEF WalkInv, Walking, Walked, Parsed, Calm
<1>4. ASSUME NEW f \in Files, Parse(f) PROVE WalkInv'
  <2>1. /\ job.step = "walk" /\ repo' = repo /\ f \in job.todo /\ f \in Sound(repo)
        /\ job'.step = "record" /\ job'.now = f /\ job'.todo = job.todo
        /\ job'.pending = [job.pending EXCEPT ![f] = repo[f]]
        /\ job'.quiet = job.quiet /\ job'.seen = job.seen /\ job'.force = job.force
    BY <1>0, <1>4 DEF Parse, Parses, Sound, Running, Jobs
  <2>2. \A g \in Files : g # f => files'[g] = files[g]
    BY <1>0, <1>4, ForgetFacts DEF Parse
  <2>3. Parsed' = Parsed \cup {f}
    BY <1>0, <1>f, <2>1 DEF Parsed, Jobs, Contents
  <2>4. \A g \in Files : g # f => job'.pending[g] = job.pending[g]
    BY <1>0, <2>1 DEF Jobs, Contents
  <2>5. job'.pending[f] = repo[f]
    BY <1>0, <2>1 DEF Jobs, Contents
  <2>. QED BY <1>f, <2>1, <2>2, <2>3, <2>4, <2>5 DEF WalkInv, Walking, Walked, Calm, Parsed
<1>5. ASSUME NEW f \in Files, Record(f) PROVE WalkInv'
  <2>1. /\ job.step = "record" /\ repo' = repo /\ f = job.now /\ job.pending[f] # Gone
        /\ files' = [files EXCEPT ![f] = job.pending[f]]
        /\ job'.step = "walk" /\ job'.todo = job.todo \ {f} /\ job'.pending = job.pending
        /\ job'.quiet = job.quiet /\ job'.seen = job.seen /\ job'.force = job.force
    BY <1>0, <1>5 DEF Record, Running, Visited, Jobs, Inv, PendingIsRecorded
  <2>2. f \in Parsed /\ job.pending[f] = repo[f]
    BY <2>1 DEF WalkInv, Parsed, Calm
  <2>3. files'[f] = repo[f] /\ \A g \in Files : g # f => files'[g] = files[g]
    BY <1>0, <2>1, <2>2 DEF Contents
  <2>. QED BY <1>f, <2>1, <2>2, <2>3 DEF WalkInv, Walking, Walked, Calm, Parsed
<1>6. ASSUME NEW f \in Files, Vanish(f) PROVE WalkInv'
  <2>1. job.step = "walk" /\ repo' = repo /\ job' = job /\ f \notin job.seen
    BY <1>6 DEF Vanish, Running
  <2>2. \A g \in Files : g # f => files'[g] = files[g]
    BY <1>0, <1>6, ForgetFacts DEF Vanish
  <2>3. f \notin Sound(repo)
    BY <1>f, <2>1 DEF WalkInv, Calm
  <2>. QED BY <1>f, <2>1, <2>2, <2>3 DEF WalkInv, Walking, Walked, Calm, Parsed
<1>7. CASE Resolve
  <2>1. /\ job.step = "walk" /\ job.todo = {} /\ repo' = repo /\ files' = files
        /\ \A f \in Files : files[f] # Gone => f \in job.seen
        /\ job'.step = "nodes" /\ job'.pending = job.pending
        /\ job'.quiet = job.quiet /\ job'.seen = job.seen /\ job'.force = job.force
    BY <1>7, ResolveFacts
  <2>. QED BY <1>f, <2>1 DEF WalkInv, Walking, Walked, Calm, Parsed, Current, Present
<1>8. ASSUME NEW f \in Files, AddNodes(f) \/ AddEdges(f) PROVE WalkInv'
  <2>1. /\ job.step \in {"nodes", "edges"} /\ job'.step \in {"nodes", "edges"}
        /\ repo' = repo /\ files' = files /\ job'.pending = job.pending
        /\ job'.quiet = job.quiet /\ job'.seen = job.seen /\ job'.force = job.force
    BY <1>0, <1>8 DEF AddNodes, AddEdges, Running, Visited, Jobs
  <2>. QED BY <2>1 DEF WalkInv, Walking, Walked, Calm, Parsed, Current, Present
<1>9. CASE DropOrphanExternals
  <2>1. /\ job.step = "nodes" /\ job.todo = {} /\ repo' = repo /\ files' = files /\ edges' = edges
        /\ job' = [job EXCEPT !.step = "link"]
        /\ nodes' = {n \in nodes : n.kind = "external" => \E e \in edges : e.target = n}
    BY <1>9 DEF DropOrphanExternals, Running, Goto
  <2>2. NoOrphans'
    BY <2>1 DEF NoOrphans
  <2>. QED BY <1>0, <2>1, <2>2 DEF WalkInv, Walking, Walked, Calm, Parsed, Current, Present, Jobs
<1>10. CASE LinkTests
  <2>1. /\ job.step = "link" /\ repo' = repo /\ files' = files /\ nodes' = nodes
        /\ edges' = edges \cup TestEdges(nodes, edges) /\ job' = [job EXCEPT !.step = "done"]
    BY <1>10 DEF LinkTests, Running, Goto
  <2>2. \A e \in TestEdges(nodes, edges) : e.kind = "tests"
    BY DEF TestEdges, Edge
  <2>3. TestEdges(nodes', edges') = TestEdges(nodes, edges)
    BY <2>1, <2>2 DEF TestEdges
  <2>4. TestsLinked' /\ (NoOrphans => NoOrphans')
    BY <2>1, <2>3 DEF TestsLinked, NoOrphans
  <2>. QED BY <1>0, <2>1, <2>4 DEF WalkInv, Walking, Walked, Calm, Parsed, Current, Present, Jobs
<1>11. CASE Finish \/ Crash
  BY <1>11 DEF Finish, Crash, NoJob, Calm
<1>12. ASSUME NEW f \in Files, NEW c, Edit(f, c) PROVE WalkInv'
  <2>1. job'.quiet = (job.step = "none") /\ job'.step = job.step
    BY <1>0, <1>12 DEF Edit, Jobs
  <2>. QED BY <2>1 DEF Calm
<1>13. CASE UNCHANGED vars
  BY <1>13 DEF vars, store, WalkInv, Walking, Walked, Calm, Parsed, Current, Present, NoOrphans, TestsLinked
<1>. QED BY <1>1, <1>2, <1>3, <1>4, <1>5, <1>6, <1>7, <1>8, <1>9, <1>10, <1>11, <1>12, <1>13 DEF Next

\* So it always holds.
LEMMA WalkInvariant == Spec => []WalkInv
<1>1. Init => WalkInv
  BY DEF Init, WalkInv, Calm, NoJob
<1>. QED BY <1>1, WalkNext, SpecInv, PTL DEF Spec

\* While nothing is edited after an ingest there is nothing to do for the next.
RestInv ==
    settled =>
        /\ Current /\ Present /\ NoOrphans /\ TestsLinked
        /\ Parsed = {} /\ job.quiet /\ ~job.force
        /\ job.step \notin {"record", "edges"}

\* Then no step of an ingest changes the tables, nor the repository.
LEMMA RestStays ==
    ASSUME Inv, WalkInv, RestInv, [Next]_vars, settled, settled'
    PROVE  UNCHANGED <<repo, store>>
<1>0. /\ Current /\ Present /\ NoOrphans /\ TestsLinked
      /\ Parsed = {} /\ job.quiet /\ ~job.force
      /\ job.step \notin {"record", "edges"}
  BY DEF RestInv
<1>1. CASE \E force \in BOOLEAN : Begin(force)
  BY <1>1 DEF Begin, store
<1>2. ASSUME NEW f \in Files, Skip(f) \/ Unchanged(f) PROVE UNCHANGED <<repo, store>>
  BY <1>2 DEF Skip, Unchanged, store
<1>3. ASSUME NEW f \in Files, Parse(f) PROVE FALSE
  <2>1. f \in Sound(repo) /\ files[f] # repo[f]
    BY <1>0, <1>3 DEF Parse, Parses, Sound
  <2>. QED BY <1>0, <2>1 DEF Current
<1>4. ASSUME NEW f \in Files, Vanish(f) PROVE FALSE
  <2>1. job.step = "walk" /\ files[f] # Gone /\ f \notin job.seen
    BY <1>4 DEF Vanish, Running
  <2>2. job.seen = {g \in Files : repo[g] # Gone}
    BY <1>0, <2>1 DEF WalkInv, Calm
  <2>. QED BY <1>0, <2>1, <2>2 DEF Present
<1>5. ASSUME NEW f \in Files, Record(f) \/ AddEdges(f) PROVE FALSE
  BY <1>0, <1>5 DEF Record, AddEdges, Running
<1>6. ASSUME NEW f \in Files, AddNodes(f) PROVE FALSE
  <2>1. job.step = "nodes" /\ f \in job.todo
    BY <1>6 DEF AddNodes, Running
  <2>. QED BY <1>0, <2>1 DEF Inv, PendingIsRecorded
<1>7. CASE Resolve \/ Finish \/ Crash
  BY <1>7 DEF Resolve, Finish, Crash, store
<1>8. CASE DropOrphanExternals
  BY <1>0, <1>8 DEF DropOrphanExternals, NoOrphans, store
<1>9. CASE LinkTests
  BY <1>0, <1>9 DEF LinkTests, TestsLinked, store
<1>10. ASSUME NEW f, NEW c, Edit(f, c) PROVE FALSE
  BY <1>10 DEF Edit
<1>11. CASE UNCHANGED vars
  BY <1>11 DEF vars, store
<1>. QED BY <1>1, <1>2, <1>3, <1>4, <1>5, <1>6, <1>7, <1>8, <1>9, <1>10, <1>11 DEF Next

\* It begins when an ingest ends undisturbed, and lasts until an edit or --force.
LEMMA RestNext == Inv /\ WalkInv /\ RestInv /\ [Next]_vars => RestInv'
<1>. SUFFICES ASSUME Inv, WalkInv, RestInv, [Next]_vars, settled' PROVE RestInv'
  BY DEF RestInv
<1>0. job \in Jobs
  BY DEF Inv, TypeInv, TypeOK, Jobs
<1>1. CASE settled
  <2>0. /\ Current /\ Present /\ NoOrphans /\ TestsLinked
        /\ Parsed = {} /\ job.quiet /\ ~job.force
        /\ job.step \notin {"record", "edges"}
    BY <1>1 DEF RestInv
  <2>1. UNCHANGED <<repo, files, nodes, edges>>
    BY <1>1, RestStays DEF store
  <2>2. Current' /\ Present' /\ NoOrphans' /\ TestsLinked'
    BY <2>0, <2>1 DEF Current, Present, NoOrphans, TestsLinked, Sound, TestEdges
  <2>. DEFINE Idle == Parsed = {} /\ job.quiet /\ ~job.force /\ job.step \notin {"record", "edges"}
  <2>3. ASSUME job'.pending = job.pending, job'.quiet = job.quiet, job'.force = job.force,
               job'.step \notin {"record", "edges"}
        PROVE  Idle'
    BY <2>0, <2>3 DEF Parsed
  <2>4. ASSUME job' = NoJob PROVE Idle'
    BY <2>4 DEF NoJob, Parsed
  <2>5. ASSUME NEW force \in BOOLEAN, Begin(force) PROVE Idle'
    <3>1. ~force
      BY <2>5 DEF Begin
    <3>. QED BY <2>5, <3>1 DEF Begin, NoJob, Parsed
  <2>6. ASSUME NEW f \in Files, Skip(f) \/ Unchanged(f) PROVE Idle'
    BY <1>0, <2>6, <2>3 DEF Skip, Unchanged, Running, Visited, Jobs
  <2>7. ASSUME NEW f \in Files, Parse(f) \/ Vanish(f) PROVE Idle'
    <3>1. CASE Vanish(f)
      BY <2>0, <3>1, <2>3 DEF Vanish
    <3>2. CASE Parse(f)
      <4>1. f \in Sound(repo) /\ files[f] # repo[f]
        BY <2>0, <3>2 DEF Parse, Parses, Sound
      <4>. QED BY <2>0, <4>1 DEF Current
    <3>. QED BY <2>7, <3>1, <3>2
  <2>8. ASSUME NEW f \in Files, Record(f) \/ AddNodes(f) \/ AddEdges(f) PROVE Idle'
    <3>1. job.step \in {"record", "edges"} \/ (job.step = "nodes" /\ f \in job.todo)
      BY <2>8 DEF Record, AddNodes, AddEdges, Running
    <3>. QED BY <2>0, <3>1 DEF Inv, PendingIsRecorded
  <2>9. ASSUME Resolve \/ DropOrphanExternals \/ LinkTests PROVE Idle'
    <3>1. CASE Resolve
      BY <3>1, <2>3, ResolveFacts DEF Resolve
    <3>2. CASE DropOrphanExternals \/ LinkTests
      BY <1>0, <3>2, <2>3 DEF DropOrphanExternals, LinkTests, Running, Goto, Jobs
    <3>. QED BY <2>9, <3>1, <3>2
  <2>10. ASSUME Finish \/ Crash PROVE Idle'
    BY <2>10, <2>4 DEF Finish, Crash
  <2>11. ASSUME NEW f, NEW c, Edit(f, c) PROVE FALSE
    BY <2>11 DEF Edit
  <2>12. ASSUME UNCHANGED vars PROVE Idle'
    BY <2>0, <2>12, <2>3 DEF vars
  <2>13. Idle'
    <3>. HIDE DEF Idle
    <3>. QED BY <2>5, <2>6, <2>7, <2>8, <2>9, <2>10, <2>11, <2>12 DEF Next
  <2>. QED BY <2>2, <2>13 DEF RestInv
<1>2. CASE ~settled
  <2>1. Finish
    BY <1>2 DEF Next, vars, Begin, Skip, Unchanged, Parse, Record, Vanish, Resolve, AddNodes, AddEdges,
                DropOrphanExternals, LinkTests, Crash, Edit
  <2>2. /\ job.step = "done" /\ job.quiet /\ job' = NoJob
        /\ UNCHANGED <<repo, files, nodes, edges>>
    BY <2>1 DEF Finish, Running, store
  <2>3. Current /\ Present /\ NoOrphans /\ TestsLinked
    BY <2>2 DEF WalkInv, Calm, Walked
  <2>4. Current' /\ Present' /\ NoOrphans' /\ TestsLinked'
    BY <2>2, <2>3 DEF Current, Present, NoOrphans, TestsLinked, Sound, TestEdges
  <2>5. Parsed' = {}
    BY <2>2 DEF NoJob, Parsed
  <2>. QED BY <2>2, <2>4, <2>5 DEF RestInv, NoJob
<1>. QED BY <1>1, <1>2

\* Once an ingest has run to its end, no step of a later one changes the tables
\* until a file is edited or --force is given (ingest_repo).
THEOREM IngestStaysIdempotent == Spec => IngestIsIdempotent
<1>1. Spec => []RestInv
  <2>1. Init => RestInv
    BY DEF Init, RestInv
  <2>. QED BY <2>1, RestNext, SpecInv, WalkInvariant, PTL DEF Spec
<1>2. Inv /\ WalkInv /\ RestInv /\ [Next]_vars => [settled /\ settled' => UNCHANGED store]_vars
  BY RestStays
<1>. QED BY <1>1, <1>2, SpecInv, WalkInvariant, PTL DEF Spec, IngestIsIdempotent
----------------------------------------------------------------------------
(* An incremental ingest agrees with ingesting everything anew.            *)

\* The definitions of some of the files.
Defined(F) == UNION {DefsOf(g, repo[g]) : g \in F}

\* What an undisturbed ingest knows of the definitions: what it registers of the
\* files it parsed, nothing that is not there, and no more than that with --force.
KnownInv ==
    Calm =>
        /\ \A f \in Parsed : Registered(f, repo[f]) \subseteq job.known
        /\ job.known \subseteq Defined(Sound(repo))
        /\ job.force => \A d \in job.known : \E f \in Parsed : d \in Registered(f, repo[f])

\* The edges that a file contributes: none before the second pass comes to it,
\* since it was forgotten, and then those that it is resolved to.
OutOf(f) == {e \in edges : e.source.file = f /\ e.kind # "tests"}
OutInv ==
    Calm =>
        /\ Walking => \A f \in Parsed : NodesOf(f) = {}
        /\ job.step \in {"nodes", "edges"} => \A f \in job.todo : OutOf(f) = {}
        /\ job.step = "edges" => job.now \in job.todo
        /\ Walked => \A f \in Parsed :
              f \notin job.todo => OutOf(f) = Resolved(f, repo[f], job.known, job.modules)

\* As long as no ingest dies every recorded file has its nodes, but for those
\* that the running one has forgotten and not written yet.
HasNodes(f) == {FileNode(f)} \cup DefsOf(f, files[f]) \subseteq nodes
CompleteInv ==
    crashes = 0 =>
        \A f \in Files : files[f] # Gone =>
            \/ HasNodes(f)
            \/ Walking /\ f \in Parsed
            \/ job.step \in {"nodes", "edges"} /\ f \in job.todo

\* The sound files of a module.
FilesOf(q) == {f \in Sound(repo) : ModuleOf[f] = q}

\* What is registered of a file and no test is known.
Registers(f) == \A d \in Registered(f, repo[f]) : d.kind # "test" => d \in job.known

\* So it knows what is registered of every file it has visited, and every module
\* but that of the root.
IncrementalInv ==
    (Calm /\ crashes = 0 /\ AllSound(repo)) =>
        /\ \A f \in Sound(repo) : (Walking /\ f \in job.todo) \/ Registers(f)
        /\ Walked => \A q \in Modules \ {<<Blank>>} :
              job.modules[q] \in IF FilesOf(q) # {} THEN FilesOf(q) ELSE {Gone}

\* Steps of an ingest that parse nothing keep what it has parsed and knows.
LEMMA KnownMoves ==
    ASSUME Inv, [Next]_vars, Calm'
    PROVE  \/ \E force \in BOOLEAN : Begin(force)
           \/ \E f \in Files : Unchanged(f) \/ Parse(f)
           \/ /\ Calm /\ repo' = repo /\ job'.known = job.known /\ job'.pending = job.pending
              /\ job'.force = job.force
<1>0. job \in Jobs
  BY DEF Inv, TypeInv, TypeOK, Jobs
<1>. DEFINE Kept == /\ Calm /\ repo' = repo /\ job'.known = job.known /\ job'.pending = job.pending
                    /\ job'.force = job.force
<1>1. ASSUME NEW f \in Files, Skip(f) \/ Record(f) \/ AddNodes(f) \/ AddEdges(f) PROVE Kept
  BY <1>0, <1>1 DEF Skip, Record, AddNodes, AddEdges, Running, Visited, Calm, Jobs
<1>2. ASSUME NEW f \in Files, Vanish(f) PROVE Kept
  BY <1>2 DEF Vanish, Calm
<1>3. ASSUME Resolve \/ DropOrphanExternals \/ LinkTests PROVE Kept
  <2>1. CASE Resolve
    BY <2>1, ResolveFacts DEF Calm
  <2>2. CASE DropOrphanExternals \/ LinkTests
    BY <1>0, <2>2 DEF DropOrphanExternals, LinkTests, Running, Goto, Calm, Jobs
  <2>. QED BY <1>3, <2>1, <2>2
<1>4. ASSUME Finish \/ Crash PROVE FALSE
  BY <1>4 DEF Finish, Crash, NoJob, Calm
<1>5. ASSUME NEW f, NEW c, Edit(f, c) PROVE FALSE
  BY <1>0, <1>5 DEF Edit, Calm, Jobs
<1>6. ASSUME UNCHANGED vars PROVE Kept
  BY <1>6 DEF vars, Calm
<1>. HIDE DEF Kept
<1>7. \/ \E force \in BOOLEAN : Begin(force)
      \/ \E f \in Files : Unchanged(f) \/ Parse(f)
      \/ Kept
  BY <1>1, <1>2, <1>3, <1>4, <1>5, <1>6 DEF Next
<1>. QED BY <1>7 DEF Kept

\* What is registered of a file that is skipped is defined in it.
LEMMA SkippedDefs ==
    ASSUME Inv, NEW f \in Files, files[f] # Gone
    PROVE  {n \in NodesOf(f) : n.kind \in {"def", "class"}} \subseteq DefsOf(f, files[f])
BY DEF Inv, NodesMatchRecord, NodesOf, Extracted, FileNode, ExternalNode, Node

\* Each step keeps what is known as it should be.
LEMMA KnownNext == Inv /\ WalkInv /\ KnownInv /\ [Next]_vars => KnownInv'
<1>. SUFFICES ASSUME Inv, WalkInv, KnownInv, [Next]_vars, Calm' PROVE KnownInv'
  BY DEF KnownInv
<1>0. job \in Jobs /\ repo \in Contents
  BY DEF Inv, TypeInv, TypeOK, Jobs
<1>1. ASSUME NEW force \in BOOLEAN, Begin(force) PROVE KnownInv'
  <2>1. job'.known = {} /\ Parsed' = {}
    BY <1>1 DEF Begin, NoJob, Parsed
  <2>. QED BY <2>1 DEF KnownInv
<1>2. ASSUME NEW f \in Files, Unchanged(f) PROVE KnownInv'
  <2>. DEFINE skipped == {n \in NodesOf(f) : n.kind \in {"def", "class"}}
  <2>1. /\ Calm /\ ~job.force /\ repo[f] # Gone /\ f \in Sound(repo) /\ files[f] = repo[f]
        /\ repo' = repo /\ job'.pending = job.pending /\ job'.force = job.force
        /\ job'.known = job.known \cup skipped
    BY <1>0, <1>2 DEF Unchanged, Running, Visited, Parses, Sound, Calm, Jobs
  <2>2. skipped \subseteq DefsOf(f, repo[f])
    BY <2>1, SkippedDefs
  <2>3. DefsOf(f, repo[f]) \subseteq Defined(Sound(repo))
    BY <2>1 DEF Defined
  <2>4. Parsed' = Parsed /\ Sound(repo)' = Sound(repo)
    BY <2>1 DEF Parsed, Sound
  <2>5. Defined(Sound(repo))' = Defined(Sound(repo))
    BY <2>1, <2>4 DEF Defined
  <2>. HIDE DEF skipped
  <2>6. job'.known \subseteq Defined(Sound(repo))'
    BY <2>1, <2>2, <2>3, <2>5 DEF KnownInv
  <2>7. \A g \in Parsed' : Registered(g, repo'[g]) \subseteq job'.known
    BY <2>1, <2>4 DEF KnownInv
  <2>. QED BY <2>1, <2>6, <2>7 DEF KnownInv
<1>3. ASSUME NEW f \in Files, Parse(f) PROVE KnownInv'
  <2>1. /\ Calm /\ f \in Sound(repo) /\ repo' = repo /\ job'.force = job.force
        /\ job'.pending = [job.pending EXCEPT ![f] = repo[f]]
        /\ job'.known = job.known \cup Registered(f, repo[f])
    BY <1>0, <1>3 DEF Parse, Parses, Sound, Running, Calm, Jobs
  <2>2. Parsed' = Parsed \cup {f}
    BY <1>0, <2>1 DEF Parsed, Jobs, Contents, Sound
  <2>3. Defined(Sound(repo))' = Defined(Sound(repo))
    BY <2>1 DEF Defined, Sound
  <2>4. Registered(f, repo[f]) \subseteq Defined(Sound(repo))
    BY <2>1, RegisteredFacts DEF Defined
  <2>5. job'.known \subseteq Defined(Sound(repo))'
    BY <2>1, <2>3, <2>4 DEF KnownInv
  <2>6. \A g \in Parsed' : Registered(g, repo'[g]) \subseteq job'.known
    BY <2>1, <2>2 DEF KnownInv
  <2>7. job'.force => \A d \in job'.known : \E g \in Parsed' : d \in Registered(g, repo'[g])
    BY <2>1, <2>2 DEF KnownInv
  <2>. QED BY <2>5, <2>6, <2>7 DEF KnownInv
<1>4. ASSUME Calm, repo' = repo, job'.known = job.known, job'.pending = job.pending, job'.force = job.force
      PROVE  KnownInv'
  BY <1>4 DEF KnownInv, Defined, Parsed, Sound
<1>. QED BY <1>1, <1>2, <1>3, <1>4, KnownMoves

\* So it always is.
LEMMA KnownInvariant == Spec => []KnownInv
<1>1. Init => KnownInv
  BY DEF Init, KnownInv, Calm, NoJob
<1>. QED BY <1>1, KnownNext, SpecInv, WalkInvariant, PTL DEF Spec

\* The edges of a file that is forgotten and not written: they would start at
\* nodes of it, or lead to them, and it has none.
LEMMA NothingOut ==
    ASSUME SourcesAreThere, NEW f, NodesOf(f) = {}
    PROVE  OutOf(f) = {}
BY DEF SourcesAreThere, Anchored, NodesOf, OutOf

\* Each step keeps the edges of the parsed files as they should be.
LEMMA OutNext == Inv /\ SourcesAreThere /\ WalkInv /\ OutInv /\ [Next]_vars => OutInv'
<1>. SUFFICES ASSUME Inv, SourcesAreThere, WalkInv, OutInv, [Next]_vars, Calm' PROVE OutInv'
  BY DEF OutInv
<1>0. job \in Jobs /\ repo \in Contents /\ files \in Contents
  BY DEF Inv, TypeInv, TypeOK, Jobs
<1>1. ASSUME NEW force \in BOOLEAN, Begin(force) PROVE OutInv'
  <2>1. job'.step = "walk" /\ Parsed' = {}
    BY <1>1 DEF Begin, NoJob, Parsed
  <2>. QED BY <2>1 DEF OutInv, Walked
<1>2. ASSUME NEW f \in Files, Skip(f) \/ Unchanged(f) \/ Record(f) PROVE OutInv'
  <2>1. /\ Calm /\ Walking /\ job'.step = "walk" /\ job'.pending = job.pending /\ nodes' = nodes
    BY <1>0, <1>2 DEF Skip, Unchanged, Record, Running, Visited, Calm, Walking, Jobs, store
  <2>2. Parsed' = Parsed /\ \A g : NodesOf(g)' = NodesOf(g)
    BY <2>1 DEF Parsed, NodesOf
  <2>. QED BY <2>1, <2>2 DEF OutInv, Walked
<1>3. ASSUME NEW f \in Files, Parse(f) PROVE OutInv'
  <2>1. /\ Calm /\ Walking /\ job'.step = "record" /\ Forget(f)
        /\ job'.pending = [job.pending EXCEPT ![f] = repo[f]]
    BY <1>0, <1>3 DEF Parse, Running, Calm, Walking, Jobs
  <2>2. Parsed' \subseteq Parsed \cup {f}
    BY <1>0, <2>1 DEF Parsed, Jobs, Contents
  <2>3. NodesOf(f)' = {} /\ \A g : NodesOf(g)' \subseteq NodesOf(g)
    BY <2>1 DEF Forget, NodesOf
  <2>4. \A g \in Parsed : NodesOf(g) = {}
    BY <2>1 DEF OutInv
  <2>5. \A g \in Parsed' : NodesOf(g)' = {}
    BY <2>2, <2>3, <2>4
  <2>. QED BY <2>1, <2>5 DEF OutInv, Walked
<1>4. ASSUME NEW f \in Files, Vanish(f) PROVE OutInv'
  <2>1. /\ Calm /\ job.step = "walk" /\ job' = job /\ Forget(f)
    BY <1>4 DEF Vanish, Running, Calm
  <2>2. Parsed' = Parsed /\ \A g : NodesOf(g)' \subseteq NodesOf(g)
    BY <2>1 DEF Forget, NodesOf, Parsed
  <2>3. \A g \in Parsed : NodesOf(g) = {}
    BY <2>1 DEF OutInv, Walking
  <2>. QED BY <2>1, <2>2, <2>3 DEF OutInv, Walked
<1>5. ASSUME Resolve PROVE OutInv'
  <2>1. /\ Calm /\ Walking /\ job'.step = "nodes" /\ job'.todo = Parsed /\ Parsed' = Parsed /\ edges' = edges
    BY <1>5, ResolveFacts DEF Calm, Walking, Parsed
  <2>2. \A g \in Parsed : OutOf(g) = {}
    BY <2>1, NothingOut DEF OutInv
  <2>3. \A g : OutOf(g)' = OutOf(g)
    BY <2>1 DEF OutOf
  <2>. QED BY <2>1, <2>2, <2>3 DEF OutInv, Walking
<1>6. ASSUME NEW f \in Files, AddNodes(f) PROVE OutInv'
  <2>1. /\ Calm /\ Walked /\ job.step = "nodes" /\ f \in job.todo /\ job'.step = "edges"
        /\ job'.now = f /\ job'.todo = job.todo
        /\ job'.pending = job.pending /\ job'.known = job.known /\ job'.modules = job.modules
        /\ edges' = edges /\ repo' = repo
    BY <1>0, <1>6 DEF AddNodes, Running, Calm, Walked, Jobs
  <2>2. Parsed' = Parsed /\ \A g : OutOf(g)' = OutOf(g)
    BY <2>1 DEF Parsed, OutOf
  <2>. QED BY <2>1, <2>2 DEF OutInv, Walking
<1>7. ASSUME NEW f \in Files, AddEdges(f) PROVE OutInv'
  <2>. DEFINE new == Resolved(f, job.pending[f], job.known, job.modules)
  <2>1. /\ Calm /\ Walked /\ job.step = "edges" /\ f = job.now /\ job'.step = "nodes"
        /\ job'.todo = job.todo \ {f}
        /\ job'.pending = job.pending /\ job'.known = job.known /\ job'.modules = job.modules
        /\ repo' = repo
    BY <1>0, <1>7 DEF AddEdges, Running, Visited, Calm, Walked, Jobs
  <2>2. f \in Parsed /\ edges' = edges \cup new
    BY <1>7, WritesFacts
  <2>3. job.pending[f] = repo[f] /\ f \in job.todo
    BY <2>1, <2>2 DEF WalkInv, OutInv
  <2>4. \A e \in new : e.source.file = f /\ e.kind # "tests"
    BY <1>7, WrittenSources
  <2>. HIDE DEF new
  <2>5. \A g : g # f => OutOf(g)' = OutOf(g)
    BY <2>2, <2>4 DEF OutOf
  <2>6. OutOf(f)' = OutOf(f) \cup new
    BY <2>2, <2>4 DEF OutOf
  <2>7. OutOf(f) = {}
    BY <2>1, <2>3 DEF OutInv
  <2>8. OutOf(f)' = Resolved(f, repo[f], job.known, job.modules)
    BY <2>3, <2>6, <2>7 DEF new
  <2>9. Parsed' = Parsed
    BY <2>1 DEF Parsed
  <2>. QED BY <2>1, <2>5, <2>8, <2>9 DEF OutInv, Walking
<1>8. ASSUME DropOrphanExternals \/ LinkTests PROVE OutInv'
  <2>1. /\ Calm /\ Walked /\ job'.step \in {"link", "done"} /\ job'.todo = job.todo
        /\ job'.pending = job.pending /\ job'.known = job.known /\ job'.modules = job.modules
        /\ repo' = repo
    BY <1>0, <1>8 DEF DropOrphanExternals, LinkTests, Running, Goto, Calm, Walked, Jobs
  <2>2. edges' = edges \/ edges' = edges \cup TestEdges(nodes, edges)
    BY <1>8 DEF DropOrphanExternals, LinkTests
  <2>3. \A e \in TestEdges(nodes, edges) : e.kind = "tests"
    BY DEF TestEdges, Edge
  <2>4. \A g : OutOf(g)' = OutOf(g)
    BY <2>2, <2>3 DEF OutOf
  <2>5. Parsed' = Parsed
    BY <2>1 DEF Parsed
  <2>. QED BY <2>1, <2>4, <2>5 DEF OutInv, Walking
<1>9. ASSUME Finish \/ Crash PROVE FALSE
  BY <1>9 DEF Finish, Crash, NoJob, Calm
<1>10. ASSUME NEW f, NEW c, Edit(f, c) PROVE FALSE
  BY <1>0, <1>10 DEF Edit, Calm, Jobs
<1>11. ASSUME UNCHANGED vars PROVE OutInv'
  BY <1>11 DEF vars, store, OutInv, Calm, Walking, Walked, Parsed, NodesOf, OutOf
<1>. QED BY <1>1, <1>2, <1>3, <1>4, <1>5, <1>6, <1>7, <1>8, <1>9, <1>10, <1>11 DEF Next

\* So they always are.
LEMMA OutInvariant == Spec => []OutInv
<1>1. Init => OutInv
  BY DEF Init, OutInv, Calm, NoJob
<1>. QED BY <1>1, OutNext, SpecInv, SourcesInvariant, WalkInvariant, PTL DEF Spec

\* Forgetting a file leaves the nodes of the others.
LEMMA ForgetKeepsNodes ==
    ASSUME Inv, NEW f \in Files, Forget(f), NEW g \in Files, g # f, HasNodes(g)
    PROVE  HasNodes(g)'
<1>1. files'[g] = files[g]
  BY ForgetFacts DEF Inv, TypeInv, TypeOK
<1>2. \A n \in {FileNode(g)} \cup DefsOf(g, files[g]) : n.file = g
  BY DEF FileNode, DefsOf, DefNode, Node
<1>. QED BY <1>1, <1>2 DEF HasNodes, Forget, NodesOf

\* Each step of an ingest that does not die keeps the nodes complete.
LEMMA CompleteNext == Inv /\ EdgesMatchRecord /\ CompleteInv /\ [Next]_vars => CompleteInv'
<1>. DEFINE Excused(f) == \/ Walking /\ f \in Parsed
                          \/ job.step \in {"nodes", "edges"} /\ f \in job.todo
<1>. SUFFICES ASSUME Inv, EdgesMatchRecord, CompleteInv, [Next]_vars, crashes' = 0,
                     NEW g \in Files, files'[g] # Gone
              PROVE  HasNodes(g)' \/ Excused(g)'
  BY DEF CompleteInv
<1>0. /\ job \in Jobs /\ repo \in Contents /\ files \in Contents /\ crashes \in Nat
      /\ \A f \in Files : job.pending[f] # Gone =>
           files[f] = job.pending[f] \/ (job.step = "record" /\ f = job.now)
  BY DEF Inv, TypeInv, TypeOK, Jobs, PendingIsRecorded
<1>a. ASSUME crashes = 0, files[g] # Gone PROVE HasNodes(g) \/ Excused(g)
  BY <1>a DEF CompleteInv
<1>b. ASSUME nodes' = nodes, files' = files, HasNodes(g) PROVE HasNodes(g)'
  BY <1>b DEF HasNodes
<1>1. ASSUME NEW force \in BOOLEAN, Begin(force) PROVE HasNodes(g)' \/ Excused(g)'
  <2>1. job.step = "none" /\ crashes' = crashes /\ files' = files /\ nodes' = nodes
    BY <1>1 DEF Begin, Running, store
  <2>2. ~Excused(g)
    BY <2>1 DEF Walking
  <2>. HIDE DEF Excused
  <2>. QED BY <1>a, <1>b, <2>1, <2>2
<1>2. ASSUME NEW f \in Files, Skip(f) \/ Unchanged(f) PROVE HasNodes(g)' \/ Excused(g)'
  <2>1. /\ job.step = "walk" /\ job'.step = "walk" /\ job'.pending = job.pending
        /\ crashes' = crashes /\ files' = files /\ nodes' = nodes
    BY <1>0, <1>2 DEF Skip, Unchanged, Running, Visited, Jobs, store
  <2>2. Excused(g) => Excused(g)'
    BY <2>1 DEF Walking, Parsed
  <2>. HIDE DEF Excused
  <2>. QED BY <1>a, <1>b, <2>1, <2>2
<1>3. ASSUME NEW f \in Files, Parse(f) \/ Vanish(f) PROVE HasNodes(g)' \/ Excused(g)'
  <2>1. /\ job.step = "walk" /\ job'.step \in {"walk", "record"} /\ crashes' = crashes /\ Forget(f)
        /\ job'.pending = job.pending \/ (repo[f] # Gone /\ job'.pending = [job.pending EXCEPT ![f] = repo[f]])
    BY <1>0, <1>3 DEF Parse, Vanish, Parses, Running, Jobs
  <2>2. g # f /\ files[g] # Gone
    BY <1>0, <2>1, ForgetFacts
  <2>3. g \in Parsed => g \in Parsed'
    BY <1>0, <2>1, <2>2 DEF Parsed, Jobs, Contents
  <2>4. Excused(g) => Excused(g)'
    BY <2>1, <2>3 DEF Walking
  <2>5. HasNodes(g) => HasNodes(g)'
    BY <2>1, <2>2, ForgetKeepsNodes
  <2>. HIDE DEF Excused
  <2>. QED BY <1>a, <2>1, <2>2, <2>4, <2>5
<1>4. ASSUME NEW f \in Files, Record(f) PROVE HasNodes(g)' \/ Excused(g)'
  <2>1. /\ job.step = "record" /\ job'.step = "walk" /\ job'.pending = job.pending /\ f = job.now
        /\ crashes' = crashes /\ nodes' = nodes /\ files' = [files EXCEPT ![f] = job.pending[f]]
    BY <1>0, <1>4 DEF Record, Running, Visited, Jobs
  <2>2. Excused(g) => Excused(g)'
    BY <2>1 DEF Walking, Parsed
  <2>3. CASE g = f
    <3>1. g \in Parsed
      BY <2>1, <2>3 DEF Inv, PendingIsRecorded, Parsed
    <3>. QED BY <2>1, <3>1 DEF Walking, Parsed
  <2>4. CASE g # f
    <3>1. files'[g] = files[g]
      BY <2>1, <2>4
    <3>2. HasNodes(g) => HasNodes(g)'
      BY <2>1, <3>1 DEF HasNodes
    <3>. HIDE DEF Excused
    <3>. QED BY <1>a, <2>1, <2>2, <3>1, <3>2
  <2>. QED BY <2>3, <2>4
<1>5. ASSUME Resolve PROVE HasNodes(g)' \/ Excused(g)'
  <2>1. /\ job.step = "walk" /\ job'.step = "nodes" /\ job'.todo = Parsed
        /\ crashes' = crashes /\ files' = files /\ nodes' = nodes
    BY <1>5, ResolveFacts DEF Resolve
  <2>2. Excused(g) => Excused(g)'
    BY <2>1 DEF Walking
  <2>. HIDE DEF Excused
  <2>. QED BY <1>a, <1>b, <2>1, <2>2
<1>6. ASSUME NEW f \in Files, AddNodes(f) PROVE HasNodes(g)' \/ Excused(g)'
  <2>1. /\ job.step = "nodes" /\ job'.step = "edges" /\ job'.todo = job.todo
        /\ crashes' = crashes /\ files' = files /\ nodes \subseteq nodes'
    BY <1>0, <1>6 DEF AddNodes, Running, Jobs
  <2>2. Excused(g) => Excused(g)'
    BY <2>1 DEF Walking
  <2>3. HasNodes(g) => HasNodes(g)'
    BY <2>1 DEF HasNodes
  <2>. HIDE DEF Excused
  <2>. QED BY <1>a, <2>1, <2>2, <2>3
<1>7. ASSUME NEW f \in Files, AddEdges(f) PROVE HasNodes(g)' \/ Excused(g)'
  <2>1. /\ job.step = "edges" /\ job'.step = "nodes" /\ job'.todo = job.todo \ {f} /\ f = job.now
        /\ crashes' = crashes /\ files' = files /\ nodes' = nodes
    BY <1>0, <1>7 DEF AddEdges, Running, Visited, Jobs
  <2>2. files[f] = job.pending[f] /\ HasNodes(f)
    BY <1>7, <2>1, WritesFacts DEF EdgesMatchRecord, HasNodes
  <2>3. Excused(g) => g = f \/ Excused(g)'
    BY <2>1 DEF Walking
  <2>. HIDE DEF Excused
  <2>. QED BY <1>a, <1>b, <2>1, <2>2, <2>3
<1>8. ASSUME DropOrphanExternals PROVE HasNodes(g)' \/ Excused(g)'
  <2>1. /\ job.step = "nodes" /\ job.todo = {} /\ crashes' = crashes /\ files' = files
        /\ \A n \in nodes : n.kind # "external" => n \in nodes'
    BY <1>8 DEF DropOrphanExternals, Running
  <2>2. ~Excused(g)
    BY <2>1 DEF Walking
  <2>3. \A n \in {FileNode(g)} \cup DefsOf(g, files[g]) : n.kind # "external"
    BY DEF FileNode, DefsOf, DefNode, Node
  <2>4. HasNodes(g) => HasNodes(g)'
    BY <2>1, <2>3 DEF HasNodes
  <2>. HIDE DEF Excused
  <2>. QED BY <1>a, <2>1, <2>2, <2>4
<1>9. ASSUME LinkTests \/ Finish PROVE HasNodes(g)' \/ Excused(g)'
  <2>1. job.step \in {"link", "done"} /\ crashes' = crashes /\ files' = files /\ nodes' = nodes
    BY <1>9 DEF LinkTests, Finish, Running, store
  <2>2. ~Excused(g)
    BY <2>1 DEF Walking
  <2>. HIDE DEF Excused
  <2>. QED BY <1>a, <1>b, <2>1, <2>2
<1>10. ASSUME Crash PROVE FALSE
  BY <1>0, <1>10 DEF Crash
<1>11. ASSUME NEW f, NEW c, Edit(f, c) PROVE HasNodes(g)' \/ Excused(g)'
  <2>1. /\ job'.step = job.step /\ job'.todo = job.todo /\ job'.pending = job.pending
        /\ crashes' = crashes /\ files' = files /\ nodes' = nodes
    BY <1>0, <1>11 DEF Edit, Jobs, store
  <2>2. Excused(g) => Excused(g)'
    BY <2>1 DEF Walking, Parsed
  <2>. HIDE DEF Excused
  <2>. QED BY <1>a, <1>b, <2>1, <2>2
<1>12. ASSUME UNCHANGED vars PROVE HasNodes(g)' \/ Excused(g)'
  <2>1. job' = job /\ crashes' = crashes /\ files' = files /\ nodes' = nodes
    BY <1>12 DEF vars, store
  <2>2. Excused(g) => Excused(g)'
    BY <2>1 DEF Walking, Parsed
  <2>. HIDE DEF Excused
  <2>. QED BY <1>a, <1>b, <2>1, <2>2
<1>. HIDE DEF Excused
<1>. QED BY <1>1, <1>2, <1>3, <1>4, <1>5, <1>6, <1>7, <1>8, <1>9, <1>10, <1>11, <1>12 DEF Next

\* So they always are.
LEMMA CompleteInvariant == Spec => []CompleteInv
<1>1. Init => CompleteInv
  BY DEF Init, CompleteInv
<1>. QED BY <1>1, CompleteNext, SpecInv, EdgesInvariant, PTL DEF Spec

\* In a repository of files that parse, those that are there are those that do.
LEMMA AllSoundFacts ==
    ASSUME AllSound(repo)
    PROVE  Sound(repo) = {f \in Files : repo[f] # Gone}
BY DEF AllSound, Sound

\* When the walk is over every module is known: one just parsed, or one with a node.
LEMMA AllModules ==
    ASSUME Inv, WalkInv, CompleteInv, Calm, crashes = 0, AllSound(repo), Resolve
    PROVE  Parsed \cup {f \in Files : FileNode(f) \in nodes} = Sound(repo)
<1>1. /\ job.step = "walk" /\ job.todo = {}
      /\ \A f \in Files : files[f] # Gone => f \in job.seen
  BY ResolveFacts
<1>2. job.seen = Sound(repo) /\ Parsed \subseteq Sound(repo)
  BY AllSoundFacts DEF WalkInv
<1>3. \A f \in Sound(repo) : f \in Files /\ files[f] = repo[f] /\ repo[f] # Gone
  BY <1>1 DEF WalkInv, Walking, Sound
<1>4. ASSUME NEW f \in Files, FileNode(f) \in nodes PROVE f \in Sound(repo)
  <2>1. files[f] # Gone
    BY <1>4 DEF Inv, NodesMatchRecord, FileNode, Node
  <2>. QED BY <1>1, <1>2, <2>1
<1>5. ASSUME NEW f \in Sound(repo) PROVE f \in Parsed \/ FileNode(f) \in nodes
  BY <1>1, <1>3 DEF CompleteInv, HasNodes
<1>. QED BY <1>2, <1>3, <1>4, <1>5

\* What a module other than the root is taken for depends on all of its files only.
LEMMA PlainModules ==
    ASSUME NEW S, NEW P, NEW A, S \cup P = A, NEW m \in ModuleIds(S, P), NEW q \in Modules, q # <<Blank>>
    PROVE  LET F == {f \in A : ModuleOf[f] = q}
           IN  m[q] \in IF F # {} THEN F ELSE {Gone}
<1>. DEFINE old == {f \in S : ModuleOf[f] = q /\ q # <<Blank>>}
            new == {f \in P : ModuleOf[f] = q}
            F == {f \in A : ModuleOf[f] = q}
<1>1. m[q] \in IF old # {} THEN old ELSE IF new # {} THEN new ELSE {Gone}
  BY DEF ModuleIds
<1>2. F = old \cup new
  OBVIOUS
<1>. HIDE DEF old, new, F
<1>3. m[q] \in IF F # {} THEN F ELSE {Gone}
  <2>1. CASE old # {}
    BY <1>1, <1>2, <2>1
  <2>2. CASE old = {} /\ new # {}
    BY <1>1, <1>2, <2>2
  <2>3. CASE old = {} /\ new = {}
    BY <1>1, <1>2, <2>3
  <2>. QED BY <2>1, <2>2, <2>3
<1>. QED BY <1>3 DEF F

\* Each step keeps what an ingest knows complete.
LEMMA IncrementalNext ==
    Inv /\ WalkInv /\ KnownInv /\ CompleteInv /\ IncrementalInv /\ [Next]_vars => IncrementalInv'
<1>. SUFFICES ASSUME Inv, WalkInv, KnownInv, CompleteInv, IncrementalInv, [Next]_vars,
                     Calm', crashes' = 0, AllSound(repo)'
              PROVE  IncrementalInv'
  BY DEF IncrementalInv
<1>0. job \in Jobs /\ repo \in Contents /\ files \in Contents /\ crashes \in Nat
  BY DEF Inv, TypeInv, TypeOK, Jobs
<1>w. ASSUME job'.step \in {"walk", "record"}, \A h \in Sound(repo)' : h \in job'.todo \/ Registers(h)'
      PROVE  IncrementalInv'
  BY <1>w DEF IncrementalInv, Walked, Walking
<1>d. ASSUME Calm, Walked, repo' = repo, crashes' = crashes, job'.known = job.known,
             job'.modules = job.modules, job'.step \in {"nodes", "edges", "link", "done"}
      PROVE  IncrementalInv'
  <2>1. AllSound(repo) /\ Sound(repo)' = Sound(repo)
    BY <1>d DEF AllSound, Sound
  <2>2. /\ \A h \in Sound(repo) : Registers(h)
        /\ \A q \in Modules \ {<<Blank>>} :
              job.modules[q] \in IF FilesOf(q) # {} THEN FilesOf(q) ELSE {Gone}
    BY <1>d, <2>1 DEF IncrementalInv, Walking, Walked
  <2>3. \A h \in Sound(repo)' : Registers(h)'
    BY <1>d, <2>1, <2>2 DEF Registers
  <2>4. \A q : FilesOf(q)' = FilesOf(q)
    BY <2>1 DEF FilesOf
  <2>. QED BY <1>d, <2>2, <2>3, <2>4 DEF IncrementalInv
<1>s. ASSUME Calm, Walking, repo' = repo, crashes' = crashes
      PROVE  /\ AllSound(repo) /\ Sound(repo)' = Sound(repo)
             /\ \A h \in Sound(repo) : h \in job.todo \/ Registers(h)
  BY <1>s DEF IncrementalInv, AllSound, Sound
<1>k. ASSUME repo' = repo, job.known \subseteq job'.known, NEW h, Registers(h) PROVE Registers(h)'
  BY <1>k DEF Registers
<1>1. ASSUME NEW force \in BOOLEAN, Begin(force) PROVE IncrementalInv'
  <2>1. /\ job'.step = "walk" /\ job'.todo = {f \in Files : repo[f] # Gone} /\ repo' = repo
    BY <1>1 DEF Begin, NoJob
  <2>2. \A h \in Sound(repo)' : h \in job'.todo
    BY <2>1 DEF Sound
  <2>. QED BY <1>w, <2>1, <2>2
<1>2. ASSUME NEW f \in Files, Skip(f) PROVE IncrementalInv'
  <2>1. /\ Calm /\ Walking /\ f \notin Sound(repo) /\ repo' = repo /\ crashes' = crashes
        /\ job'.step = "walk" /\ job'.todo = job.todo \ {f} /\ job'.known = job.known
    BY <1>0, <1>2 DEF Skip, Running, Visited, Parses, Sound, Calm, Walking, Jobs
  <2>. QED BY <1>s, <1>w, <1>k, <2>1
<1>3. ASSUME NEW f \in Files, Unchanged(f) PROVE IncrementalInv'
  <2>1. /\ Calm /\ Walking /\ f \in Sound(repo) /\ repo' = repo /\ crashes' = crashes
        /\ job.step = "walk" /\ f \in job.todo /\ files[f] = repo[f] /\ repo[f] # Gone
        /\ job'.step = "walk" /\ job'.todo = job.todo \ {f}
        /\ job'.known = job.known \cup {n \in NodesOf(f) : n.kind \in {"def", "class"}}
    BY <1>0, <1>3 DEF Unchanged, Running, Visited, Parses, Sound, Calm, Walking, Jobs
  <2>2. HasNodes(f)
    BY <2>1 DEF CompleteInv, WalkInv
  <2>3. \A d \in DefsOf(f, repo[f]) : d \in nodes /\ d.kind \in {"def", "class", "test"} /\ d.file = f
    BY <2>1, <2>2 DEF HasNodes, DefsOf, DefNode, Node
  <2>4. \A d \in DefsOf(f, repo[f]) : d.kind # "test" => d \in job'.known
    BY <2>1, <2>3 DEF NodesOf
  <2>5. Registers(f)'
    BY <2>1, <2>4, RegisteredFacts DEF Registers
  <2>. QED BY <1>s, <1>w, <1>k, <2>1, <2>5
<1>4. ASSUME NEW f \in Files, Parse(f) PROVE IncrementalInv'
  <2>1. /\ Calm /\ Walking /\ repo' = repo /\ crashes' = crashes
        /\ job'.step = "record" /\ job'.todo = job.todo /\ job.known \subseteq job'.known
    BY <1>0, <1>4 DEF Parse, Running, Calm, Walking, Jobs
  <2>. QED BY <1>s, <1>w, <1>k, <2>1
<1>5. ASSUME NEW f \in Files, Record(f) PROVE IncrementalInv'
  <2>1. /\ Calm /\ Walking /\ repo' = repo /\ crashes' = crashes /\ f \in Parsed
        /\ job'.step = "walk" /\ job'.todo = job.todo \ {f} /\ job'.known = job.known
    BY <1>0, <1>5 DEF Record, Running, Visited, Calm, Walking, Jobs, Inv, PendingIsRecorded, Parsed
  <2>2. Registers(f)
    BY <2>1 DEF KnownInv, Registers
  <2>. QED BY <1>s, <1>w, <1>k, <2>1, <2>2
<1>6. ASSUME NEW f \in Files, Vanish(f) PROVE IncrementalInv'
  <2>1. /\ Calm /\ Walking /\ repo' = repo /\ crashes' = crashes
        /\ job'.step = "walk" /\ job' = job
    BY <1>6 DEF Vanish, Running, Calm, Walking
  <2>. QED BY <1>s, <1>w, <1>k, <2>1
<1>7. ASSUME Resolve PROVE IncrementalInv'
  <2>. DEFINE stored == {f \in Files : FileNode(f) \in nodes}
  <2>1. /\ Calm /\ Walking /\ job.todo = {} /\ repo' = repo /\ crashes' = crashes
        /\ job'.step = "nodes" /\ job'.known = job.known
        /\ job'.modules \in ModuleIds(stored, Parsed)
    BY <1>7, ResolveFacts DEF Calm, Walking, Resolve
  <2>2. /\ AllSound(repo) /\ Sound(repo)' = Sound(repo)
        /\ \A h \in Sound(repo) : Registers(h)
    BY <1>s, <2>1
  <2>3. \A h \in Sound(repo)' : Registers(h)'
    BY <1>k, <2>1, <2>2
  <2>4. stored \cup Parsed = Sound(repo)
    BY <1>7, <2>1, <2>2, AllModules
  <2>5. ASSUME NEW q \in Modules, q # <<Blank>>
        PROVE  job'.modules[q] \in IF FilesOf(q) # {} THEN FilesOf(q) ELSE {Gone}
    <3>. HIDE DEF stored
    <3>. QED BY <2>1, <2>4, <2>5, PlainModules DEF FilesOf
  <2>6. \A q : FilesOf(q)' = FilesOf(q)
    BY <2>2 DEF FilesOf
  <2>. QED BY <2>1, <2>3, <2>5, <2>6 DEF IncrementalInv
<1>8. ASSUME NEW f \in Files, AddNodes(f) \/ AddEdges(f) PROVE IncrementalInv'
  BY <1>0, <1>8, <1>d DEF AddNodes, AddEdges, Running, Visited, Calm, Walked, Jobs
<1>9. ASSUME DropOrphanExternals \/ LinkTests PROVE IncrementalInv'
  BY <1>0, <1>9, <1>d DEF DropOrphanExternals, LinkTests, Running, Goto, Calm, Walked, Jobs
<1>10. ASSUME Finish \/ Crash PROVE FALSE
  BY <1>10 DEF Finish, Crash, NoJob, Calm
<1>11. ASSUME NEW f, NEW c, Edit(f, c) PROVE FALSE
  BY <1>0, <1>11 DEF Edit, Calm, Jobs
<1>12. ASSUME UNCHANGED vars PROVE IncrementalInv'
  BY <1>12 DEF vars, IncrementalInv, Calm, Walking, Walked, AllSound, Sound, Registers, FilesOf
<1>. QED BY <1>1, <1>2, <1>3, <1>4, <1>5, <1>6, <1>7, <1>8, <1>9, <1>10, <1>11, <1>12 DEF Next

\* So it always is.
LEMMA IncrementalInvariant == Spec => []IncrementalInv
<1>1. Init => IncrementalInv
  BY DEF Init, IncrementalInv, Calm, NoJob
<1>. QED BY <1>1, IncrementalNext, SpecInv, WalkInvariant, KnownInvariant, CompleteInvariant, PTL DEF Spec

\* A name that a file defines stands for something.
LEMMA DefinedExists ==
    ASSUME NEW f \in Files, NEW c \in Content, NEW d \in ToSet(c.defs)
    PROVE  DefinedAs(f, c, <<NameOf(d)>>) # {}
<1>. DEFINE q == <<NameOf(d)>>
            same == {i \in DOMAIN c.defs : c.defs[i].qual = q}
            alike == {i \in DOMAIN c.defs : <<NameOf(c.defs[i])>> = q}
            last == {i \in same : \A j \in same : j <= i}
            first == {i \in alike : \A j \in alike : i <= j}
<1>1. Len(c.defs) \in Nat /\ DOMAIN c.defs = 1 .. Len(c.defs)
  BY DEF Content
<1>2. same \subseteq 0 .. Len(c.defs) /\ alike \subseteq Nat
  BY <1>1
<1>3. alike # {}
  BY DEF ToSet
<1>4. DefinedAs(f, c, q) = {DefNode(f, c.defs[i]) : i \in IF same # {} THEN last ELSE first}
  BY DEF DefinedAs
<1>. HIDE DEF same, alike, q
<1>5. CASE same # {}
  <2>1. Max(same) \in same /\ \A j \in same : Max(same) >= j
    BY <1>1, <1>2, <1>5, MaxFacts
  <2>2. \A j \in same : j <= Max(same)
    BY <1>2, <2>1
  <2>3. Max(same) \in last
    BY <2>1, <2>2
  <2>. QED BY <1>4, <1>5, <2>3 DEF q
<1>6. CASE same = {}
  <2>1. PICK i \in alike : \A j \in alike : i <= j
    BY <1>2, <1>3, LeastNat
  <2>2. i \in first
    BY <2>1
  <2>. QED BY <1>4, <1>6, <2>2 DEF q
<1>. QED BY <1>5, <1>6

\* What is registered of a clear name is the same whether a file is skipped or parsed.
LEMMA ClearRegistered ==
    ASSUME Inv, NEW n, Clear(n), NEW g \in Sound(repo), NEW d \in DefsOf(g, repo[g]), NameOf(d) = n
    PROVE  d \in Registered(g, repo[g]) /\ d.kind # "test"
<1>1. g \in Files /\ repo[g] \in Content
  BY DEF Sound, Inv, TypeInv, TypeOK, Contents
<1>2. PICK x \in ToSet(repo[g].defs) : d = DefNode(g, x)
  BY DEF DefsOf
<1>3. NameOf(x) = n
  BY <1>2 DEF NameOf, DefNode, Node
<1>4. PICK e \in DefinedAs(g, repo[g], <<n>>) : TRUE
  BY <1>1, <1>3, DefinedExists
<1>5. e \in DefsOf(g, repo[g])
  BY <1>4, DefinedFacts
<1>6. NameOf(e) = n
  BY <1>4, DefinedName DEF Last
<1>7. d = e /\ d.kind # "test"
  BY <1>5, <1>6 DEF Clear
<1>8. e \in Registered(g, repo[g])
  BY <1>3, <1>4 DEF Registered
<1>. QED BY <1>7, <1>8

\* So an ingest knows the definitions of a clear name that ingesting everything would.
LEMMA ClearKnown ==
    ASSUME Inv, KnownInv, IncrementalInv, Calm, Walked, crashes = 0, AllSound(repo), NEW n, Clear(n)
    PROVE  Sole(job.known, n) = Sole(FreshKnown(repo), n)
<1>. DEFINE K == job.known
            L == FreshKnown(repo)
<1>1. ASSUME NEW d \in K, NameOf(d) = n PROVE d \in L
  <2>1. PICK g \in Sound(repo) : d \in DefsOf(g, repo[g])
    BY <1>1 DEF KnownInv, Defined
  <2>2. d \in Registered(g, repo[g])
    BY <1>1, <2>1, ClearRegistered
  <2>. QED BY <2>2 DEF FreshKnown
<1>2. ASSUME NEW d \in L, NameOf(d) = n PROVE d \in K
  <2>1. PICK g \in Sound(repo) : d \in Registered(g, repo[g])
    BY <1>2 DEF FreshKnown
  <2>2. d.kind # "test"
    BY <1>2, <2>1, RegisteredFacts, ClearRegistered
  <2>3. Registers(g)
    BY DEF IncrementalInv, Walking, Walked
  <2>. QED BY <2>1, <2>2, <2>3 DEF Registers
<1>. HIDE DEF K, L
<1>3. {d \in K : NameOf(d) = n} = {d \in L : NameOf(d) = n}
  BY <1>1, <1>2
<1>4. Sole(K, n) = Sole(L, n)
  BY <1>3 DEF Sole
<1>. QED BY <1>4 DEF K, L

\* A use is resolved by the definitions of the names that are sought for it.
LEMMA CalleeAgrees ==
    ASSUME NEW f, NEW c, NEW u, NEW K, NEW L, \A n \in Sought(c, u) : Sole(K, n) = Sole(L, n)
    PROVE  Callee(f, c, u.raw, K) = Callee(f, c, u.raw, L)
<1>1. Sole(K, Last(u.raw)) = Sole(L, Last(u.raw))
  BY DEF Sought
<1>2. \A n \in Alias(c, u.raw) : Sole(K, n) = Sole(L, n)
  BY DEF Sought
<1>3. UNION {Sole(K, n) : n \in Alias(c, u.raw)} = UNION {Sole(L, n) : n \in Alias(c, u.raw)}
  BY <1>2
<1>. DEFINE In(alias, sole) ==
                LET found == IF DefinedAs(f, c, u.raw) # {} THEN DefinedAs(f, c, u.raw)
                             ELSE IF DefinedAs(f, c, <<Last(u.raw)>>) # {} THEN DefinedAs(f, c, <<Last(u.raw)>>)
                             ELSE IF alias # {} THEN alias
                             ELSE sole
                IN  IF found = {} THEN RawName(u.raw) ELSE CHOOSE d \in found : TRUE
<1>4. \A S : Callee(f, c, u.raw, S) = In(UNION {Sole(S, n) : n \in Alias(c, u.raw)}, Sole(S, Last(u.raw)))
  BY DEF Callee
<1>. HIDE DEF In
<1>. QED BY <1>1, <1>3, <1>4

\* An import is resolved by the modules that it is looked up as.
LEMMA ImportedAgrees ==
    ASSUME NEW i, NEW m, NEW k, \A q \in Tried(i) : q \in Modules => m[q] = k[q]
    PROVE  Imported(i, m) = Imported(i, k)
<1>. DEFINE At(q, x) == IF q \in Modules THEN x[q] ELSE Gone
<1>1. \A q \in Tried(i) : At(q, m) = At(q, k)
  OBVIOUS
<1>2. (i.symbol => i.full \in Tried(i)) /\ Module(i) \in Tried(i) /\ Parent(Module(i)) \in Tried(i)
  BY DEF Tried
<1>3. \A x : Imported(i, x) =
        LET q == IF i.symbol /\ At(i.full, x) # Gone THEN i.full
                 ELSE IF At(Module(i), x) # Gone THEN Module(i)
                 ELSE Parent(Module(i))
        IN  IF At(q, x) # Gone THEN FileNode(At(q, x)) ELSE ExternalNode(Module(i))
  BY DEF Imported
<1>. HIDE DEF At
<1>. QED BY <1>1, <1>2, <1>3

\* The modules of an ingest are those of ingesting everything anew, but for the root.
LEMMA FreshModulesExist ==
    ASSUME Inv, IncrementalInv, Calm, Walked, crashes = 0, AllSound(repo)
    PROVE  \E m \in FreshModules(repo) : \A q \in Modules \ {<<Blank>>} : m[q] = job.modules[q]
<1>. DEFINE m == [q \in Modules |->
                    IF q # <<Blank>> THEN job.modules[q]
                    ELSE IF FilesOf(q) # {} THEN CHOOSE f \in FilesOf(q) : TRUE ELSE Gone]
<1>1. ASSUME NEW q \in Modules PROVE m[q] \in IF FilesOf(q) # {} THEN FilesOf(q) ELSE {Gone}
  <2>1. CASE q # <<Blank>>
    BY <2>1 DEF IncrementalInv
  <2>2. CASE q = <<Blank>> /\ FilesOf(q) # {}
    <3>1. m[q] = CHOOSE f \in FilesOf(q) : TRUE
      BY <2>2
    <3>. HIDE DEF m
    <3>. QED BY <2>2, <3>1
  <2>3. CASE q = <<Blank>> /\ FilesOf(q) = {}
    BY <2>3
  <2>. QED BY <2>1, <2>2, <2>3
<1>2. \A q \in Modules \ {<<Blank>>} : m[q] = job.modules[q]
  OBVIOUS
<1>3. DOMAIN m = Modules /\ m = [q \in Modules |-> m[q]]
  OBVIOUS
<1>. HIDE DEF m
<1>4. m \in [Modules -> Files \cup {Gone}]
  <2>1. \A q \in Modules : m[q] \in Files \cup {Gone}
    BY <1>1 DEF FilesOf, Sound
  <2>. QED BY <1>3, <2>1
<1>5. m \in FreshModules(repo)
  <2>1. ASSUME NEW q \in Modules
        PROVE  LET old == {f \in {} : ModuleOf[f] = q /\ q # <<Blank>>}
                   new == {f \in Sound(repo) : ModuleOf[f] = q}
               IN  m[q] \in IF old # {} THEN old ELSE IF new # {} THEN new ELSE {Gone}
    BY <1>1 DEF FilesOf
  <2>. QED BY <1>4, <2>1 DEF FreshModules, ModuleIds
<1>. QED BY <1>2, <1>5

\* As long as no ingest died and the repository parses, an incremental ingest
\* gives a changed file the edges that ingesting everything anew would: what it uses
\* of clear names, and what it imports of modules other than the root's
\* (ingest_repo, _resolve).
THEOREM IncrementalIngestAgrees == Spec => []IncrementalAgrees
<1>1. Inv /\ WalkInv /\ KnownInv /\ OutInv /\ IncrementalInv => IncrementalAgrees
  <2>. SUFFICES ASSUME Inv, WalkInv, KnownInv, OutInv, IncrementalInv, Running("done"), job.quiet,
                       crashes = 0, AllSound(repo)
                PROVE  \E m \in FreshModules(repo) : \A f \in Parsed :
                         LET c == repo[f]
                             out == {e \in edges : e.source.file = f /\ e.kind # "tests"}
                             told == {u \in c.uses : \A n \in Sought(c, u) : Clear(n)}
                             plain == {i \in ToSet(c.imports) : <<Blank>> \notin Tried(i)}
                             agreed == Contained(f, c)
                                       \cup {UseEdge(f, c, u, FreshKnown(repo)) : u \in told}
                                       \cup {ImportEdge(f, i, m) : i \in plain}
                         IN  agreed \subseteq out /\ (told = c.uses /\ plain = ToSet(c.imports) => out = agreed)
    BY DEF IncrementalAgrees
  <2>1. Calm /\ Walked /\ job.todo = {}
    BY DEF Running, Calm, Walked, WalkInv
  <2>2. PICK m \in FreshModules(repo) : \A q \in Modules \ {<<Blank>>} : m[q] = job.modules[q]
    BY <2>1, FreshModulesExist
  <2>3. ASSUME NEW f \in Parsed
        PROVE  LET c == repo[f]
                   out == {e \in edges : e.source.file = f /\ e.kind # "tests"}
                   told == {u \in c.uses : \A n \in Sought(c, u) : Clear(n)}
                   plain == {i \in ToSet(c.imports) : <<Blank>> \notin Tried(i)}
                   agreed == Contained(f, c)
                             \cup {UseEdge(f, c, u, FreshKnown(repo)) : u \in told}
                             \cup {ImportEdge(f, i, m) : i \in plain}
               IN  agreed \subseteq out /\ (told = c.uses /\ plain = ToSet(c.imports) => out = agreed)
    <3>. DEFINE c == repo[f]
                out == {e \in edges : e.source.file = f /\ e.kind # "tests"}
                told == {u \in c.uses : \A n \in Sought(c, u) : Clear(n)}
                plain == {i \in ToSet(c.imports) : <<Blank>> \notin Tried(i)}
                A == Contained(f, c)
                B == {UseEdge(f, c, u, FreshKnown(repo)) : u \in told}
                D == {ImportEdge(f, i, m) : i \in plain}
    <3>1. out = Resolved(f, c, job.known, job.modules)
      BY <2>1 DEF OutInv, OutOf
    <3>2. ASSUME NEW u \in told
          PROVE  UseEdge(f, c, u, FreshKnown(repo)) = UseEdge(f, c, u, job.known)
      <4>1. \A n \in Sought(c, u) : Sole(job.known, n) = Sole(FreshKnown(repo), n)
        BY <2>1, <3>2, ClearKnown
      <4>2. Callee(f, c, u.raw, job.known) = Callee(f, c, u.raw, FreshKnown(repo))
        BY <4>1, CalleeAgrees
      <4>. QED BY <4>2 DEF UseEdge
    <3>3. ASSUME NEW i \in plain PROVE ImportEdge(f, i, m) = ImportEdge(f, i, job.modules)
      <4>1. \A q \in Tried(i) : q \in Modules => m[q] = job.modules[q]
        BY <2>2, <3>3
      <4>2. Imported(i, m) = Imported(i, job.modules)
        BY <4>1, ImportedAgrees
      <4>. QED BY <4>2 DEF ImportEdge
    <3>. DEFINE U == {UseEdge(f, c, u, job.known) : u \in c.uses}
                I == {ImportEdge(f, i, job.modules) : i \in ToSet(c.imports)}
    <3>4. out = A \cup U \cup I
      BY <3>1 DEF Resolved
    <3>5. B \subseteq U /\ (told = c.uses => U = B)
      BY <3>2
    <3>6. D \subseteq I /\ (plain = ToSet(c.imports) => I = D)
      BY <3>3
    <3>. HIDE DEF A, B, D, U, I, out, told, plain
    <3>7. A \cup B \cup D \subseteq out /\ (told = c.uses /\ plain = ToSet(c.imports) => out = A \cup B \cup D)
      BY <3>4, <3>5, <3>6
    <3>. QED BY <3>7 DEF A, B, D, out, told, plain
  <2>. QED BY <2>2, <2>3
<1>. QED BY <1>1, SpecInv, WalkInvariant, KnownInvariant, OutInvariant, IncrementalInvariant, PTL
----------------------------------------------------------------------------
(* A forced ingest repairs everything.                                     *)

\* What the second pass has written so far, the nodes of the current file included.
Written == {f \in Sound(repo) : f \notin job.todo \/ (job.step = "edges" /\ f = job.now)}

\* The nodes of a file as the repository has it.
Own(f) == {FileNode(f)} \cup DefsOf(f, repo[f])

\* The placeholders of what it imports.
Outside(f) == {ExternalNode(Module(i)) : i \in ToSet(repo[f].imports)}

\* The second pass of an ingest of everything starts from nothing, and what is
\* in the graph is what it has written.
ForcedInv ==
    (Calm /\ job.force /\ AllSound(repo) /\ Walked) =>
        /\ job.modules \in FreshModules(repo)
        /\ \A n \in nodes : n.kind # "external" =>
              \E f \in Sound(repo) : (job.step \in {"nodes", "edges"} => f \in Written) /\ n \in Own(f)
        /\ \A f \in Written : Own(f) \subseteq nodes
        /\ job.step \in {"nodes", "edges"} =>
              \A f \in Written : Outside(f) \subseteq nodes
        /\ \A e \in edges : e.source.file \in Sound(repo)
        /\ job.step \in {"link", "done"} =>
              \A e \in edges : e.target.kind = "external" => e.target \in nodes
        /\ job.step # "done" => \A e \in edges : e.kind # "tests"
        /\ job.step = "done" => \A e \in edges : e.kind = "tests" => e \in TestEdges(nodes, edges)

\* An edge to an external module is an import of the file.
LEMMA ExternalTargets ==
    ASSUME NEW f, NEW c, NEW K, NEW m, ModulesAgree(m), \A d \in K : d.kind # "external",
           NEW e \in Resolved(f, c, K, m), e.target.kind = "external"
    PROVE  e.target \in {ExternalNode(Module(i)) : i \in ToSet(c.imports)}
<1>1. \A d \in DefsOf(f, c) : d.kind # "external"
  BY DEF DefsOf, DefNode, Node
<1>2. CASE \E u \in c.uses : e = UseEdge(f, c, u, K)
  <2>1. PICK u \in c.uses : e.target = Callee(f, c, u.raw, K)
    BY <1>2 DEF UseEdge, Edge
  <2>2. RawName(u.raw).kind # "external"
    BY DEF RawName, Node
  <2>3. Callee(f, c, u.raw, K).kind # "external"
    BY <1>1, <2>2, CalleeFacts
  <2>. QED BY <2>1, <2>3
<1>3. CASE \E i \in ToSet(c.imports) : e = ImportEdge(f, i, m)
  <2>1. PICK i \in ToSet(c.imports) : e.target = Imported(i, m)
    BY <1>3 DEF ImportEdge, Edge
  <2>2. \A g : FileNode(g).kind # "external"
    BY DEF FileNode, Node
  <2>3. Imported(i, m) = ExternalNode(Module(i))
    BY <2>1, <2>2, ImportedFacts
  <2>. QED BY <2>1, <2>3
<1>4. CASE e \in Contained(f, c)
  <2>1. e.target \in DefsOf(f, c)
    BY <1>4 DEF Contained, Edge, DefsOf
  <2>. QED BY <1>1, <2>1
<1>. QED BY <1>2, <1>3, <1>4 DEF Resolved

\* When the walk of an ingest of everything is over the graph has no nodes but
\* external ones, and no edges.
LEMMA Forgotten ==
    ASSUME Inv, SourcesAreThere, WalkInv, OutInv, Calm, job.force, AllSound(repo), Resolve
    PROVE  /\ Parsed = Sound(repo)
           /\ \A n \in nodes : n.kind = "external"
           /\ edges = {}
<1>1. /\ job.step = "walk" /\ job.todo = {}
      /\ \A f \in Files : files[f] # Gone => f \in job.seen
  BY ResolveFacts
<1>2. job.seen = Sound(repo)
  BY AllSoundFacts DEF WalkInv
<1>3. Parsed = Sound(repo)
  BY <1>1 DEF WalkInv, Walking
<1>4. ASSUME NEW n \in nodes, n.kind # "external" PROVE FALSE
  <2>1. n.file \in Files /\ files[n.file] # Gone
    BY <1>4 DEF Inv, NodesMatchRecord
  <2>2. n.file \in Parsed
    BY <1>1, <1>2, <1>3, <2>1
  <2>3. NodesOf(n.file) = {}
    BY <1>1, <2>2 DEF OutInv, Walking
  <2>. QED BY <1>4, <2>3 DEF NodesOf
<1>5. edges = {}
  BY <1>4 DEF SourcesAreThere, Anchored
<1>. QED BY <1>3, <1>4, <1>5

\* The second pass writes what the repository has.
LEMMA ForcedNext ==
    Inv /\ SourcesAreThere /\ WalkInv /\ KnownInv /\ OutInv /\ ForcedInv /\ [Next]_vars => ForcedInv'
<1>. SUFFICES ASSUME Inv, SourcesAreThere, WalkInv, KnownInv, OutInv, ForcedInv, [Next]_vars,
                     Calm', job'.force, AllSound(repo)', Walked'
              PROVE  ForcedInv'
  BY DEF ForcedInv
<1>0. job \in Jobs /\ repo \in Contents /\ files \in Contents
  BY DEF Inv, TypeInv, TypeOK, Jobs
<1>w. ASSUME Calm, job.force, Walked, AllSound(repo)
      PROVE  \A f \in Parsed : f \in Sound(repo) /\ job.pending[f] = repo[f]
  BY <1>w DEF WalkInv
<1>1. ASSUME NEW f, Begin(f) \/ Skip(f) \/ Unchanged(f) \/ Parse(f) \/ Record(f) \/ Vanish(f) PROVE FALSE
  <2>1. job'.step \in {"walk", "record"}
    BY <1>0, <1>1 DEF Begin, Skip, Unchanged, Parse, Record, Vanish, Running, Visited, NoJob, Jobs
  <2>. QED BY <2>1 DEF Walked
<1>m. ASSUME repo' = repo PROVE FreshModules(repo)' = FreshModules(repo)
  BY <1>m DEF FreshModules, Sound
<1>2. ASSUME Resolve PROVE ForcedInv'
  <2>. DEFINE stored == {f \in Files : FileNode(f) \in nodes}
  <2>1. /\ Calm /\ job.force /\ repo' = repo /\ nodes' = nodes /\ edges' = edges
        /\ job'.step = "nodes" /\ job'.todo = Parsed
        /\ job'.modules \in ModuleIds(stored, Parsed)
    BY <1>2, ResolveFacts DEF Calm
  <2>2. AllSound(repo)
    BY <2>1 DEF AllSound
  <2>3. Parsed = Sound(repo) /\ (\A n \in nodes : n.kind = "external") /\ edges = {}
    BY <1>2, <2>1, <2>2, Forgotten
  <2>4. Written' = {} /\ Sound(repo)' = Sound(repo)
    BY <2>1, <2>3 DEF Written, Sound
  <2>5. stored = {}
    BY <2>3 DEF FileNode, Node
  <2>. HIDE DEF stored
  <2>6. job'.modules \in FreshModules(repo)'
    BY <1>m, <2>1, <2>3, <2>5 DEF FreshModules
  <2>. QED BY <2>1, <2>3, <2>4, <2>6 DEF ForcedInv
<1>3. ASSUME NEW f \in Files, AddNodes(f) PROVE ForcedInv'
  <2>1. /\ Calm /\ job.force /\ Walked /\ repo' = repo /\ edges' = edges
        /\ job.step = "nodes" /\ f \in job.todo /\ job'.step = "edges" /\ job'.now = f
        /\ job'.todo = job.todo /\ job'.modules = job.modules
        /\ nodes' = nodes \cup Extracted(f, job.pending[f])
    BY <1>0, <1>3 DEF AddNodes, Running, Calm, Walked, Jobs
  <2>2. AllSound(repo) /\ Sound(repo)' = Sound(repo) /\ \A g : Own(g)' = Own(g)
    BY <2>1 DEF AllSound, Sound, Own
  <2>3. f \in Sound(repo) /\ job.pending[f] = repo[f]
    BY <1>w, <2>1, <2>2 DEF Inv, PendingIsRecorded
  <2>4. Written' = Written \cup {f}
    BY <2>1, <2>2, <2>3 DEF Written
  <2>5. Extracted(f, repo[f]) = Own(f) \cup Outside(f)
    BY DEF Extracted, Own, Outside
  <2>6. \A n \in Outside(f) : n.kind = "external"
    BY DEF Outside, ExternalNode, Node
  <2>7. /\ job.modules \in FreshModules(repo)
        /\ \A n \in nodes : n.kind # "external" => \E h \in Written : n \in Own(h)
        /\ \A h \in Written : Own(h) \subseteq nodes /\ Outside(h) \subseteq nodes
        /\ \A e \in edges : e.source.file \in Sound(repo)
        /\ \A e \in edges : e.kind # "tests"
    BY <2>1, <2>2 DEF ForcedInv
  <2>8. \A h : Outside(h)' = Outside(h)
    BY <2>1 DEF Outside
  <2>9. Written \subseteq Sound(repo)
    BY DEF Written
  <2>10. nodes' = nodes \cup Own(f) \cup Outside(f)
    BY <2>1, <2>3, <2>5
  <2>11. \A n \in nodes' : n.kind # "external" =>
            \E h \in Sound(repo)' : h \in Written' /\ n \in Own(h)'
    BY <2>2, <2>3, <2>4, <2>6, <2>7, <2>9, <2>10
  <2>12. \A h \in Written' : Own(h)' \subseteq nodes' /\ Outside(h)' \subseteq nodes'
    BY <2>2, <2>4, <2>7, <2>8, <2>10
  <2>. QED BY <1>m, <2>1, <2>2, <2>7, <2>11, <2>12 DEF ForcedInv
<1>4. ASSUME NEW f \in Files, AddEdges(f) PROVE ForcedInv'
  <2>. DEFINE new == Resolved(f, job.pending[f], job.known, job.modules)
  <2>1. /\ Calm /\ job.force /\ Walked /\ repo' = repo /\ nodes' = nodes
        /\ job.step = "edges" /\ f = job.now /\ job'.step = "nodes"
        /\ job'.todo = job.todo \ {f} /\ job'.modules = job.modules
    BY <1>0, <1>4 DEF AddEdges, Running, Visited, Calm, Walked, Jobs
  <2>2. AllSound(repo) /\ Sound(repo)' = Sound(repo) /\ \A g : Own(g)' = Own(g)
    BY <2>1 DEF AllSound, Sound, Own
  <2>3. f \in Sound(repo) /\ edges' = edges \cup new
    BY <1>4, <1>w, <2>1, <2>2, WritesFacts
  <2>4. \A e \in new : e.source.file = f /\ e.kind # "tests"
    BY <1>4, WrittenSources
  <2>. HIDE DEF new
  <2>5. Written' = Written
    BY <2>1, <2>2, <2>3 DEF Written
  <2>6. \A h : Outside(h)' = Outside(h)
    BY <2>1 DEF Outside
  <2>. QED BY <1>m, <2>1, <2>2, <2>3, <2>4, <2>5, <2>6 DEF ForcedInv
<1>5. ASSUME DropOrphanExternals PROVE ForcedInv'
  <2>1. /\ Calm /\ job.force /\ Walked /\ repo' = repo /\ edges' = edges
        /\ job.step = "nodes" /\ job.todo = {} /\ job'.step = "link" /\ job'.todo = {}
        /\ job'.modules = job.modules
        /\ nodes' = {n \in nodes : n.kind = "external" => \E e \in edges : e.target = n}
    BY <1>0, <1>5 DEF DropOrphanExternals, Running, Goto, Calm, Walked, Jobs
  <2>2. AllSound(repo) /\ Sound(repo)' = Sound(repo) /\ \A g : Own(g)' = Own(g)
    BY <2>1 DEF AllSound, Sound, Own
  <2>3. Written = Sound(repo) /\ Written' = Sound(repo)
    BY <2>1, <2>2 DEF Written
  <2>4. \A h : \A n \in Own(h) : n.kind # "external"
    BY DEF Own, FileNode, DefsOf, DefNode, Node
  <2>5. Sound(repo) \subseteq Parsed /\ \A d \in job.known : d.kind # "external"
    BY <2>1 DEF WalkInv, KnownInv, Defined, DefsOf, DefNode, Node
  <2>6. ASSUME NEW e \in edges, e.target.kind = "external" PROVE e.target \in nodes'
    <3>1. e.source.file \in Sound(repo) /\ e.kind # "tests"
      BY <2>1, <2>2 DEF ForcedInv
    <3>. DEFINE h == e.source.file
    <3>2. e \in Resolved(h, repo[h], job.known, job.modules)
      BY <2>1, <2>5, <3>1 DEF OutInv, OutOf
    <3>3. e.target \in Outside(h)
      BY <2>5, <2>6, <3>2, ExternalTargets DEF Outside, Inv, TypeInv, ContentsAreSources
    <3>4. e.target \in nodes
      BY <2>1, <2>2, <2>3, <3>1, <3>3 DEF ForcedInv
    <3>. QED BY <2>1, <3>4
  <2>7. /\ job.modules \in FreshModules(repo)
        /\ \A n \in nodes : n.kind # "external" => \E h \in Sound(repo) : n \in Own(h)
        /\ \A h \in Sound(repo) : Own(h) \subseteq nodes
        /\ \A e \in edges : e.source.file \in Sound(repo)
        /\ \A e \in edges : e.kind # "tests"
    BY <2>1, <2>2, <2>3 DEF ForcedInv
  <2>8. \A h \in Sound(repo) : Own(h) \subseteq nodes'
    BY <2>1, <2>4, <2>7
  <2>. QED BY <1>m, <2>1, <2>2, <2>3, <2>6, <2>7, <2>8 DEF ForcedInv
<1>6. ASSUME LinkTests PROVE ForcedInv'
  <2>1. /\ Calm /\ job.force /\ Walked /\ repo' = repo /\ nodes' = nodes
        /\ edges' = edges \cup TestEdges(nodes, edges)
        /\ job.step = "link" /\ job'.step = "done" /\ job'.todo = job.todo
        /\ job'.modules = job.modules
    BY <1>0, <1>6 DEF LinkTests, Running, Goto, Calm, Walked, Jobs
  <2>2. AllSound(repo) /\ Sound(repo)' = Sound(repo) /\ \A g : Own(g)' = Own(g)
    BY <2>1 DEF AllSound, Sound, Own
  <2>3. Written' = Written
    BY <2>1, <2>2 DEF Written
  <2>4. \A e \in TestEdges(nodes, edges) :
            /\ e.kind = "tests" /\ e.target \in nodes
            /\ \E d \in edges : d.source = e.source
    BY DEF TestEdges, Edge
  <2>5. /\ job.modules \in FreshModules(repo)
        /\ \A n \in nodes : n.kind # "external" => \E h \in Sound(repo) : n \in Own(h)
        /\ \A h \in Written : Own(h) \subseteq nodes
        /\ \A e \in edges : e.source.file \in Sound(repo)
        /\ \A e \in edges : e.target.kind = "external" => e.target \in nodes
        /\ \A e \in edges : e.kind # "tests"
    BY <2>1, <2>2 DEF ForcedInv
  <2>6. TestEdges(nodes', edges') = TestEdges(nodes, edges)
    BY <2>1, <2>4 DEF TestEdges
  <2>. QED BY <1>m, <2>1, <2>2, <2>3, <2>4, <2>5, <2>6 DEF ForcedInv
<1>7. ASSUME Finish \/ Crash PROVE FALSE
  BY <1>7 DEF Finish, Crash, NoJob, Calm
<1>8. ASSUME NEW f, NEW c, Edit(f, c) PROVE FALSE
  BY <1>0, <1>8 DEF Edit, Calm, Jobs
<1>9. ASSUME UNCHANGED vars PROVE ForcedInv'
  BY <1>9 DEF vars, ForcedInv, Calm, Walked, AllSound, Sound, Written, Own, Outside, TestEdges, FreshModules
<1>. QED BY <1>1, <1>2, <1>3, <1>4, <1>5, <1>6, <1>7, <1>8, <1>9 DEF Next

\* So it always has.
LEMMA ForcedInvariant == Spec => []ForcedInv
<1>1. Init => ForcedInv
  BY DEF Init, ForcedInv, Calm, NoJob
<1>. QED BY <1>1, ForcedNext, SpecInv, SourcesInvariant, WalkInvariant, KnownInvariant, OutInvariant,
            PTL DEF Spec

\* The state that an ingest of everything ends in, undisturbed.
AllIngested == Running("done") /\ job.force /\ job.quiet /\ AllSound(repo)

ForcedFacts == Inv /\ EdgesMatchRecord /\ WalkInv /\ KnownInv /\ OutInv /\ ForcedInv

\* The edges of a file that ingesting everything gives it.
FreshEdges(f) == Resolved(f, repo[f], FreshKnown(repo), job.modules)

\* Then the files have the nodes and edges that they have by themselves.
LEMMA RepairedGraph ==
    ASSUME ForcedFacts, AllIngested
    PROVE  /\ \A f \in Files : files[f] = IF f \in Sound(repo) THEN repo[f] ELSE Gone
           /\ \A f \in Sound(repo) : Own(f) \subseteq nodes /\ FreshEdges(f) \subseteq edges
           /\ \A n \in nodes : n.kind # "external" => \E f \in Sound(repo) : n \in Own(f)
           /\ \A e \in edges : e.kind # "tests" => \E f \in Sound(repo) : e \in FreshEdges(f)
           /\ \A f \in Sound(repo) : \A e \in FreshEdges(f) : e.kind # "tests"
<1>1. /\ Calm /\ Walked /\ job.force /\ AllSound(repo) /\ job.step = "done" /\ job.todo = {}
      /\ Current /\ Present /\ NoOrphans /\ TestsLinked
      /\ Parsed = Sound(repo)
  BY DEF ForcedFacts, AllIngested, Running, Calm, Walked, WalkInv
<1>2. /\ job.modules \in FreshModules(repo)
      /\ \A n \in nodes : n.kind # "external" => \E f \in Sound(repo) : n \in Own(f)
      /\ \A f \in Sound(repo) : Own(f) \subseteq nodes
      /\ \A e \in edges : e.source.file \in Sound(repo)
  BY <1>1 DEF ForcedFacts, ForcedInv, Written
<1>3. job.known = FreshKnown(repo)
  <2>1. \A d \in job.known : \E g \in Sound(repo) : d \in Registered(g, repo[g])
    BY <1>1 DEF ForcedFacts, KnownInv
  <2>2. \A g \in Sound(repo) : Registered(g, repo[g]) \subseteq job.known
    BY <1>1 DEF ForcedFacts, KnownInv
  <2>. QED BY <2>1, <2>2 DEF FreshKnown
<1>4. \A f \in Sound(repo) : FreshEdges(f) = OutOf(f)
  BY <1>1, <1>2, <1>3 DEF ForcedFacts, OutInv, FreshEdges
<1>5. \A f \in Files : files[f] = IF f \in Sound(repo) THEN repo[f] ELSE Gone
  BY <1>1, AllSoundFacts DEF Current, Present
<1>. QED BY <1>2, <1>4, <1>5 DEF OutOf

\* The tables are those of the repository, as ingesting it anew would leave them.
LEMMA RepairedStore ==
    ASSUME ForcedFacts, AllIngested
    PROVE  job.modules \in FreshModules(repo) /\ store = Fresh(repo, job.modules)
<1>. DEFINE E == UNION {FreshEdges(f) : f \in Sound(repo)}
            F == [f \in Files |-> IF f \in Sound(repo) THEN repo[f] ELSE Gone]
            X == {d \in E : d.target.kind = "external"}
            A == UNION {{FileNode(f)} \cup DefsOf(f, repo[f]) : f \in Sound(repo)}
            B == {e.target : e \in X}
            N == (UNION {{FileNode(f)} \cup DefsOf(f, repo[f]) : f \in Sound(repo)})
                   \cup {e.target : e \in {d \in E : d.target.kind = "external"}}
<1>1. files = F
  BY RepairedGraph DEF ForcedFacts, Inv, TypeInv, TypeOK, Contents
<1>2. /\ \A e \in E : e \in edges /\ e.kind # "tests"
      /\ \A e \in edges : e.kind # "tests" => e \in E
  BY RepairedGraph
<1>3. /\ job.step = "done" /\ NoOrphans /\ TestsLinked
      /\ \A e \in edges : e.target.kind = "external" => e.target \in nodes
      /\ \A e \in edges : e.kind = "tests" => e \in TestEdges(nodes, edges)
  BY DEF ForcedFacts, AllIngested, Running, Calm, Walked, WalkInv, ForcedInv
<1>. HIDE DEF E
<1>4. TestEdges(nodes, edges) = TestEdges(nodes, E)
  BY <1>2 DEF TestEdges
<1>5. \A e \in TestEdges(nodes, edges) : \E d \in edges : d.kind = "calls" /\ d.target = e.target
  BY DEF TestEdges, Edge
<1>n. \A n : n \in A <=> \E f \in Sound(repo) : n \in Own(f)
  BY DEF Own
<1>x. \A d : d \in X <=> d \in E /\ d.target.kind = "external"
  OBVIOUS
<1>y. N = A \cup B
  OBVIOUS
<1>. HIDE DEF A, X, N
<1>6. nodes = N
  <2>1. ASSUME NEW n \in nodes PROVE n \in N
    <3>1. CASE n.kind # "external"
      BY <1>n, <1>y, <3>1, RepairedGraph
    <3>2. CASE n.kind = "external"
      <4>1. PICK e \in edges : e.target = n
        BY <1>3, <3>2 DEF NoOrphans
      <4>2. PICK d \in edges : d.kind # "tests" /\ d.target = n
        BY <1>3, <1>5, <4>1
      <4>3. d \in E
        BY <1>2, <4>2
      <4>4. d \in X
        BY <1>x, <3>2, <4>2, <4>3
      <4>. QED BY <1>y, <4>2, <4>4
    <3>. QED BY <3>1, <3>2
  <2>2. ASSUME NEW n \in N PROVE n \in nodes
    <3>1. CASE n \in A
      BY <1>n, <3>1, RepairedGraph
    <3>2. CASE n \in B
      BY <1>2, <1>3, <1>x, <3>2
    <3>. QED BY <1>y, <3>1, <3>2
  <2>. QED BY <2>1, <2>2
<1>. HIDE DEF F
<1>7. edges = E \cup TestEdges(N, E)
  BY <1>2, <1>3, <1>4, <1>6 DEF TestsLinked
<1>8. store = <<F, N, E \cup TestEdges(N, E)>>
  BY <1>1, <1>6, <1>7 DEF store
<1>9. job.modules \in FreshModules(repo)
  BY DEF ForcedFacts, AllIngested, Running, Calm, Walked, ForcedInv
<1>. QED BY <1>8, <1>9 DEF Fresh, FreshEdges, E, F, N

\* Whatever crashes and edits came before, `verity ingest --force` ends with the
\* graph of the repository as it is, if all files parse.
THEOREM ForceRepairsAll == Spec => []ForceRepairs
<1>1. ForcedFacts => ForceRepairs
  BY RepairedStore DEF ForceRepairs, AllIngested
<1>2. Inv /\ EdgesMatchRecord /\ WalkInv /\ KnownInv /\ OutInv /\ ForcedInv => ForceRepairs
  BY <1>1 DEF ForcedFacts
<1>. QED BY <1>2, SpecInv, EdgesInvariant, WalkInvariant, KnownInvariant, OutInvariant,
            ForcedInvariant, PTL
----------------------------------------------------------------------------
(* What is concluded from it.                                              *)

\* What a use is resolved to has the name that is used, if nothing redirects it.
LEMMA StraightCallee ==
    ASSUME NEW f, NEW c, NEW u, NEW K, ~Redirected(f, c, u)
    PROVE  NameOf(Callee(f, c, u.raw, K)) = Last(u.raw)
<1>. DEFINE raw == u.raw
            bare == <<Last(raw)>>
            alias == UNION {Sole(K, n) : n \in Alias(c, raw)}
            found == IF DefinedAs(f, c, raw) # {} THEN DefinedAs(f, c, raw)
                     ELSE IF DefinedAs(f, c, bare) # {} THEN DefinedAs(f, c, bare)
                     ELSE IF alias # {} THEN alias
                     ELSE Sole(K, Last(raw))
<1>1. Callee(f, c, raw, K) = IF found = {} THEN RawName(raw) ELSE CHOOSE d \in found : TRUE
  BY DEF Callee
<1>2. Callee(f, c, raw, K) = RawName(raw) \/ Callee(f, c, raw, K) \in found
  BY <1>1
<1>3. CASE Callee(f, c, raw, K) = RawName(raw)
  BY <1>3 DEF NameOf, RawName, Node
<1>4. CASE Callee(f, c, raw, K) \in DefinedAs(f, c, raw)
  BY <1>4, DefinedName
<1>5. CASE Callee(f, c, raw, K) \in DefinedAs(f, c, bare)
  <2>1. Last(bare) = Last(raw)
    BY DEF Last
  <2>. QED BY <1>5, <2>1, DefinedName
<1>6. CASE DefinedAs(f, c, raw) = {} /\ DefinedAs(f, c, bare) = {}
  <2>1. Sought(c, u) = {Last(raw)}
    BY <1>6 DEF Redirected, Sought
  <2>. QED BY <2>1, CalleeFacts
<1>7. \/ DefinedAs(f, c, raw) = {} /\ DefinedAs(f, c, bare) = {}
      \/ found = DefinedAs(f, c, raw) \/ found = DefinedAs(f, c, bare)
  OBVIOUS
<1>. HIDE DEF found
<1>. QED BY <1>2, <1>3, <1>4, <1>5, <1>6, <1>7

\* What the repository defines is in the graph, and is found by its name.
LEMMA RepairedNames ==
    ASSUME ForcedFacts, AllIngested, NEW f \in Sound(repo), NEW d \in ToSet(repo[f].defs)
    PROVE  /\ DefNode(f, d) \in nodes /\ DefNode(f, d).kind \notin {"file", "name", "external"}
           /\ DefNode(f, d) \in Named(<<NameOf(d)>>)
           /\ Define(<<NameOf(d)>>) = Named(<<NameOf(d)>>)
<1>1. DefNode(f, d) \in nodes
  BY RepairedGraph DEF Own, DefsOf
<1>2. DefNode(f, d).kind \notin {"file", "name", "external"} /\ DefNode(f, d).qual = d.qual
  BY DEF DefNode, Node
<1>3. DefNode(f, d) \in Named(<<NameOf(d)>>)
  BY <1>1, <1>2 DEF Named, NameOf
<1>4. Define(<<NameOf(d)>>) = Named(<<NameOf(d)>>)
  BY <1>3 DEF Define
<1>. QED BY <1>1, <1>2, <1>3, <1>4

\* It is found by its dotted name, too, if a search returns all that it matches.
LEMMA RepairedQuals ==
    ASSUME ForcedFacts, AllIngested, NEW f \in Sound(repo), NEW d \in ToSet(repo[f].defs),
           Cardinality(Matching(d.qual)) <= SearchLimit
    PROVE  Define(d.qual) # {}
<1>1. DefNode(f, d) \in nodes /\ DefNode(f, d).qual = d.qual
  BY RepairedNames DEF DefNode, Node
<1>2. DefNode(f, d) \in SearchNodes(d.qual, SearchLimit)
  BY <1>1 DEF SearchNodes, Matching
<1>. QED BY <1>1, <1>2 DEF Define

\* The edge of a use leads to a definition of the name, or to the name.
LEMMA RepairedUses ==
    ASSUME ForcedFacts, AllIngested, NEW f \in Sound(repo), NEW u \in repo[f].uses, ~Redirected(f, repo[f], u),
           NEW g \in Sound(repo), NEW d \in ToSet(repo[g].defs), NameOf(d) = Last(u.raw)
    PROVE  DefinedRelation(<<NameOf(u.by)>>, <<NameOf(d)>>, u.kind) # "contradicted"
<1>. DEFINE s == DefNode(f, u.by)
            t == Callee(f, repo[f], u.raw, FreshKnown(repo))
            e == Edge(u.kind, s, t)
            n == NameOf(u.by)
            m == NameOf(d)
<1>1. u.by \in ToSet(repo[f].defs)
  <2>1. repo[f] \in Sources[f] /\ f \in Files
    BY DEF ForcedFacts, Inv, TypeInv, ContentsAreSources, Sound
  <2>. QED BY <2>1, SourcesFacts DEF WellFormed
<1>2. /\ s \in Named(<<n>>) /\ Define(<<n>>) = Named(<<n>>)
      /\ Named(<<m>>) # {} /\ Define(<<m>>) = Named(<<m>>)
  BY <1>1, RepairedNames
<1>3. e \in edges
  <2>1. e \in FreshEdges(f)
    BY DEF FreshEdges, Resolved, UseEdge
  <2>. HIDE DEF e
  <2>. QED BY <2>1, RepairedGraph
<1>4. e.kind = u.kind /\ e.source = s /\ e.target = t /\ e.resolved = (t.kind \notin {"name", "external"})
  BY DEF Edge
<1>5. Last(t.qual) = m
  <2>1. NameOf(t) = Last(u.raw)
    BY StraightCallee
  <2>. QED BY <2>1 DEF NameOf
<1>6. t = RawName(u.raw) \/ \E h \in Sound(repo) : t \in DefsOf(h, repo[h])
  <2>1. t = RawName(u.raw) \/ t \in DefsOf(f, repo[f]) \/ t \in FreshKnown(repo)
    BY CalleeFacts
  <2>2. ASSUME t \in FreshKnown(repo) PROVE \E h \in Sound(repo) : t \in DefsOf(h, repo[h])
    BY <2>2, RegisteredFacts DEF FreshKnown
  <2>. QED BY <2>1, <2>2
<1>. HIDE DEF s, t, e
<1>7. CASE t.kind \in {"name", "external"}
  <2>1. ~e.resolved
    BY <1>4, <1>7
  <2>2. Last(<<m>>) = m
    BY DEF Last
  <2>3. Unsure(<<n>>, <<m>>, u.kind)
    BY <1>2, <1>3, <1>4, <1>5, <2>1, <2>2 DEF Unsure
  <2>. QED BY <1>2, <2>3 DEF DefinedRelation
<1>8. CASE t.kind \notin {"name", "external"}
  <2>1. PICK h \in Sound(repo) : t \in DefsOf(h, repo[h])
    BY <1>6, <1>8 DEF RawName, Node
  <2>2. t \in nodes /\ t.kind # "file"
    BY <2>1, RepairedGraph DEF Own, DefsOf, DefNode, Node
  <2>3. t \in Outward(s, u.kind)
    BY <1>3, <1>4, <1>8, <2>2 DEF Outward
  <2>4. t \in Named(<<m>>)
    BY <1>5, <2>2 DEF Named
  <2>5. Linked(<<n>>, <<m>>, u.kind)
    BY <1>2, <2>3, <2>4 DEF Linked
  <2>. QED BY <1>2, <2>5 DEF DefinedRelation
<1>. QED BY <1>7, <1>8

\* The one file of a module is what the module is taken for, and no file if it has none.
LEMMA FreshModulesFacts ==
    ASSUME NEW m \in FreshModules(repo), NEW q \in Modules
    PROVE  /\ \A g \in Files : FilesOf(q) = {g} => m[q] = g
           /\ FilesOf(q) = {} => m[q] = Gone
<1>. DEFINE old == {f \in {} : ModuleOf[f] = q /\ q # <<Blank>>}
            new == {f \in Sound(repo) : ModuleOf[f] = q}
<1>1. m[q] \in IF old # {} THEN old ELSE IF new # {} THEN new ELSE {Gone}
  BY DEF FreshModules, ModuleIds
<1>2. old = {} /\ new = FilesOf(q)
  BY DEF FilesOf
<1>. HIDE DEF old, new
<1>. QED BY <1>1, <1>2

\* An import of the full name of one file's module is resolved to the file.
LEMMA RepairedImports ==
    ASSUME ForcedFacts, AllIngested, NEW f \in Files, NEW g \in Files, TrulyImports(f, g)
    PROVE  /\ f \in Sound(repo) /\ g \in Sound(repo)
           /\ FileNode(f) \in nodes /\ FileNode(g) \in nodes
           /\ FileNode(g) \in Outward(FileNode(f), "imports")
           /\ FileNode(f) \in ImportedBy(g)
<1>. DEFINE m == job.modules
            At(q) == IF q \in Modules THEN m[q] ELSE Gone
<1>1. PICK i \in ImportsOf(f, repo) : FilesOf(Truly(i)) = {g}
  BY DEF TrulyImports, FilesOf
<1>2. f \in Sound(repo) /\ i \in ToSet(repo[f].imports)
  BY <1>1 DEF ImportsOf, AllIngested, AllSound, Sound
<1>3. g \in Sound(repo) /\ Truly(i) \in Modules /\ g # Gone
  BY <1>1, FilesAssumption DEF FilesOf, Modules
<1>4. m \in FreshModules(repo)
  BY RepairedStore
<1>5. At(Truly(i)) = g
  BY <1>1, <1>3, <1>4, FreshModulesFacts
<1>6. ASSUME i.symbol, Truly(i) # i.full PROVE At(i.full) = Gone
  <2>1. FilesOf(i.full) = {}
    BY <1>6 DEF Truly, FilesOf
  <2>. QED BY <1>4, <2>1, FreshModulesFacts
<1>7. Truly(i) = Module(i) \/ (i.symbol /\ Truly(i) = i.full)
  BY DEF Truly
<1>8. Imported(i, m) =
        LET q == IF i.symbol /\ At(i.full) # Gone THEN i.full
                 ELSE IF At(Module(i)) # Gone THEN Module(i)
                 ELSE Parent(Module(i))
        IN  IF At(q) # Gone THEN FileNode(At(q)) ELSE ExternalNode(Module(i))
  BY DEF Imported
<1>. HIDE DEF At, m
<1>9. Imported(i, m) = FileNode(g)
  <2>1. CASE i.symbol /\ Truly(i) = i.full
    BY <1>3, <1>5, <1>8, <2>1
  <2>2. CASE ~(i.symbol /\ Truly(i) = i.full)
    BY <1>3, <1>5, <1>6, <1>7, <1>8, <2>2
  <2>. QED BY <2>1, <2>2
<1>. DEFINE e == Edge("imports", FileNode(f), FileNode(g))
<1>10. e \in edges
  <2>1. e \in FreshEdges(f)
    BY <1>2, <1>9 DEF FreshEdges, Resolved, ImportEdge, m
  <2>. HIDE DEF e
  <2>. QED BY <1>2, <2>1, RepairedGraph
<1>11. e.kind = "imports" /\ e.source = FileNode(f) /\ e.target = FileNode(g) /\ e.resolved
  BY DEF Edge, FileNode, Node
<1>12. FileNode(f) \in nodes /\ FileNode(g) \in nodes
  BY <1>2, <1>3, RepairedGraph DEF Own
<1>. HIDE DEF e
<1>. QED BY <1>2, <1>3, <1>10, <1>11, <1>12 DEF Outward, ImportedBy, Inward

\* At least as many nodes import a file as files do.
LEMMA ImportersCounted ==
    ASSUME ForcedFacts, AllIngested, NEW g \in Files
    PROVE  /\ Cardinality({f \in Files : TrulyImports(f, g)}) <= Cardinality(ImportedBy(g))
           /\ Cardinality(ImportedBy(g)) \in Nat
<1>. DEFINE S == {f \in Files : TrulyImports(f, g)}
            T == {FileNode(f) : f \in S}
            b == [f \in S |-> FileNode(f)]
            A == {FileNode(f) : f \in Files}
<1>1. IsFiniteSet(S) /\ IsFiniteSet(A)
  <2>1. S \subseteq Files
    OBVIOUS
  <2>2. IsFiniteSet(A)
    <3>. HIDE DEF A
    <3>1. [f \in Files |-> FileNode(f)] \in Surjection(Files, A)
      BY DEF A, Surjection
    <3>. QED BY <3>1, FilesAssumption, FS_Surjection
  <2>. QED BY <2>1, <2>2, FilesAssumption, FS_Subset
<1>2. \A f, h \in S : FileNode(f) = FileNode(h) => f = h
  BY DEF FileNode, Node
<1>3. T \subseteq ImportedBy(g)
  BY RepairedImports
<1>4. ImportedBy(g) \subseteq A
  <2>. SUFFICES ASSUME NEW x \in ImportedBy(g) PROVE x \in A
    OBVIOUS
  <2>1. PICK e \in edges : e.kind = "imports" /\ e.source = x
    BY DEF ImportedBy, Inward
  <2>2. PICK f \in Sound(repo) : e \in FreshEdges(f)
    BY <2>1, RepairedGraph
  <2>3. repo[f] \in Content /\ f \in Files
    BY <2>2 DEF ForcedFacts, Inv, TypeInv, TypeOK, Contents, Sound
  <2>4. \A u \in repo[f].uses : u.kind # "imports"
    BY <2>3, ContentFacts DEF Uses
  <2>5. e.source = FileNode(f)
    BY <2>1, <2>2, <2>4 DEF FreshEdges, Resolved, Contained, UseEdge, ImportEdge, Edge
  <2>. QED BY <2>1, <2>3, <2>5
<1>. HIDE DEF S, A
<1>5. b \in Surjection(S, T) /\ b \in Injection(S, T)
  BY <1>2 DEF Surjection, Injection, IsInjective
<1>. HIDE DEF T, b
<1>6. Cardinality(T) = Cardinality(S)
  BY <1>1, <1>5, FS_Surjection
<1>7. IsFiniteSet(ImportedBy(g))
  BY <1>1, <1>4, FS_Subset
<1>8. Cardinality(T) <= Cardinality(ImportedBy(g))
  BY <1>3, <1>7, FS_Subset
<1>9. Cardinality(ImportedBy(g)) \in Nat
  BY <1>7, FS_CardinalityType
<1>. QED BY <1>6, <1>8, <1>9 DEF S

\* After an ingest of everything that no edit disturbed, what is defined is found; no
\* written use of a defined name is contradicted, nor its negation confirmed, unless an
\* import redirects it; an import of one file's module is confirmed, no such breach of
\* the layering is missed, and no file with many such importers is tiered low
\* (check_symbol_exists, check_symbol_relation, check_architecture, classify_file_risk).
THEOREM FreshVerdictsStayRight == Spec => []FreshVerdictsAreRight
<1>1. ASSUME ForcedFacts, AllIngested
      PROVE  /\ \A f \in Sound(repo) : \A d \in ToSet(repo[f].defs) :
                 /\ SymbolExists(<<NameOf(d)>>) = "supported"
                 /\ Cardinality(Matching(d.qual)) <= SearchLimit => SymbolExists(d.qual) = "supported"
             /\ \A f, g \in Sound(repo) : \A u \in repo[f].uses : \A d \in ToSet(repo[g].defs) :
                 (NameOf(d) = Last(u.raw) /\ ~Redirected(f, repo[f], u)) =>
                     LET verdict(negated) == SymbolRelation(Relation(<<NameOf(u.by)>>, <<NameOf(d)>>, u.kind, negated))
                     IN  verdict(FALSE) # "contradicted" /\ verdict(TRUE) # "supported"
             /\ \A f, g \in Files : TrulyImports(f, g) =>
                 /\ SymbolRelation(Relation(f, g, "imports", FALSE)) = "supported"
                 /\ Forbidden(Package(f), Package(g)) => <<f, g>> \in ArchitectureFindings
             /\ \A g \in Files :
                 Cardinality({f \in Files : TrulyImports(f, g)}) >= ManyImporters => Risk(g) # "low"
  <2>1. ASSUME NEW f \in Sound(repo), NEW d \in ToSet(repo[f].defs)
        PROVE  /\ SymbolExists(<<NameOf(d)>>) = "supported"
               /\ Cardinality(Matching(d.qual)) <= SearchLimit => SymbolExists(d.qual) = "supported"
    <3>1. nodes # {} /\ Define(<<NameOf(d)>>) # {}
      BY <1>1, <2>1, RepairedNames
    <3>2. Cardinality(Matching(d.qual)) <= SearchLimit => Define(d.qual) # {}
      BY <1>1, <2>1, RepairedQuals
    <3>. QED BY <3>1, <3>2 DEF SymbolExists, Judged
  <2>2. ASSUME NEW f \in Sound(repo), NEW g \in Sound(repo), NEW u \in repo[f].uses, NEW d \in ToSet(repo[g].defs),
               NameOf(d) = Last(u.raw), ~Redirected(f, repo[f], u)
        PROVE  /\ SymbolRelation(Relation(<<NameOf(u.by)>>, <<NameOf(d)>>, u.kind, FALSE)) # "contradicted"
               /\ SymbolRelation(Relation(<<NameOf(u.by)>>, <<NameOf(d)>>, u.kind, TRUE)) # "supported"
    <3>. DEFINE n == <<NameOf(u.by)>>
                m == <<NameOf(d)>>
                verdict == DefinedRelation(n, m, u.kind)
    <3>1. verdict # "contradicted" /\ nodes # {}
      BY <1>1, <2>2, RepairedUses, RepairedNames
    <3>2. u.kind \in {"calls", "inherits"}
      <4>1. repo[f] \in Content
        BY <1>1, <2>2 DEF ForcedFacts, Inv, TypeInv, TypeOK, Contents, Sound
      <4>. QED BY <2>2, <4>1, ContentFacts DEF Uses
    <3>. HIDE DEF n, m
    <3>3. \A b \in BOOLEAN : SymbolRelation(Relation(n, m, u.kind, b)) = IF b THEN Negated(verdict) ELSE verdict
      BY <3>1, <3>2 DEF SymbolRelation, Relation, Judged
    <3>. HIDE DEF verdict
    <3>4. Negated(verdict) # "supported"
      BY <3>1 DEF Negated
    <3>. QED BY <3>1, <3>3, <3>4 DEF n, m
  <2>3. ASSUME NEW f \in Files, NEW g \in Files, TrulyImports(f, g)
        PROVE  /\ SymbolRelation(Relation(f, g, "imports", FALSE)) = "supported"
               /\ Forbidden(Package(f), Package(g)) => <<f, g>> \in ArchitectureFindings
    <3>1. FileNode(f) \in nodes /\ FileNode(g) \in Outward(FileNode(f), "imports")
      BY <1>1, <2>3, RepairedImports
    <3>2. FileImports(f, g) = "supported"
      BY <3>1 DEF FileImports
    <3>3. SymbolRelation(Relation(f, g, "imports", FALSE)) = FileImports(f, g)
      BY <3>1 DEF SymbolRelation, Relation, Judged
    <3>. QED BY <3>1, <3>2, <3>3 DEF ArchitectureFindings
  <2>4. ASSUME NEW g \in Files, Cardinality({f \in Files : TrulyImports(f, g)}) >= ManyImporters
        PROVE  Risk(g) # "low"
    <3>. DEFINE S == {f \in Files : TrulyImports(f, g)}
    <3>0. IsFiniteSet(S) /\ ManyImporters \in Nat \ {0}
      BY FilesAssumption, PolicyAssumption, FS_Subset
    <3>1. Cardinality(S) \in Nat /\ Cardinality(S) <= Cardinality(ImportedBy(g)) /\ Cardinality(S) # 0
      BY <1>1, <2>4, <3>0, ImportersCounted, FS_CardinalityType
    <3>2. PICK f \in S : TRUE
      BY <3>1, FS_EmptySet
    <3>3. FileNode(g) \in nodes
      BY <1>1, <3>2, RepairedImports
    <3>4. NodesOf(g) # {}
      BY <3>3 DEF NodesOf, FileNode, Node
    <3>5. Cardinality(ImportedBy(g)) \in Nat
      BY <1>1, <2>4, ImportersCounted
    <3>6. Cardinality(ImportedBy(g)) >= ManyImporters
      BY <2>4, <3>0, <3>1, <3>5
    <3>. QED BY <3>4, <3>6 DEF Risk
  <2>. QED BY <2>1, <2>2, <2>3, <2>4
<1>2. Inv /\ EdgesMatchRecord /\ WalkInv /\ KnownInv /\ OutInv /\ ForcedInv => FreshVerdictsAreRight
  BY <1>1 DEF ForcedFacts, AllIngested, FreshVerdictsAreRight
<1>. QED BY <1>2, SpecInv, EdgesInvariant, WalkInvariant, KnownInvariant, OutInvariant,
            ForcedInvariant, PTL
=============================================================================
