# VerityAI: formal models

TLA+ models of the parts of VerityAI (`src/verityai`) that keep state, with TLC
configurations that check them on small instances and theorems that TLAPS
proves for every instance. Paths below are relative to `src/verityai`; line
numbers of every definition are in `PROJECT.json` ("map").

VerityAI is a command line tool, an MCP server and a set of Claude Code hooks
around one directory, `.verity/`, in which an agent's working state (decisions,
constraints, discoveries, failures, facts, the current task, snapshots) and a
code graph of the repository survive the loss of the agent's context. There is
no daemon and no lock: each operation is a short run of some process over
files, any of which may be killed, and the CLI, the MCP server and the hooks
may run at the same time. That is where it is hard to test, and where the
models begin.

## 1. Inventory

| Component | State | Operations | Hard behaviour |
|---|---|---|---|
| record logs (`memory/store.py`) | six JSON-lines files | `append`, `read_report` | torn appends, several appenders, undecodable bytes, lines that split |
| memory store (`memory/store.py`) | the logs, `state/task.json` | `decisions`, `failures`, `supersede`, `resolve_failure`, `set_task`, `integrity` | status is derived from other lines; a line that is lost changes the status of an older record |
| snapshots (`memory/snapshot.py`) | `snapshots/NNN/snapshot.json` | `create`, `restore`, `next_number`, `list` | check-then-read over several files; a crash between mkdir and rename; a restore killed and repeated |
| atomic writes (`core/atomic.py`) | the target and temporary files | `atomic_write_text` | exceptions and kills between mkstemp and rename; concurrent writers |
| handoff (`memory/handoff.py`) | reads the logs, appends a Surfacing | `build_handoff` | reads section after section while others append; must admit what it leaves out |
| compaction hooks (`cli/hooks.py`) | none of their own; `settings.json` for `install` | `capture_precompact`, `resume_context`, `install`, `verdict` | run repeatedly over overlapping transcripts, beside other operations |
| code graph (`graph/ingest.py`, `graph/store.py`) | SQLite: files, nodes, edges | `ingest_repo`, `forget_file`, `record_file`, `add_nodes`, `add_edges` | incremental update in many commits; edits during it; death between commits |
| graph queries (`graph/query.py`, `graph/store.py`) | none | `context_for`, `reachable`, `cycles`, `define`, `callers`, ... | searches of many queries while an ingest commits; circular graphs; an explicit stack |
| context pipeline (`context/classify.py`, `rank.py`, `prune.py`) | one run's items and ledger | dedup, classify, rank, filter, compress, budget, place | order of stages; indices from before a stage used after it; protected items against a budget |
| context measurement (`context/health.py`, `tokenizer.py`, `ingest*.py`) | none | ratios, token counts, transcript parsing | none beyond arithmetic and formats |
| adaptive recall (`context/adaptive.py`, `memory/surface.py`) | none | `should_surface`, `plan_budget`, `select` | records without lexical overlap must not vanish; the merged context goes through stages that know nothing of the merge |
| consistency engine (`consistency/`) | reads graph and memory | verdicts on claims, resurfacing of superseded decisions | the graph may be stale or empty |
| reliability engine (`reliability/`, `analysis/facts.py`) | none | rules, security, layering, risk | degraded inputs must not turn into a clean verdict |
| trial evidence (`bench/trial.py`, `bench/evidence.py`) | manifest, diffs, spec and report under an evidence root | run, write evidence, verify | re-runs over old evidence, crashed runs, torn manifest lines, a fixture that moves |
| benchmarks (`bench/deterministic.py`, `eval.py`, `repetition.py`) | none | statistics over finished runs | noise floor, insufficient data |
| CLI and MCP server (`cli/main.py`, `mcp/`) | none | one command or tool per operation above | they are the concurrent processes |

Interaction is through files only. Every operation of the memory side reads
and appends to the record logs; snapshots, task and settings are replaced by
`atomic_write_text`; the hook classifies a transcript with the context pipeline
and writes what is CRITICAL to the logs, then takes a snapshot; a handoff is
itself a writer, as it appends a Surfacing record. The graph is written by
ingest alone and read by queries, the consistency and the reliability engine.
ADR-0038 assumes one writer at a time and enforces nothing.

What makes each component correct:

- record logs: bytes of an acknowledged record are never lost to another
  append; what cannot be read any more is reported; ended lines do not
  change.
- memory store and snapshots: a snapshot is not shorter than the history before
  it, is never overwritten, and restoring it, as often as one likes and killed at
  any point, completes the logs without duplicates.
- atomic writes: a register, and no litter except after a kill.
- handoff: every record acknowledged before it began is shown, closed, in a
  section named as dropped, or covered by a corruption note.
- hooks: what is critical is captured, and is captured once.
- code graph: nodes are those of the recorded contents; an incremental ingest
  agrees with a fresh one; an ingest of an unchanged repository changes nothing;
  `--force` repairs whatever happened before.
- graph queries: searches end, find exactly what is near, and a report of no
  circular import means that there is none.
- context pipeline: protected items survive every stage, the ledger sums up,
  no item is dropped while a worse one is kept, and nothing else vanishes.
- adaptive recall: what is pushed fits its budget and survives the pipeline.
- consistency and reliability: nothing is confirmed without evidence in a recorded
  file, and what is written by a full name is not denied right after a complete
  ingest.
- evidence and benchmarks: a report has the evidence of its own run, a
  verification that passes draws the report's conclusions again, and a real
  difference in a publishable report is in the data.

## 2. Modules

| Module | Models | Built on |
|---|---|---|
| `AppendLog` | the record logs | - |
| `AppendLog_proofs` | theorems about them | `AppendLog` |
| `MemoryEngine` | store, snapshots, restore, handoff, hooks | extends `AppendLog`, takes its actions |
| `MemoryEngine_proofs` | theorems about it, the refinement of `AppendLog` included | `MemoryEngine`, `AppendLog_proofs` |
| `AtomicRegister` | what `atomic_write_text` promises | - |
| `AtomicWrite` | `atomic_write_text` | refines `AtomicRegister` |
| `AtomicWrite_proofs` | theorems about it, the refinement included | `AtomicWrite` |
| `GraphIngest` | `ingest_repo` over `GraphStore` | - |
| `GraphIngest_proofs` | theorems about it and about the verdicts | `Consistency` |
| `Consistency` | queries, verdicts on claims, layering, risk | extends `GraphIngest`, reads its tables |
| `GraphSearch` | `context_for`, `reachable`, `cycles` | - |
| `GraphSearch_proofs` | theorems about both searches | `GraphSearch` |
| `ContextPipeline` | `ContextPipeline.run` | - |
| `AdaptiveContext` | `verity context --adaptive` | extends `ContextPipeline`, runs it on its output |
| `ContextPipeline_proofs` | theorems about the pipeline, alone and behind the pre-pass | `AdaptiveContext` |
| `TrialEvidence` | runs, their evidence, verification | - |
| `TrialEvidence_proofs` | theorems about reports, their evidence and verifications | `TrialEvidence` |
| `FoldFacts` | sums and folds over finite sets | - |
| `MC...` | the instances TLC checks | one module each |

**AppendLog.** A log is a sequence of lines, `[text, ended, recs]`: what
`str.splitlines` returns, whether the line has its newline, and the records
that left bytes on it. `AppendRecord` is `MemoryStore.append` returning;
`TearAppend` is one cut short, which leaves a prefix that parses (`json`), does
not (`junk`) or is not UTF-8 (`raw`); `Put` glues the next append to an
unfinished line. `Parsed`, `Clean` and `Decodable` are `read_report`. `acked`
and `dropped` are history variables: records whose append returned, records on
lines the user deleted by hand. One append is one `write(2)` with `O_APPEND`,
so two of them do not interleave: records are far smaller than Python's buffer.
A power loss that undoes completed writes is not modelled (the code never calls
fsync and claims nothing about it).

**MemoryEngine.** A process runs one operation, a `job` with a step; between
two steps others act, and `Kill` or a torn append may end it. What an operation
appends goes through `Begin` and `AppendRecord` of AppendLog. `Check`,
`Collect`, `Gather` read one file a step, as the code does. `task.json` is one
variable that changes in a step: it is written by `atomic_write_text`, which
AtomicWrite shows to be a register. Views are sets: the order of records within
one is never used by the code except for display. Budgets of a handoff are
abstracted to the number of sections of `_CUT_ORDER` given up (the cut of
rationales drops no record). The kinds of record restore knows and those a
handoff shows are the constants `Restored` and `HandoffKinds`, as instances
leave some kinds out; `KindsAssumption` says what the code's lists have in
common with them. `known` and `sound` in a job are history: the
records acknowledged when it started, and whether some file ended in an
unfinished line then or an append was torn since. A read of a file that does
not decode raises, so that every read has `Decodable` as a guard and only
`Kill` is left. `OneWriter` is the contract of ADR-0038.

**AtomicWrite.** One call is `Make` (mkstemp), `Fill` (write and close),
`Replace` (rename) or `Fail` (the except clause) or `Killed`. `Observe` is any
reader. `text` of a half-written temporary file is what it will hold; whether
it does is `whole`.

**GraphIngest.** The three tables are variables; a running ingest is the record
`job`. Each commit of GraphStore is one action: `Parse` is `forget_file` of a
changed file, `Record` is `record_file`, `AddNodes` and `AddEdges` the two
writes of the second pass for one file, then `DropOrphanExternals` and
`LinkTests`. `Edit` changes the repository at any moment, `Crash` ends the
ingest between two commits. A file's content is what the syntax visitor takes
from it: the definitions in the order they are visited, by dotted name and
whether they are classes; the calls and bases, by dotted name as written and
whose they are; the imports, with the name each binds. `ok = FALSE` is a file
that does not parse, is too large or belongs to a nested project; a hash is the
content itself. Functions and methods are one kind of node (`def`), as nothing
tells them apart. Files are visited in any order instead of sorted order, which
allows more behaviours than the code has.

Names are resolved as `_resolve` does it. `DefinedAs` is the dict `defined` of a
file, in which a dotted name stands for its last definition and a bare one for
the first; `Registered` is what a parsed file adds to the definitions of the
repository, one node a bare name, while `Unchanged` adds every node of a skipped
file but its tests; `Callee` tries the dotted name and the bare one in the file,
then the one definition of what the first part was imported for (`Alias`), then
the one of the last part (`Sole`), and leaves a name otherwise. `ModuleOf` is
`module_qualname`, a constant, as it depends on the path alone; two files may have
one module, and `ModuleIds` is which of them stands for it. `Imported` looks up the
submodule, the module, and its parent. The dots of a relative import are blank
parts, so that no module but the one of an `__init__.py` at the root is ever found
for it, which is what the code does. `Fresh(repo, m)` is the reference: the graph of
a repository as a function of its contents and of which file stands for which
module.

**Consistency.** The readers of the graph's tables: `Define`, `Callers`,
`TestsFor`, `ImportedBy`, `Untested` are the queries, `SymbolRelation` and
`SymbolExists` the verdicts, `ArchitectureFindings` and `Risk` the checks of
`reliability/`. They have no state, so they add no action: they are evaluated in
every state that GraphIngest reaches, an ingest half-way or dead included, as
the MCP server may call them at any time. `Within` is which text is part of which
name, for the substring search that `define` falls back on, whose limits are
constants; which of too many rows it returns is any choice. `Judged` is the
command's rule that an empty graph judges nothing. A verdict takes
several queries in the code; the models take it from one state.

**GraphSearch.** `context_for` walks from each match (`Seed`), one visited node a
step (`Visit`, the body of `reachable`), and merges what was reached (`Merge`);
`Write` is an ingest that commits between two steps. `cycles` reads all edges in
one query and then searches with its own stack: `Root`, `Enter`, `Close` (a back
edge), `Pass` (a finished node), `Pop`, `Report`. `Answer` returns what was found up
to `Limit` (20 in the code); as scores are left out, `Cut` is any of the largest
subsets that fit. Rows of a table come in any
order, hence any order of neighbours. `Nodes` are numbers since a reported cycle
starts at its least id. `Ball`, `Knot` and `Cycles` are the reference.

**ContextPipeline.** One run over one context, an action per stage, and the
budget loop one dropped item a step. No stage adds an item or edits one other
than by eliding its middle, so the context at any time is a set `kept` of
positions of the original, with `short` for the elided ones; `class`, `score`
and `count` are `relevance`, `rank_score` and `token_count`. Kind, marker,
noise, length and content hash are attributes of an item: which text matches
which pattern is not modelled, and the ranker may give any scores. An item is in
the state of `from_messages`: a blank message takes an index but is no item. The
recency rule's numbers (10, 3, a tenth) are the constants `RecentOver`,
`RecentMin` and `RecentShare`; the run takes 2, 1 and a half, so that contexts
of four items have all cases. `ledger` is the list of stages, without names and
durations.

**AdaptiveContext.** One step, `Prepass`, before the pipeline: the health of the
transcript as it is (`UsefulIn`) decides by `Triggered` whether records are
surfaced, `Selected` takes greedily what fits `Room` in an `Order` (any ranking
of any part of the records, then the rest), and `Merged` puts them in front.
`pushed` is how many there are: items of the transcript keep the index the
loader gave them (`Index`), items that had none take their position. The
pipeline's own Next follows, unchanged.

**TrialEvidence.** A run is `Begin`, and for each trial `RunTrial` (copy, agent,
scorer), `RetainDiff` and `AppendEntry`; then `Judge` (the gates of `run_eval`),
`WriteSpec`, `WriteReport`. `Die` ends it anywhere, perhaps with a manifest line
cut short; `Edit` changes the fixture at any moment. `VerifyBegin`, `VerifyLoad`
and one `VerifyEntry` a trial are `verify_evidence`, which may overlap with all
of these. A tree is a function from files to contents: absent, empty, no text, or one
of some texts, of which `Newlines` says what `read_text` makes of their line ends and
`Split` which ones `splitlines` breaks at more than these. `Diff` has texts as they
are read. `Exact` is when git apply is sure to find them in a file; for a file that
differs it may refuse (`Refused`) or find what it looks for (`Patched`). `Work` and
`Score` stand for the agent and the scorer; the scorer runs in the tree and its
`left` is the tree that is hashed and retained. A metric may be `NaN`, which equals
nothing. Other metrics are numbers of the report's rounding. File modes and what
`EXCLUDE_DIRS` leaves out of a tree are not modelled. The id of a run is its number, and a hash is the tree itself.
`artifact`, `steady`, `calm` and `between` are history: the tree that was scored,
and whether anything moved during a run or a verification.

## 3. Runs

| Run | Instance | Checks |
|---|---|---|
| `append_log` | 2 processes, 1 file, 3 records (one that splits), 3 lines, 2 torn appends, deletions by hand | `LogTypeOK`, `AckedRetained`, `LossIsReported`, `HistoryIsFixed` |
| `atomic_write` | 2 writers, 2 texts, 3 temporary names, 1 kill, any failures | `CallsAreApart`, `ImplementsRegister` |
| `snapshots` | 1 operation at a time, decisions and failures; remember, supersede, resolve, set the task, snapshot, restore, kills | `TypeOK`, `NoDuplicateIds`, `RestoreIsComplete`, `ImplementsLog`, `SnapshotsAreFinal` |
| `hooks` | 2 processes at once; remember, handoff, hook; 1 append torn behind its JSON or inside it | `HandoffIsHonest`, `HookCaptures`, `SnapshotIsComplete`, `HookAddsOnlyNews` |
| `graph_ingest` | 3 files (the package at the root, a library, tests) with 1 to 3 contents each: methods of one name, a call by the class, relative imports and imports of what is not there, a test that is called; 1 edit and 1 crash at any moment, forced and plain ingests; two packages that may not import each other, searches of 4 and 2 rows | `TypeOK`, `NodesMatchRecord`, `IncrementalAgrees`, `ForceRepairs`, `IngestIsIdempotent`, `VerdictsAreBacked`, `FreshVerdictsAreRight` |
| `graph_search` | all import graphs of 3 files and rings of 4, all parts of a ring of 4 definitions, up to 2 matches, depth 2, 2 answers at most, one node without a row, one that is no code, 1 commit meanwhile | `TypeOK`, `AnswerIsNear`, `CyclesAreReal`, `KnotsAreReported`, `SearchEnds` |
| `context_pipeline` | contexts of up to 4 out of 11 items, up to 3 records on file, budgets 0, 3, 5 and none, two scores, with and without a task and `--adaptive` | `TypeOK`, `ProtectedSurvive`, `BudgetDropsWorst`, `BudgetIsTight`, `LedgerIsReal`, `NothingVanishes`, `SurfacedSurvive`, `PushIsMaximal` |
| `trial_evidence` | 2 runs of 2 specs (2 conditions, 1 or 2 trials each), 2 files, 3 fixtures (a text, the same with other line ends, one with a form feed), a scorer that writes in its tree and may print NaN, 1 edit, 1 verification, deaths anywhere | `TypeOK`, `ReportIsBacked`, `PublishedRederives`, `PassedBacksReport`, `RealDifferencesAreThere` |

What they show: under any mixture of processes and torn appends the logs keep
the bytes of what was acknowledged and report what they cannot read;
`atomic_write_text` is atomic and cleans up; under the one-writer contract
snapshots and restores survive kills at every step; handoffs, hooks and
unforced snapshots are honest even without that contract; an incremental ingest
agrees with a fresh one on what it parsed, is idempotent and can always be
repaired by `--force`; what the consistency and the reliability engine confirm
stands in a recorded file, whatever state the graph is in, and after a complete
ingest they deny no call, base or import that is written by a full name; searches
end and find what is near on a graph at rest, up to the limit; the pipeline, alone or behind a push,
keeps whole what it classified as critical, drops the least important items, no
more of them than the budget asks for, and its ledger is about the text it
returns; reports of trials have the evidence of
their own run, whichever run died before or after, and a verification that
passes backs them.

Each property has a mutant in its module (an operator marked "Mutant"), a
plausible slip in the code under which the run finds the property violated.

Four runs expect a violation: what a comment, an ADR or a test says and the
code does not do. `PROJECT.json` ("findings") quotes each.

| Run | Says | Shows |
|---|---|---|
| `bad_line` | `read_report`: one bad line does not make the history unreadable | a line torn inside a character does: UnicodeDecodeError is not caught |
| `calls_dropped` | a call is recorded unresolved, never dropped | re-ingesting a changed file drops the calls into it from unchanged ones |
| `recent_unprotected` | ADR-0033: the most recent turns are critical | records pushed in front shift the length of the context but not the indices of the transcript, so its latest turns are not |
| `empty_files` | `tree_diff`: what a diff cannot represent is declared, never silently omitted | an empty file added or removed is in neither list |

Further statements of the repository that the models refute are kept as
definitions, without a run of their own (adding one to the cfg of its module
shows the trace):

| Definition | Says | Refuted by |
|---|---|---|
| `AppendLog!AckedReadable` | ADR-0038:24-26: append was already fine | after a torn append the next, acknowledged, record joins its line and cannot be read |
| `MemoryEngine!HookIsIdempotent` | `test_hooks.py:79-81`: a second capture records nothing twice | statements with U+2028, U+2029 or U+0085, which `splitlines` breaks at |
| `GraphIngest!CrashIsRepaired` | ADR-0038:24-26: the graph store is transactional | a file recorded before the ingest died is skipped afterwards and has no nodes |
| `Consistency!NeverGuessed` | `check.py:17-19`: an unresolvable case is never guessed into a verdict | a relative import is never resolved, no file having a module name that begins with a dot, and a claim of it is contradicted with full confidence |
| `ContextPipeline!CriticalEvenIfDuplicated` | `classify.py:16-17`: a critical item stays critical even if duplicated | a memory record with the content of an earlier message is dropped as a duplicate before anything is classified, and the budget then drops the message |
| `GraphSearch!EveryCycle` | `cycles`: every simple cycle | of 1→2, 1→3, 2→1, 3→2 only the cycle of 1 and 2 is reported |
| `TrialEvidence!EmptyFilesAreDeclared`, on the fixtures of `trial_evidence` | `evidence.py:106`: line endings are kept; 163: the diff applies to a copy of the fixture | `read_text` makes newlines of CRLF, and git apply refuses the diff of such a file |
| `TrialEvidence!PublishedStaysDerivable` | `run_trials`: the evidence root is the retained artifact | a second run replaces a diff and dies; the first, still reported, is not confirmed any more |

What incremental resolution and verdicts do *not* promise is in the properties
themselves. `IncrementalAgrees` is about uses whose names are clear: for a name that
a test has, or that one file defines twice, a skipped file registers other nodes
than a parsed one (`ingest.py:456-461` against 487-488), and an incremental ingest
resolves what a fresh one leaves open, or the reverse; so with the package at the
root, which is a module in the ingest that parses it only (498-503).
`VerdictsAreBacked` accepts for a call what its first part was imported for
(577-581: `User.create()` is a call of class `User`), and for an import the module
right above (559-563). `FreshVerdictsAreRight` leaves out uses that an import
redirects in this way, and imports by relative names. Without any of these
exceptions TLC refutes the property.

Not a property, as no graph of the run can tell: a call of a name that is defined
nowhere in the repository is contradicted at `consistency/check.py:273`, before
the unresolved edges that lines 19-23 of that file speak of are looked at.

**Bounds** and why they suffice. Two processes: every hazard listed is a race of
two. Three lines and two torn appends make each shape of damage (torn then
whole, torn then torn, whole then torn, split) appear at the end and in the
middle. Three ids and two snapshot numbers let a snapshot miss a record,
have one superseded afterwards, be restored, killed and restored again, and a
second snapshot follow one whose directory is empty. Three files give a caller,
a callee and a test of either, a module that is imported by
its name, by a name in it and by a relative one, the root that the latter may lead to, the ambiguity of a name (in one file, or in two) and its disappearance; an
edit between two ingests or during one leaves files parsed and skipped in one ingest,
or one changed behind its back; a second edit, which fits in the bounds without the
verdicts (about a million states), shows nothing else. Four items let a context
hold a duplicate, recent and old items and two items of one bucket that differ
in score or age only; the items are one of each kind of treatment, and the
records on file fit their room alone, together, or past one that does not.
Graphs of three nodes have every shape of overlapping cycles a finished node can
hide, those of four a chord, two components and a shared file; depth 2 is the
code's own, and of four definitions in a ring or a path some are at distance 2
both ways and some beyond it.
Two runs let the second write over the first, or die in it; two trials a
condition make a floor that is no single value, and the minimum for a claim is
scaled from 5 to 2 with them.
Operations are not bounded otherwise: ids, lines, snapshots,
edits, crashes, commits, runs and verifications are the only counters, each named
in its module. Deadlock is checked in every run but three: a pipeline and a
search are programs that end, and the trials end with their bound on runs.

**Fairness**: GraphSearch assumes weak fairness of `Step`, the search's own next
step, and of nothing else: it is one call of one thread that waits for nothing
(SQLite readers and the single writer do not block each other for good), and an
ingest need not commit. `SearchEnds` is what it gives: every search ends, on
circular graphs and with commits under way. Elsewhere none is assumed and every
property is a safety property: an operation is a program somebody started, which
may be killed at any point, and nothing in the code promises that one ever ends.

Symmetry is used over processes only, which no action tells apart.

## 4. Proofs

Proved with TLAPS for all constants that satisfy the modules' assumptions
(bounds are natural numbers, sources define what they call, names are
distinct, and so on; the ASSUMEs of the modules, evaluated by TLC in each run).

| Theorem | States | Argument |
|---|---|---|
| `AppendLog_proofs!LogTypeCorrect` | `[]LogTypeOK` | inductive as it stands |
| `AppendLog_proofs!AckedAreRetained` | `[]AckedRetained` | `Written` grows by the appended record in `PutWhole` and `PutPrefix`, whether or not the last line is open, and `Without` loses what `dropped` gains |
| `AppendLog_proofs!LossesAreReported` | `[]LossIsReported` | from `AckedRetained`: in a clean file every line is parsed, so that what is written can be read |
| `AppendLog_proofs!HistoryStaysFixed` | `HistoryIsFixed` | `Put` changes the last line only, and only if it is open; a deletion shortens the file |
| `AtomicWrite_proofs!CallsStayApart` | `[]CallsAreApart` | with the type invariant: `Make` takes a name that is free, hence no other call's, and every end of a call but a kill removes or renames it |
| `AtomicWrite_proofs!RegisterRefinement` | `Spec => ImplementsRegister` | under `CallsAreApart` only `Replace` changes the target's value, to the whole text of its call; the rest stutters or observes |
| `GraphIngest_proofs!GraphTypeCorrect` | `[]TypeOK` | with `ContentsAreSources` (what is parsed is one of the sources, hence well formed) and `PendingIsRecorded` |
| `GraphIngest_proofs!NodesAreRecorded` | `[]NodesMatchRecord` | `PendingIsRecorded` is the strengthening: what the second pass writes is what the file's row records, as a row is rewritten by the ingest of its file alone, and `forget_file` removes row and nodes together |
| `GraphIngest_proofs!VerdictsStayBacked` | `[]VerdictsAreBacked` | `EdgesMatchRecord` is the strengthening: an edge of calls or imports starts at a node that is there and is one of that node's file as recorded. It needs the record invariants of GraphIngest, and that nodes of a file are written before its edges and removed with them. What an edge ends at comes from `Callee` and `Imported`, whose every branch is one of the names `Sought` or `Tried` (`CalleeFacts`, `ImportedFacts`) |
| `GraphIngest_proofs!IngestStaysIdempotent` | `IngestIsIdempotent` | `WalkInv` says what an ingest that no edit has disturbed has seen, recorded and cleaned up at each step, `RestInv` that after one of them the tables are current, linked and without orphans: then no file is parsed, vanishes or is written, nothing is dropped and nothing linked |
| `GraphIngest_proofs!IncrementalIngestAgrees` | `[]IncrementalAgrees` | `OutInv`: a parsed file has no edges of its own until they are written, because it has no nodes and edges start at nodes (`SourcesAreThere`). `CompleteInv`: while no ingest dies a recorded file has its nodes, so what skipped files define is registered (`IncrementalInv`). Of a clear name a skipped and a parsed file register the same node (`ClearRegistered`), so a use of clear names has the same candidates on both ways (`CalleeAgrees`); a module is that of a stored file or of a parsed one, and but for the root some fresh choice has the same (`ImportedAgrees`, `FreshModulesExist`) |
| `GraphIngest_proofs!ForceRepairsAll` | `[]ForceRepairs` | when the walk of a forced ingest is over nothing is left of any file, hence no edge (`Forgotten`), whatever died before; from there `ForcedInv` follows the second pass: what is in the tables is what it has written |
| `GraphIngest_proofs!FreshVerdictsStayRight` | `[]FreshVerdictsAreRight` | from the tables that `ForceRepairsAll` gives: every use has its edge, to a node of the name or to the name unless an import redirects it (`StraightCallee`), and an import by the full name of one file's module ends at that file (`RepairedImports`); a repository is finite, so importers can be counted through a bijection |
| `GraphSearch_proofs!ReportedAreCycles` | `[]CyclesAreReal` | `DiveInv`: the nodes on the stack are distinct and each is a successor of the one below; a suffix closed by a back edge is a cycle, and so is its rotation |
| `GraphSearch_proofs!SearchTypes` | `[]TypeOK` | `WalkOK`: the queue holds reached nodes, the first match is at depth 0, and what joins at the next depth is below `MaxDepth` when it does |
| `GraphSearch_proofs!AnswersAreNear` | `[]AnswerIsNear` | `NearOK` over `WalkFrom`: the queue is in order of distance and its ends are one apart, what is reached has its distance, and what is visited has all its neighbours reached; so with an empty queue what is reached is the ball (`BallIsReached`). What the matches walked so far found is the union of theirs, and the answer all of it if the limit has room, else part of it |
| `GraphSearch_proofs!KnotsAreAlwaysReported` | `[]KnotsAreReported` | `KnotInv`: an edge followed belongs to a cycle found, or leads to a finished node or up the stack; so finished nodes can be numbered in an order that edges of no cycle found descend (`Ranked`). In a knot each node has an edge into the knot, and the first one finished can only have one of a cycle found, which is in the knot as a whole (`CycleIsMutual`). That `Reachable` is closed after as many rounds as there are nodes is a pigeonhole (`ReachFacts`) |
| `ContextPipeline_proofs!CriticalSurvives` | `[]ProtectedSurvive` | with `PipelineInv`: nothing is classified before classify, nothing elided before compress, and no later stage takes a protected item |
| `ContextPipeline_proofs!LeastImportantGoFirst` | `[]BudgetDropsWorst` | with `PipelineInv`: drops start in the loop, when relevance and scores no longer change; what `NextToDrop` picks matters less than all that is left (`NextMattersLeast`), and what is left only shrinks |
| `ContextPipeline_proofs!ContextTypeCorrect` | `AdaptiveSpec => []TypeOK` | with the invariant of the stages (`Inv`: what is classified, scored or elided by when); that the ledger's sums are numbers is a fact of sums over finite sets (`FoldFacts`) |
| `ContextPipeline_proofs!BudgetGivesUpNoMore` | `[]BudgetIsTight` | the running total is the sum over what is kept, and the loop went on because it was over the budget before the last drop; at the end nothing is left to drop |
| `ContextPipeline_proofs!LedgerAddsUp` | `[]LedgerIsReal` | each stage's entry is the sum of what it leaves; the loop subtracts the tokens of one item a step, and a sum without one member is the sum less that member |
| `ContextPipeline_proofs!TextsDoNotVanish` | `[]NothingVanishes` | of the items with one text, deduplication keeps the first, which exists as positions are numbers; the filter takes noise only |
| `ContextPipeline_proofs!PushedContextsAreSafe` | `AdaptiveSpec => [](ProtectedSurvive /\ BudgetDropsWorst)` | the pre-pass is over before any stage has run and leaves the pipeline's invariant as for a new context; from then on every step is one of the pipeline |
| `ContextPipeline_proofs!SurfacedRecordsSurvive` | `[]SurfacedSurvive` | a pushed record is a memory item, hence protected from classify on; before it only deduplication drops, which leaves an item of its text, and in front are only records |
| `ContextPipeline_proofs!PushesAreMaximal` | `[]PushIsMaximal` | induction along the order of the records: what is selected so far fits, and each record passed over did not fit then, hence does not now |
| `TrialEvidence_proofs!ReportsAreBacked` | `[]ReportIsBacked` | `EvidenceInv`: while every line of the manifest can be read, the run under way has exactly one line for each trial it has retained and none for those to come; a line that cannot be read stays so, hence its run never reports; lines of later runs have other ids. That the trials of a run have names of their own is a fact of division (`TrialInjective`) |
| `TrialEvidence_proofs!TrialTypes` | `[]TypeOK` | with `EvidenceInv` and what a verification holds (`CheckOK`); the metrics are those the scorer prints and the exit code's own, `ScoreAssumption` |
| `TrialEvidence_proofs!PublishedAlwaysRederives` | `[]PublishedRederives` | `SteadyOK`: in a run that no edit disturbs each entry's diff is that of its artifact from the fixture whose hash it has; `RestOK`: that stays so after its report until the next run begins; `CheckOK`: a calm verification has read these, so `Applied` gives back the scored tree but for what no diff represents, which a publishable run has not, and for what it loses (`Lossy`); a scorer that repeats itself on what it left (`Repeats`) then confirms it |
| `TrialEvidence_proofs!PassesBackReports` | `[]PassedBacksReport` | `OwnLinesOK`: a verification begun between runs has all lines of its run, and later runs add lines of other runs only. `ReplayOK`: a confirmed entry has the metrics of its line. Entries match the trials of the report one to one, and neither means nor ranges depend on how trials are numbered (`SumReindex`, `CompareSame`) |
| `TrialEvidence_proofs!DifferencesAreReal` | `[]RealDifferencesAreThere` | a sum is between the number of its terms times the least and the greatest of them (`SumBounds`), so a mean outside the range has a term outside it; that the range is no single value is what `Degenerate` keeps from publication, and that every trial reports the metric is a gate as well |
| `MemoryEngine_proofs!EngineTypeCorrect` | `[]TypeOK` | `EngineInv` adds to the types that jobs are only at steps of their operation, that sets of records are finite, and `LogInv` of AppendLog_proofs |
| `MemoryEngine_proofs!EngineRefinesLog`, `LogIsImplemented` | `Spec => LogSpec`, `Spec => ImplementsLog` | step by step: each operation hands a process without pending writes a sequence of writes that it may begin with (for a restore, a `SetToSeq` of the finite set of what is missing), appends as AppendLog does, or leaves the logs alone |
| `MemoryEngine_proofs!EngineKeepsHistory` | `[]AckedRetained`, `[]LossIsReported`, `HistoryIsFixed` | the refinement, and the theorems of AppendLog_proofs |
| `MemoryEngine_proofs!SnapshotsAreComplete` | `SnapshotIsComplete` | `SnapCare`: where the check found a file clean, all that is owed is on complete lines that parse (`Safe`, from `AckedEnded`), and complete lines never change, so the later read finds it. A record the view leaves out is superseded, resolved or a marker in the file. Needs `Provenance`: no record is recorded closed, and ids come from uuid4 |
| `MemoryEngine_proofs!HandoffsAreHonest` | `[]HandoffIsHonest` | `HandCare`: a section read in full accounts for what is owed; where it was not, the file has a complete line that does not parse (`Spoilt`), which is still there when the reports are read at the end |
| `MemoryEngine_proofs!HooksCapture` | `[]HookCaptures` | `SoundClosed`: while nothing is torn no file ends in an open line, so every append lands on a line of its own that stays readable. `HookCare`: each item seen so far is readable, waits in the queue, or splits |
| `MemoryEngine_proofs!RecordsComeBack` | `[]RecordsAreBack` | the records' half of `RestoreIsComplete`, for any number of writers: `RestoreCare` and `NoSurfacings` as below |
| `MemoryEngine_proofs!SnapshotsStayFinal` | `OneWriter` implies `SnapshotsAreFinal` | `OneAtATime` and `NumbersAreFree`: the number a job takes has no directory, and nobody else makes one until it is published; a directory left by a kill keeps its number taken |
| `MemoryEngine_proofs!RestoresAreComplete` | `OneWriter` implies `[]RestoreIsComplete` | `RestoreCare`: every record of the kinds done so far is readable or waits in the queue (`Coming`); what a snapshot lists came from lines that parse, so it does not split (`ReadsArePlain`), and no snapshot lists surfacings |
| `MemoryEngine_proofs!IdsAreNeverDoubled` | `OneWriter` implies `[]NoDuplicateIds` | `Once`: two lines that parse share no id, what is read or in a snapshot has an id once, and what waits in a queue is in no file yet: a new record as its id is new (`Provenance`), a restored one as the ids were compared when it was queued and nobody has written since |
| `MemoryEngine_proofs!HooksAddOnlyNews` | `OneWriter`, or no restores, implies `HookAddsOnlyNews` | `NewsCare`: what could be read at the hook's start and can be read now the hook has read, since a line that appears later holds a record that waited in a queue, and nothing that waits was acknowledged before (`NewPending`: without restores every record that waits is new and waits in one queue) |

The three before the last assume `OneWriter`, the contract of ADR-0038 that the code
does not enforce; without it they are false (two snapshots may take one number, two
restores append a record twice). The last assumes it or that `Ops` has no restore, as in
the run `hooks`: a restore beside the hook may append again a record that the hook found
on a torn line. All others hold for any interleaving.

What the proofs found: `Accounted` once asked for a marker that can *be* read,
while the handoff had read one that could be read *then*. A supersede torn
behind its JSON is a line that parses until the next append to the file continues
it. On an instance of `MCMemoryEngine` with decisions, supersede, handoff and such
an append TLC refutes the old form, and the new one, which asks for the marker in
the file, holds (692,691 states; the run `hooks` has no room for decisions, but it has
such appends now as well). `PushIsMaximal` is stated with sums, not with
the fold that computes them, and the token counts are functions, so that both can be
reasoned about. `Fresh` had a `UNION A \cup B` that SANY and tlapm read differently;
it is parenthesised now. Counting importers needs a repository of finitely many
files, and the layering verdicts a policy of named packages: both are stated in the
assumptions of GraphIngest and Consistency. A graph to search has finitely many nodes,
as a table has finitely many rows: without that some neighbours have no order to come
in, and `Reachable` no last round. `PassedBacksReport` once compared all
metrics a replay prints with the report. A scorer that prints more for a later spec
refutes that: a run of the next spec, with the same conditions, replaces `spec.json`
and dies before a verification of the first reads it, and every trial is confirmed
by the wrong scorer, with metrics the report never had. That is all the code
promises (it compares published metrics only), and so does the property now; the
new form holds on that instance (603,491 states). The entries of a verification are
a function from line numbers, and `Metrics` is one expression: `SelectSeq` and `@@`
are opaque to the prover.

Sums, folds and recursive functions are within reach although the library's
induction theorems are not: a statement about every finite set is proved from a
minimal counterexample, which the well-foundedness of strict subsets gives
(`FoldFacts`). That the recursive function of the fold exists is proved the same
way.

Only model-checked: `SearchEnds`, which is liveness and out of the prover's reach. Every
other property of a passing run is stated by a theorem. The four properties of the runs
that expect a violation are false, which TLC shows.

## 5. Not modelled

Rendering, wording and token counts; argument parsing; the MCP protocol;
discovery of `.verity/` and `init`; git; regular expressions that extract
claims or classify text; floating-point scores as numbers. A second ingest at
the same time as the first. Of the consistency engine, decision resurfacing and
constraint violations: a BM25 score of prose against a threshold. The rule
engine, the security rules and `analysis/`: queries over the syntax tree of one
file, without state. `bench/deterministic.py`, which measures fixed scenarios and
prints them. `install` and `install_statusline` of the hooks, which edit `settings.json`.
Pilots, scripts and documents are no part of the program. `PROJECT.json`
("components") has the reason for each.

## 6. Plan

1. *Done*: the memory side (AppendLog, MemoryEngine, AtomicWrite over
   AtomicRegister), the code graph (GraphIngest) and what reads it (GraphSearch,
   Consistency), the pipeline and what feeds it (ContextPipeline,
   AdaptiveContext), and TrialEvidence, with theorems of each.
2. *Done*: a theorem for every safety property that a passing run checks, and for
   restores without `OneWriter` that no record is lost. Left: what still holds of
   two snapshots at once (which number and which files a published one has).
3. Models: two ingests at once in GraphIngest; `install` over an existing
   `settings.json`; texts of one hash of which only one has a marker, as
   `content_hash` ignores white space that markers do not.
