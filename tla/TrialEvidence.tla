--------------------------- MODULE TrialEvidence ---------------------------
(***************************************************************************)
(* Runs of a trial harness and what is kept of them (bench/): run_eval     *)
(* copies the fixture for each trial, lets the agent work, scores, retains *)
(* a diff and a manifest line, and at the end judges whether the run may   *)
(* be published and writes spec and report.  verify_evidence derives the   *)
(* numbers again from what was kept.                                       *)
(*                                                                         *)
(* The fixture may be edited, a run may die, and a verification may go on  *)
(* meanwhile.  Runs have an evidence root and metrics come from the scorer,*)
(* as the command line has it; the roots for scratch are not shared.       *)
(***************************************************************************)
EXTENDS Integers, Sequences, FiniteSetsExt

CONSTANTS Files,        \* paths of a tree
          Lines,        \* contents that are text, and not empty
          Newlines,     \* [Lines -> Lines]: each with its line ends made newlines
          Split,        \* texts with a form feed or the like, where splitlines splits
          Specs,        \* what may be run, see SpecsAssumption
          Work(_, _),   \* trees an agent may make of one, by condition
          Score(_, _),  \* what a scorer on a tree may come to, [exit, json, left]:
                        \* it runs in the tree and may change what is left of it
          Keys,         \* metrics, "success" among them
          Values,       \* what metrics range over
          NaN,          \* a metric that is no number but passes for one
          None,         \* no diff, no spec; the scorer prints no object
          Fixtures,     \* trees a fixture may be at first
          Edited,       \* contents an edit of the fixture may write
          MinTrials,    \* _MIN_TRIALS_FOR_A_CLAIM (5)
          MaxRuns,      \* bound: runs
          MaxEdits,     \* bound: edits of the fixture
          MaxChecks     \* bound: verifications

Contents == Lines \cup {"absent", "empty", "binary"}
Trees == [Files -> Contents]
Conditions == UNION {{s.conditions[i] : i \in DOMAIN s.conditions} : s \in Specs}

\* The k-th trial of a run: a condition after the other, with its repetitions.
Trial(s, k) == <<s.conditions[((k - 1) \div s.n) + 1], ((k - 1) % s.n) + 1>>
Trials(s) == {Trial(s, k) : k \in 1 .. Len(s.conditions) * s.n}
TrialIds == UNION {Trials(s) : s \in Specs}

\* No spec lists a condition twice: the trials of both would share their names.
ASSUME SpecsAssumption ==
    /\ \A s \in Specs :
        /\ s.conditions \in Seq(STRING) /\ s.conditions # <<>>
        /\ \A i, j \in DOMAIN s.conditions : s.conditions[i] = s.conditions[j] => i = j
        /\ s.n \in Nat \ {0} /\ s.keys \subseteq Keys
        /\ s.commands \subseteq Conditions
        /\ \A c \in s.commands, t \in Trees : Work(c, t) \subseteq Trees
    /\ None \notin Specs
    /\ Newlines \in [Lines -> Lines] /\ \A c \in Lines : Newlines[Newlines[c]] = Newlines[c]
    /\ Split \subseteq Lines /\ {"absent", "empty", "binary"} \cap Lines = {}
    /\ Fixtures \subseteq Trees /\ Edited \subseteq Contents
    /\ "success" \in Keys /\ {0, 1} \subseteq Values /\ Values \subseteq Nat \cup {NaN}
    /\ NaN \notin Nat
    /\ {MaxRuns, MaxEdits, MaxChecks} \subseteq Nat

VARIABLES fixture,   \* the tree that trials start from
          run,       \* the run in progress
          manifest,  \* manifest.jsonl: entries, and lines that are none
          diffs,     \* [trials -> changes.diff]
          spec,      \* spec.json
          report,    \* report.json
          runs,      \* runs begun; a run's id is its number
          check,     \* the verification in progress
          edits, checks

evidence == <<manifest, diffs, spec, report>>
bounds == <<edits, checks>>
vars == <<fixture, run, evidence, runs, check, bounds>>

\* A manifest line cut short, and such a line with another one behind it.
Torn == [id |-> 0, torn |-> TRUE]
Garbled == [id |-> 0, torn |-> FALSE]
NoReport == [run |-> 0, publishable |-> FALSE]
----------------------------------------------------------------------------
(* Trees and diffs.                                                        *)

\* read_text makes a newline of each line end; no lines are read of what is not there.
Side(c) == IF c \in Lines THEN Newlines[c] ELSE c

\* before == after: a file that is absent and one that is empty have the same lines.
SameLines(c, d) == Side(c) = Side(d) \/ {c, d} = {"absent", "empty"}

\* Mutants: files that did not change are not skipped; deleted files are left out.
DiffAll(base, tree) ==
    [f \in {f \in Files : "binary" \notin {base[f], tree[f]}} |->
        [old |-> Side(base[f]), new |-> Side(tree[f])]]
DiffKept(base, tree) ==
    [f \in {f \in Files : /\ "binary" \notin {base[f], tree[f]} /\ tree[f] # "absent"
                          /\ ~SameLines(base[f], tree[f])} |->
        [old |-> Side(base[f]), new |-> Side(tree[f])]]

\* tree_diff: what the diff has, and what it cannot represent.
Diff(base, tree) ==
    [f \in {f \in Files : "binary" \notin {base[f], tree[f]} /\ ~SameLines(base[f], tree[f])} |->
        [old |-> Side(base[f]), new |-> Side(tree[f])]]
Unreproducible(base, tree) == {f \in Files : "binary" \in {base[f], tree[f]}}

\* git apply: a change fits the contents it was made from.  Others, and a text whose
\* lines the diff has in pieces, may have the lines it looks for or not, unless it
\* looks for all there is or for nothing.
Exact(change, c) == c = change.old /\ c \notin Split
Patched(change, c) ==
    IF Exact(change, c) THEN {change.new}
    ELSE IF {change.old, change.new} \subseteq Lines /\ c \in Lines \cup {"binary"}
         THEN Lines \cup {"binary"} ELSE {}

\* The trees that git apply may make, and whether it may refuse.
Applied(diff, tree) ==
    {t \in Trees : \A f \in Files :
        t[f] \in IF f \in DOMAIN diff THEN Patched(diff[f], tree[f]) ELSE {tree[f]}}
Refused(diff, tree) == \E f \in DOMAIN diff : ~Exact(diff[f], tree[f])
----------------------------------------------------------------------------
(* Metrics.                                                                *)

\* parse_metrics: an object of numbers is merged over the exit code's metric, an
\* object with anything else in it is rejected as a whole.
Metrics(out) ==
    LET numbers == IF out.json = None \/ (\E k \in DOMAIN out.json : out.json[k] \notin Nat \cup {NaN})
                   THEN <<>> ELSE out.json
    IN  [k \in {"success"} \cup DOMAIN numbers |->
            IF k \in DOMAIN numbers THEN numbers[k] ELSE IF out.exit = 0 THEN 1 ELSE 0]

MetricSets == UNION {[K -> Values] : K \in SUBSET Keys}
ASSUME ScoreAssumption == \A s \in Specs, tree \in Trees : \A out \in Score(s.scorer, tree) :
    out.exit \in Nat /\ Metrics(out) \in MetricSets /\ out.left \in Trees

Reporting(records, c, key) ==
    {k \in DOMAIN records : records[k].trial[1] = c /\ key \in DOMAIN records[k].metrics}

\* The noise floor: min and max pass a NaN by, unless it is the first value.
Floor(records, base, key) == {records[k].metrics[key] : k \in Reporting(records, base, key)} \ {NaN}
NoFloor(records, base, key) == records[Min(Reporting(records, base, key))].metrics[key] = NaN

\* Mutant: the mean is compared with the lowest value alone.
CompareLow(records, base, c, key) ==
    LET floor == Floor(records, base, key)
        others == Reporting(records, c, key)
        values == [k \in others |-> records[k].metrics[key]]
        sum == MapThenSumSet(LAMBDA k : values[k], others)
    IN  IF Cardinality(Reporting(records, base, key)) < 2 \/ others = {} THEN "insufficient_data"
        ELSE IF NoFloor(records, base, key) \/ \E k \in others : values[k] = NaN
             THEN "indistinguishable_from_noise"
        ELSE IF sum = Cardinality(others) * Min(floor)
             THEN "indistinguishable_from_noise" ELSE "likely_real_difference"

\* compare_to_noise_floor: is the mean of c outside the range of the baseline?
Compare(records, base, c, key) ==
    LET floor == Floor(records, base, key)
        others == Reporting(records, c, key)
        values == [k \in others |-> records[k].metrics[key]]
        sum == MapThenSumSet(LAMBDA k : values[k], others)
    IN  IF Cardinality(Reporting(records, base, key)) < 2 \/ others = {} THEN "insufficient_data"
        ELSE IF NoFloor(records, base, key) \/ \E k \in others : values[k] = NaN
             THEN "indistinguishable_from_noise"
        ELSE IF sum < Cardinality(others) * Min(floor) \/ sum > Cardinality(others) * Max(floor)
             THEN "likely_real_difference" ELSE "indistinguishable_from_noise"

Baseline(s) == s.conditions[1]
Compared(s) == {s.conditions[i] : i \in 2 .. Len(s.conditions)}
Comparisons(s, records) ==
    [p \in Compared(s) \X s.keys |-> Compare(records, Baseline(s), p[1], p[2])]

\* A floor of one value makes any difference look real.
Degenerate(s, records) ==
    \E p \in DOMAIN Comparisons(s, records) :
        /\ Comparisons(s, records)[p] # "insufficient_data"
        /\ ~NoFloor(records, Baseline(s), p[2])
        /\ Cardinality(Floor(records, Baseline(s), p[2])) = 1

\* run_eval: no warning fires.  The manifest's entries are those of all runs.
Publishable(s, records) ==
    /\ s.n >= MinTrials
    /\ \A k \in DOMAIN manifest : manifest[k].unreproducible = {}
    /\ \A k \in DOMAIN records : s.keys \subseteq DOMAIN records[k].metrics
    /\ ~Degenerate(s, records)
----------------------------------------------------------------------------
(* A run.                                                                  *)

Idle == [step |-> "idle"]

\* Any other step, seen by a verification: one that is under way goes on, what
\* one that has ended reported is forgotten.
Disturbs ==
    check' = IF check.step \in {"load", "replay"} THEN [check EXCEPT !.calm = FALSE] ELSE Idle

Init ==
    /\ fixture \in Fixtures
    /\ run = Idle
    /\ manifest = <<>> /\ diffs = [t \in TrialIds |-> None]
    /\ spec = None /\ report = NoReport
    /\ runs = 0
    /\ check = Idle
    /\ edits = 0 /\ checks = 0

\* run_trials hashes the fixture, once.
Begin(s) ==
    /\ run = Idle /\ runs < MaxRuns
    /\ runs' = runs + 1
    /\ run' = [step |-> "trial", spec |-> s, hash |-> fixture, records |-> <<>>,
               missing |-> {}, publishable |-> FALSE, steady |-> TRUE]
    /\ Disturbs
    /\ UNCHANGED <<fixture, evidence, bounds>>

\* Copy the fixture, let the agent work if the condition has a command for it, and
\* score; the artifact is what the scorer leaves.
RunTrial ==
    /\ run.step = "trial"
    /\ LET trial == Trial(run.spec, Len(run.records) + 1)
       IN  \E tree \in IF trial[1] \in run.spec.commands THEN Work(trial[1], fixture) ELSE {fixture} :
            \E out \in Score(run.spec.scorer, tree) :
                run' = [run EXCEPT !.step = "diff",
                          !.records = Append(@, [trial |-> trial, exit |-> out.exit,
                                                 metrics |-> Metrics(out), artifact |-> out.left])]
    /\ Disturbs
    /\ UNCHANGED <<fixture, evidence, runs, bounds>>

Latest == run.records[Len(run.records)]

\* write_trial_evidence: the diff, from the fixture as it is by now, and the
\* scorer's output and transcript, which are only read by people.
RetainDiff ==
    /\ run.step = "diff"
    /\ diffs' = [diffs EXCEPT ![Latest.trial] = Diff(fixture, Latest.artifact)]
    /\ run' = [run EXCEPT !.step = "entry", !.missing = Unreproducible(fixture, Latest.artifact)]
    /\ Disturbs
    /\ UNCHANGED <<fixture, manifest, spec, report, runs, bounds>>

Entry ==
    [id |-> runs, torn |-> FALSE, fixture |-> run.hash, unreproducible |-> run.missing,
     trial |-> Latest.trial, exit |-> Latest.exit, metrics |-> Latest.metrics,
     artifact |-> Latest.artifact]

\* Mutant: only what succeeded is kept.
AppendSuccess ==
    /\ run.step = "entry"
    /\ manifest' = IF Latest.exit = 0 THEN Append(manifest, Entry) ELSE manifest
    /\ run' = [run EXCEPT !.missing = {},
                 !.step = IF Len(run.records) = Cardinality(Trials(run.spec)) THEN "judge" ELSE "trial"]
    /\ Disturbs
    /\ UNCHANGED <<fixture, diffs, spec, report, runs, bounds>>

\* A line behind one that was cut short is part of it.
AppendEntry ==
    /\ run.step = "entry"
    /\ manifest' = IF manifest # <<>> /\ manifest[Len(manifest)].torn
                   THEN [manifest EXCEPT ![Len(manifest)] = Garbled]
                   ELSE Append(manifest, Entry)
    /\ run' = [run EXCEPT !.missing = {},
                 !.step = IF Len(run.records) = Cardinality(Trials(run.spec)) THEN "judge" ELSE "trial"]
    /\ Disturbs
    /\ UNCHANGED <<fixture, diffs, spec, report, runs, bounds>>

Readable == \A k \in DOMAIN manifest : manifest[k] \notin {Torn, Garbled}

\* run_eval reads the manifest; a line that is none of its own stops it here.
Judge ==
    /\ run.step = "judge"
    /\ run' = IF ~Readable THEN Idle
              ELSE [run EXCEPT !.step = "spec", !.publishable = Publishable(run.spec, run.records)]
    /\ Disturbs
    /\ UNCHANGED <<fixture, evidence, runs, bounds>>

\* write_run_evidence: the spec, then the report.
WriteSpec ==
    /\ run.step = "spec"
    /\ spec' = run.spec
    /\ run' = [run EXCEPT !.step = "report"]
    /\ Disturbs
    /\ UNCHANGED <<fixture, manifest, diffs, report, runs, bounds>>

WriteReport ==
    /\ run.step = "report"
    /\ report' = [run |-> runs, spec |-> run.spec, publishable |-> run.publishable, steady |-> run.steady,
                  trials |-> run.records, comparisons |-> Comparisons(run.spec, run.records)]
    /\ run' = Idle
    /\ Disturbs
    /\ UNCHANGED <<fixture, manifest, diffs, spec, runs, bounds>>

\* The run dies, perhaps in the middle of a manifest line.
Die ==
    /\ run # Idle
    /\ run' = Idle
    /\ \/ UNCHANGED manifest
       \/ run.step = "entry" /\ Readable /\ manifest' = Append(manifest, Torn)
    /\ Disturbs
    /\ UNCHANGED <<fixture, diffs, spec, report, runs, bounds>>

\* Someone edits a file of the fixture.
Edit ==
    /\ edits < MaxEdits
    /\ \E f \in Files : \E c \in Edited \ {fixture[f]} : fixture' = [fixture EXCEPT ![f] = c]
    /\ run' = IF run = Idle THEN run ELSE [run EXCEPT !.steady = FALSE]
    /\ Disturbs
    /\ edits' = edits + 1
    /\ UNCHANGED <<evidence, runs, checks>>
----------------------------------------------------------------------------
(* A verification.                                                         *)

\* verify_evidence reads the manifest and settles on the run of its last line;
\* a line that does not parse raises.
VerifyBegin ==
    /\ check.step \in {"idle", "done", "raised"} /\ checks < MaxChecks
    /\ manifest # <<>>
    /\ checks' = checks + 1
    /\ check' = IF ~Readable THEN [step |-> "raised"]
                ELSE LET target == manifest[Len(manifest)].id
                     IN  [step |-> "load", target |-> target, calm |-> run = Idle, between |-> run = Idle,
                          entries |-> [k \in {j \in DOMAIN manifest : manifest[j].id = target} |-> manifest[k]],
                          spec |-> None, report |-> NoReport, base |-> None, results |-> <<>>]
    /\ UNCHANGED <<fixture, run, evidence, runs, edits>>

Unspecified(e) == [trial |-> e.trial, verdict |-> "no spec", metrics |-> <<>>]

\* It reads spec and report, and hashes the fixture.
VerifyLoad ==
    /\ check.step = "load"
    /\ check' =
        IF spec = None
        THEN [check EXCEPT !.step = "done", !.report = report,
                           !.results = [k \in DOMAIN check.entries |-> Unspecified(check.entries[k])]]
        ELSE [check EXCEPT !.step = "replay", !.spec = spec, !.report = report, !.base = fixture]
    /\ UNCHANGED <<fixture, run, evidence, runs, bounds>>

\* Mutant: the metrics are not compared.
AgreesOnExit(e, out) == out.exit = e.exit

\* The exit code and every published metric come out again; a NaN is never the same.
Agrees(e, out) ==
    /\ out.exit = e.exit
    /\ \A k \in DOMAIN e.metrics :
        k \in DOMAIN Metrics(out) /\ Metrics(out)[k] = e.metrics[k] /\ e.metrics[k] # NaN

\* What becomes of one entry, with the fixture and the diff there are by now.
Result(e, verdict, metrics) == [trial |-> e.trial, verdict |-> verdict, metrics |-> metrics]
Rescored(e, tree) ==
    {IF Agrees(e, out) THEN Result(e, "ok", Metrics(out)) ELSE Result(e, "mismatch", <<>>) :
        out \in Score(check.spec.scorer, tree)}
Replayed(e) ==
    IF check.base # e.fixture THEN {Result(e, "drift", <<>>)}
    ELSE (UNION {Rescored(e, tree) : tree \in Applied(diffs[e.trial], fixture)})
         \cup (IF Refused(diffs[e.trial], fixture) THEN {Result(e, "does not apply", <<>>)} ELSE {})

\* The entries are replayed in the manifest's order.
VerifyEntry ==
    /\ check.step = "replay"
    /\ LET todo == DOMAIN check.entries \ DOMAIN check.results
           k == Min(todo)
       IN  \E result \in Replayed(check.entries[k]) :
            check' = [check EXCEPT
                        !.results = [j \in DOMAIN @ \cup {k} |-> IF j = k THEN result ELSE @[j]],
                        !.step = IF todo = {k} THEN "done" ELSE "replay"]
    /\ UNCHANGED <<fixture, run, evidence, runs, bounds>>

Next ==
    \/ (\E s \in Specs : Begin(s)) \/ RunTrial \/ RetainDiff \/ AppendEntry
    \/ Judge \/ WriteSpec \/ WriteReport \/ Die
    \/ Edit
    \/ VerifyBegin \/ VerifyLoad \/ VerifyEntry

Spec == Init /\ [][Next]_vars
----------------------------------------------------------------------------
(* Correctness.                                                            *)

IsRecord(r) ==
    /\ r.trial \in TrialIds /\ r.exit \in Nat /\ r.artifact \in Trees
    /\ r.metrics \in MetricSets /\ "success" \in DOMAIN r.metrics

TypeOK ==
    /\ fixture \in Trees
    /\ run = Idle \/ /\ run.step \in {"trial", "diff", "entry", "judge", "spec", "report"}
                     /\ run.spec \in Specs /\ run.hash \in Trees
                     /\ \A k \in DOMAIN run.records : IsRecord(run.records[k])
    /\ \A k \in DOMAIN manifest : manifest[k] \in {Torn, Garbled} \/ IsRecord(manifest[k])
    /\ \A t \in TrialIds : diffs[t] = None
            \/ \A f \in DOMAIN diffs[t] : f \in Files /\ diffs[t][f].old # diffs[t][f].new
    /\ spec \in Specs \cup {None}
    /\ runs \in 0 .. MaxRuns /\ edits \in 0 .. MaxEdits /\ checks \in 0 .. MaxChecks
    /\ check.step \in {"idle", "load", "replay", "done", "raised"}

\* Whatever died before it, a report on disk is backed: the manifest has one line
\* for each trial of its run, with the report's metrics, so no number of a report
\* is without evidence, lost to a torn line or left from another run.
ReportIsBacked ==
    report.run # 0 =>
        /\ {report.trials[k].trial : k \in DOMAIN report.trials} = Trials(report.spec)
        /\ \A k \in DOMAIN report.trials :
            LET lines == {j \in DOMAIN manifest :
                            manifest[j].id = report.run /\ manifest[j].trial = report.trials[k].trial}
            IN  Cardinality(lines) = 1
                /\ \A j \in lines : /\ manifest[j].metrics = report.trials[k].metrics
                                    /\ manifest[j].exit = report.trials[k].exit

\* What the diff of a trial loses or has in pieces: a file made empty out of nothing
\* or the reverse, line ends of a text, and odd line ends of a text that it changed.
Lossy(e) == \E f \in Files :
    LET old == e.fixture[f]
        new == e.artifact[f]
    IN  old # new /\ \/ {old, new} = {"absent", "empty"}
                     \/ Side(old) # old \/ Side(new) # new \/ old \in Split

\* The scorer, run again on what it left, comes to the same: it must not depend on
\* anything else, nor on what it has written there itself.
Repeats(e) == \A out \in Score(check.spec.scorer, e.artifact) : Agrees(e, out)

\* A verification that began between two runs ends, and the report is of the run
\* that it is about.
OnReport == check.step = "done" /\ check.between /\ check.target = check.report.run

\* What a publishable run retains does re-derive it: if no later run began and
\* nothing moved meanwhile, a verification says of each trial that the fixture moved,
\* or else confirms it, and never blames a number; given that the diff could hold the
\* change and the scorer repeats itself.  Neither is in the code's hands.
PublishedRederives ==
    (OnReport /\ check.calm /\ check.report.publishable /\ check.report.steady /\ runs = check.target) =>
        \A k \in DOMAIN check.entries :
            LET e == check.entries[k]
            IN  IF check.base # e.fixture THEN check.results[k].verdict = "drift"
                ELSE ~Lossy(e) /\ Repeats(e) => check.results[k].verdict = "ok"

Passed == \A k \in DOMAIN check.results : check.results[k].verdict = "ok"

\* The published metrics of an entry, as they came out of its replay.
Rederived(k) ==
    [trial |-> check.results[k].trial,
     metrics |-> [m \in DOMAIN check.entries[k].metrics \cap DOMAIN check.results[k].metrics |->
                    check.results[k].metrics[m]]]

\* A verification that passes backs the whole report, published or not: each of
\* its trials was derived again, and comparing the published metrics as they came
\* out draws the report's conclusions, even if the next run wrote over its diffs
\* meanwhile.
PassedBacksReport ==
    (OnReport /\ Passed) =>
        LET rederived == [k \in DOMAIN check.results |-> Rederived(k)]
        IN  /\ {rederived[k].trial : k \in DOMAIN rederived} = Trials(check.report.spec)
            /\ Comparisons(check.report.spec, rederived) = check.report.comparisons

\* A difference a publishable report calls real is in the data: the baseline's own
\* trials differ, every trial with a number counts, and one lies beyond them all.
RealDifferencesAreThere ==
    (report.publishable) => \A p \in DOMAIN report.comparisons :
        LET Value(k) == report.trials[k].metrics[p[2]]
            Of(c) == {k \in DOMAIN report.trials : report.trials[k].trial[1] = c /\ Value(k) # NaN}
            within == Of(Baseline(report.spec))
            others == Of(p[1])
        IN  report.comparisons[p] = "likely_real_difference" =>
                /\ \E j, k \in within : Value(j) # Value(k)
                /\ \/ \E k \in others : \A j \in within : Value(k) > Value(j)
                   \/ \E k \in others : \A j \in within : Value(k) < Value(j)

\* What tree_diff says of what a diff cannot represent: "They are *declared*,
\* never silently omitted".
EmptyFilesAreDeclared ==
    (report.run # 0 /\ report.run = runs /\ report.steady) =>
        \A k \in DOMAIN manifest : manifest[k].id = runs =>
            \A f \in Files \ manifest[k].unreproducible :
                \A tree \in Applied(diffs[manifest[k].trial], manifest[k].fixture) :
                    tree[f] = manifest[k].artifact[f]

\* The evidence of a published run is "the retained, tracked artifact": as long as
\* the fixture is the one it recorded, a verification of that run confirms it.
PublishedStaysDerivable ==
    (OnReport /\ check.calm /\ check.report.publishable /\ check.report.steady) =>
        \A k \in DOMAIN check.entries :
            LET e == check.entries[k]
            IN  IF check.base # e.fixture THEN check.results[k].verdict = "drift"
                ELSE ~Lossy(e) /\ Repeats(e) => check.results[k].verdict = "ok"
=============================================================================
