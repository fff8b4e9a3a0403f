---------------------------- MODULE MemoryEngine ----------------------------
(***************************************************************************)
(* What verity does with the record logs of AppendLog: remember, supersede *)
(* and resolve records, set the task, take and restore snapshots, build a  *)
(* handoff, and run the PreCompact and SessionStart hooks.                 *)
(*                                                                         *)
(* One operation is a job of one process: a sequence of steps, between     *)
(* which other processes act and at any of which the process may be killed.*)
(* What a job has to append it puts in the process's queue (AppendLog);    *)
(* the job goes on when the queue is empty.                                *)
(***************************************************************************)
EXTENDS AppendLog, SequencesExt

CONSTANTS Stmts,        \* what a record states
          SplitStmts,   \* those with a character that splitlines breaks at
          Transcripts,  \* CRITICAL items of a session transcript, in order
          Tasks,        \* values of the current task
          NoTask,       \* no task set
          Restored,     \* restorable kinds, in the order of restore()
          HandoffKinds, \* the kinds build_handoff reads, in its order
          Ops,          \* the operations that are run
          OneWriter,    \* one operation at a time, the contract of ADR-0038
          MaxId,        \* bound: record ids
          MaxSnaps      \* bound: snapshot numbers

RestorableKinds == {"decisions", "constraints", "discoveries", "failures", "facts"}

ASSUME KindsAssumption ==
    /\ Restored \in Seq(RestorableKinds) \ {<<>>}
    /\ Kinds = {Restored[i] : i \in 1 .. Len(Restored)} \cup {"surfacings"}
    /\ HandoffKinds \in Seq(Kinds) \ {<<>>}
    /\ {HandoffKinds[i] : i \in 1 .. Len(HandoffKinds)} = Kinds \ {"facts", "surfacings"}
    /\ "hook" \in Ops => "discoveries" \in Kinds
    /\ Transcripts \subseteq Seq(Stmts)
    /\ NoTask \notin Tasks
    /\ OneWriter \in BOOLEAN
    /\ MaxId \in Nat /\ MaxSnaps \in Nat

\* link: the id a decision supersedes or a failure marker resolves, 0 for None.
\* closed: a decision that is not ACTIVE, a failure that is resolved.
Record == [id: 1 .. MaxId, stmt: Stmts \cup {"surfacing"}, link: 0 .. MaxId, closed: BOOLEAN]

ASSUME RecordsAssumption ==
    /\ Records = Record
    /\ Split = {r \in Records : r.stmt \in SplitStmts}

VARIABLES nextId,  \* uuid4 never repeats: the next fresh id
          task,    \* state/task.json
          snaps,   \* [1..MaxSnaps -> the directory and its snapshot.json]
          job      \* [Procs -> the operation the process is running]

engineVars == <<nextId, task, snaps, job>>
vars == <<logVars, engineVars>>

Files == Restored \o <<"surfacings">>   \* the order of _FILES, for integrity()
Snaps == 1 .. MaxSnaps

NoView == [k \in Kinds |-> {}]
NoSnap == [dir |-> FALSE, full |-> FALSE, forced |-> FALSE, task |-> NoTask, view |-> NoView]
NoJob == [op |-> "none", step |-> "none", at |-> 1, bad |-> FALSE, num |-> 0, forced |-> FALSE,
          task |-> NoTask, cut |-> {}, got |-> NoView, script |-> <<>>,
          known |-> NoView, sound |-> FALSE]

\* What the properties remember of the moment an operation started: the records
\* acknowledged so far, and (until a torn append) that no file ends in a line.
Started(op, step) == [NoJob EXCEPT !.op = op, !.step = step, !.known = acked,
                                   !.sound = \A k \in Kinds : ~Open(logs[k])]
----------------------------------------------------------------------------
(* What the typed accessors return for the parsed records of a file.       *)

Ids(R) == {r.id : r \in R}
Linked(R) == {r.link : r \in R}

\* Mutant: the view is read through a model without the link.
DecisionsUnlinked(R) ==
    {[id |-> d.id, stmt |-> d.stmt, closed |-> d.closed] :
        d \in {c \in R : ~c.closed /\ c.id \notin Linked(R)}}

Decisions(R) == {d \in R : ~d.closed /\ d.id \notin Linked(R)}
Failures(R) ==
    {[f EXCEPT !.closed = f.closed \/ f.id \in Linked(R)] : f \in {g \in R : g.link = 0}}

View(k, R) == CASE k = "decisions" -> Decisions(R)
                [] k = "failures" -> Failures(R)
                [] OTHER -> R

Read(k) == View(k, Parsed(logs[k]))

\* build_handoff asks for the failures that are still open.
Shown(k) == IF k = "failures" THEN {f \in Read(k) : ~f.closed} ELSE Read(k)

\* The sections _CUT_ORDER gives up, first to last; a budget cuts a prefix.
CutOrder == <<"discoveries", "failures", "constraints", "decisions">>
----------------------------------------------------------------------------
Idle(p) == job[p] = NoJob /\ queue[p] = <<>>

\* Whether p may start an operation: under the contract, if nothing else runs.
MayStart(p, op) ==
    /\ op \in Ops
    /\ Idle(p)
    /\ OneWriter => \A q \in Procs : Idle(q)

At(p, op, step) == /\ job[p].op \in op
                   /\ job[p].step = step
                   /\ queue[p] = <<>>

Goto(p, step) == job' = [job EXCEPT ![p].step = step, ![p].at = 1]

Fresh(stmt) == [id |-> nextId, stmt |-> stmt, link |-> 0, closed |-> FALSE]
NewId == nextId <= MaxId /\ nextId' = nextId + 1
----------------------------------------------------------------------------
(* Single writes.                                                          *)

Remember(p, k, s) ==
    /\ MayStart(p, "remember")
    /\ NewId
    /\ Begin(p, <<[kind |-> k, rec |-> Fresh(s)]>>)
    /\ UNCHANGED <<task, snaps, job>>

\* supersede appends the replacement; the old record is left as it is, and
\* nothing checks that the id names an active decision, or any decision.
Supersede(p, old, s) ==
    /\ MayStart(p, "supersede")
    /\ NewId
    /\ old < nextId
    /\ Begin(p, <<[kind |-> "decisions", rec |-> [Fresh(s) EXCEPT !.link = old]]>>)
    /\ UNCHANGED <<task, snaps, job>>

\* `verity failures resolve`: an already resolved failure is left alone.
Resolve(p, f) ==
    /\ MayStart(p, "resolve")
    /\ NewId
    /\ Decodable(logs["failures"])
    /\ f \in Failures(Parsed(logs["failures"])) /\ ~f.closed
    /\ Begin(p, <<[kind |-> "failures",
                   rec |-> [Fresh(f.stmt) EXCEPT !.link = f.id, !.closed = TRUE]]>>)
    /\ UNCHANGED <<task, snaps, job>>

\* set_task replaces task.json in one rename (AtomicWrite).
SetTask(p, t) ==
    /\ MayStart(p, "task")
    /\ task' = t
    /\ UNCHANGED <<logVars, nextId, snaps, job>>
----------------------------------------------------------------------------
(* Snapshots.                                                              *)

SnapBegin(p, forced) ==
    /\ MayStart(p, "snapshot")
    /\ job' = [job EXCEPT ![p] = [Started("snapshot", IF forced THEN "number" ELSE "check")
                                 EXCEPT !.forced = forced]]
    /\ UNCHANGED <<logVars, nextId, task, snaps>>

\* integrity(), one file a step, for create() and for the handoff's notes.
\* create() raises CorruptStateError after the last file; the hook swallows it.
AfterCheckForgiving(p, bad) ==   \* Mutant: nothing is refused.
    IF job[p].op = "handoff" THEN "done" ELSE "number"

AfterCheck(p, bad) ==
    IF job[p].op = "handoff" \/ bad THEN "done" ELSE "number"

WorstLast(bad, log) == ~Clean(log)   \* Mutant: a clean file hides a bad one.
Worst(bad, log) == bad \/ ~Clean(log)

Check(p) ==
    LET log == logs[Files[job[p].at]]
        bad == Worst(job[p].bad, log)
    IN  /\ At(p, {"snapshot", "hook", "handoff"}, "check")
        /\ Decodable(log)
        /\ job' = [job EXCEPT ![p].bad = bad,
                              ![p].at = IF @ < Len(Files) THEN @ + 1 ELSE 1,
                              ![p].step = IF job[p].at < Len(Files) THEN @ ELSE AfterCheck(p, bad)]
        /\ UNCHANGED <<logVars, nextId, task, snaps>>

\* next_number counts directories, whether or not they hold a snapshot.json;
\* the task is read with it.
SameNumber == Max({1} \cup {n \in Snaps : snaps[n].dir})   \* Mutant: off by one.
NextNumber == 1 + Max({0} \cup {n \in Snaps : snaps[n].dir})

Number(p) ==
    /\ At(p, {"snapshot", "hook"}, "number")
    /\ NextNumber \in Snaps
    /\ job' = [job EXCEPT ![p].num = NextNumber, ![p].task = task,
                          ![p].step = "collect", ![p].got = NoView]
    /\ UNCHANGED <<logVars, nextId, task, snaps>>

Collect(p) ==
    LET k == Restored[job[p].at]
        last == job[p].at = Len(Restored)
    IN  /\ At(p, {"snapshot", "hook"}, "collect")
        /\ Decodable(logs[k])
        /\ job' = [job EXCEPT ![p].got[k] = Read(k),
                              ![p].at = IF last THEN 1 ELSE @ + 1,
                              ![p].step = IF last THEN "mkdir" ELSE @]
        /\ UNCHANGED <<logVars, nextId, task, snaps>>

Mkdir(p) ==
    /\ At(p, {"snapshot", "hook"}, "mkdir")
    /\ snaps' = [snaps EXCEPT ![job[p].num].dir = TRUE]
    /\ Goto(p, "publish")
    /\ UNCHANGED <<logVars, nextId, task>>

\* atomic_write_text of snapshot.json: all of it appears in one rename.
Publish(p) ==
    /\ At(p, {"snapshot", "hook"}, "publish")
    /\ snaps' = [snaps EXCEPT ![job[p].num] =
                    [dir |-> TRUE, full |-> TRUE, forced |-> job[p].forced,
                     task |-> job[p].task, view |-> job[p].got]]
    /\ job' = [job EXCEPT ![p] =
                 IF job[p].op = "hook" THEN [@ EXCEPT !.step = "done", !.at = 1] ELSE NoJob]
    /\ UNCHANGED <<logVars, nextId, task>>
----------------------------------------------------------------------------
(* Restore: the task first, then what each log misses, appended forward.   *)

RestoreBegin(p, n) ==
    /\ MayStart(p, "restore")
    /\ snaps[n].full
    /\ job' = [job EXCEPT ![p] = [Started("restore", "task") EXCEPT
                                !.num = n, !.task = snaps[n].task, !.got = snaps[n].view]]
    /\ UNCHANGED <<logVars, nextId, task, snaps>>

\* Mutant: the logs are emptied, to be filled from the snapshot.
RestoreFromScratch(p) ==
    /\ At(p, {"restore"}, "task")
    /\ logs' = [k \in Kinds |-> <<>>]
    /\ Goto(p, "log")
    /\ UNCHANGED <<queue, acked, dropped, torn, nextId, task, snaps>>

RestoreTask(p) ==
    /\ At(p, {"restore"}, "task")
    /\ task' = IF job[p].task = NoTask THEN task ELSE job[p].task
    /\ Goto(p, "log")
    /\ UNCHANGED <<logVars, nextId, snaps>>

\* The ids of one log are read once, then each missing record is appended.
MissingAll(p, k) == job[p].got[k]   \* Mutant: ids are not looked at.
MissingByStatement(p, k) ==         \* Mutant: records are matched by what they state.
    {r \in job[p].got[k] : \A q \in Parsed(logs[k]) : q.stmt # r.stmt}
Missing(p, k) == {r \in job[p].got[k] : r.id \notin Ids(Parsed(logs[k]))}

RestoreLog(p) ==
    LET k == Restored[job[p].at]
        last == job[p].at = Len(Restored)
    IN  /\ At(p, {"restore"}, "log")
        /\ Decodable(logs[k])
        /\ queue' = [queue EXCEPT ![p] =
                       SetToSeq({[kind |-> k, rec |-> r] : r \in Missing(p, k)})]
        /\ job' = [job EXCEPT ![p].at = IF last THEN 1 ELSE @ + 1,
                              ![p].step = IF last THEN "done" ELSE @]
        /\ UNCHANGED <<logs, acked, dropped, torn, nextId, task, snaps>>
----------------------------------------------------------------------------
(* Handoff.  SessionStart after a compaction prints the same document, with *)
(* no budget, and throws the report away.                                  *)

HandoffBegin(p, n) ==
    /\ MayStart(p, "handoff")
    /\ job' = [job EXCEPT ![p] = [Started("handoff", "gather")
                                 EXCEPT !.cut = {CutOrder[i] : i \in 1 .. n} \cap Kinds]]
    /\ UNCHANGED <<logVars, nextId, task, snaps>>

Gather(p) ==
    LET k == HandoffKinds[job[p].at]
        last == job[p].at = Len(HandoffKinds)
    IN  /\ At(p, {"handoff"}, "gather")
        /\ Decodable(logs[k])
        /\ job' = [job EXCEPT ![p].got[k] = IF k \in job[p].cut THEN {} ELSE Shown(k),
                              ![p].at = IF last THEN 1 ELSE @ + 1,
                              ![p].step = IF last THEN "surface" ELSE @]
        /\ UNCHANGED <<logVars, nextId, task, snaps>>

\* The Surfacing record; integrity() is read only after it is appended.
Surface(p) ==
    /\ At(p, {"handoff"}, "surface")
    /\ NewId
    /\ Begin(p, <<[kind |-> "surfacings", rec |-> Fresh("surfacing")]>>)
    /\ Goto(p, "check")
    /\ UNCHANGED <<task, snaps>>
----------------------------------------------------------------------------
(* PreCompact: append each CRITICAL item no readable discovery states yet, *)
(* then snapshot.  got["discoveries"] is the loop's set `already`.         *)

HookBegin(p, script) ==
    /\ MayStart(p, "hook")
    /\ Decodable(logs["discoveries"])
    /\ job' = [job EXCEPT ![p] = [Started("hook", "capture") EXCEPT
                                !.got["discoveries"] = Read("discoveries"), !.script = script]]
    /\ UNCHANGED <<logVars, nextId, task, snaps>>

Stated(R) == {r.stmt : r \in R}

LearnNothing(R, s) == R   \* Mutant: already.add is forgotten.
Learn(R, s) == R \cup {Fresh(s)}

CaptureNew(p) ==
    LET s == job[p].script[job[p].at] IN
    /\ At(p, {"hook"}, "capture")
    /\ job[p].at <= Len(job[p].script)
    /\ s \notin Stated(job[p].got["discoveries"])
    /\ NewId
    /\ Begin(p, <<[kind |-> "discoveries", rec |-> Fresh(s)]>>)
    /\ job' = [job EXCEPT ![p].at = @ + 1, ![p].got["discoveries"] = Learn(@, s)]
    /\ UNCHANGED <<task, snaps>>

CaptureKnown(p) ==
    /\ At(p, {"hook"}, "capture")
    /\ job[p].at <= Len(job[p].script)
    /\ job[p].script[job[p].at] \in Stated(job[p].got["discoveries"])
    /\ job' = [job EXCEPT ![p].at = @ + 1]
    /\ UNCHANGED <<logVars, nextId, task, snaps>>

CaptureEndEarly(p) ==   \* Mutant: the last item is left out.
    /\ At(p, {"hook"}, "capture")
    /\ job[p].at >= Len(job[p].script)
    /\ Goto(p, "check")
    /\ UNCHANGED <<logVars, nextId, task, snaps>>

CaptureEnd(p) ==
    /\ At(p, {"hook"}, "capture")
    /\ job[p].at > Len(job[p].script)
    /\ Goto(p, "check")
    /\ UNCHANGED <<logVars, nextId, task, snaps>>
----------------------------------------------------------------------------
(* Endings.                                                                *)

Finish(p) ==
    /\ job[p].step = "done" /\ queue[p] = <<>>
    /\ job' = [job EXCEPT ![p] = NoJob]
    /\ UNCHANGED <<logVars, nextId, task, snaps>>

\* The process is killed, or dies on a file it cannot decode.
Kill(p) ==
    /\ ~Idle(p)
    /\ queue' = [queue EXCEPT ![p] = <<>>]
    /\ job' = [job EXCEPT ![p] = NoJob]
    /\ UNCHANGED <<logs, acked, dropped, torn, nextId, task, snaps>>

Tear(p, cut) ==
    /\ TearAppend(p, cut)
    /\ job' = [q \in Procs |-> IF q = p THEN NoJob ELSE [job[q] EXCEPT !.sound = FALSE]]
    /\ UNCHANGED <<nextId, task, snaps>>

AppendNext(p) == AppendRecord(p) /\ UNCHANGED engineVars

\* The user mends a file while nothing runs.
Mend(k, i) ==
    /\ \A p \in Procs : Idle(p)
    /\ DeleteLine(k, i)
    /\ UNCHANGED engineVars
----------------------------------------------------------------------------
Init ==
    /\ LogInit
    /\ nextId = 1
    /\ task = NoTask
    /\ snaps = [n \in Snaps |-> NoSnap]
    /\ job = [p \in Procs |-> NoJob]

Next ==
    \/ \E p \in Procs :
        \/ \E k \in Kinds \ {"surfacings"}, s \in Stmts : Remember(p, k, s)
        \/ "decisions" \in Kinds /\ \E s \in Stmts, old \in 1 .. MaxId : Supersede(p, old, s)
        \/ \E f \in (IF "failures" \in Kinds THEN Failures(Parsed(logs["failures"])) ELSE {}) :
                Resolve(p, f)
        \/ \E t \in Tasks : SetTask(p, t)
        \/ \E forced \in BOOLEAN : SnapBegin(p, forced)
        \/ Check(p) \/ Number(p) \/ Collect(p) \/ Mkdir(p) \/ Publish(p)
        \/ \E n \in Snaps : RestoreBegin(p, n)
        \/ RestoreTask(p) \/ RestoreLog(p)
        \/ \E n \in 0 .. Len(CutOrder) : HandoffBegin(p, n)
        \/ Gather(p) \/ Surface(p)
        \/ \E script \in Transcripts : HookBegin(p, script)
        \/ CaptureNew(p) \/ CaptureKnown(p) \/ CaptureEnd(p)
        \/ Finish(p) \/ Kill(p) \/ AppendNext(p)
        \/ \E cut \in Cuts : Tear(p, cut)
    \/ \E k \in Kinds, i \in 1 .. MaxLines : Mend(k, i)

Spec == Init /\ [][Next]_vars
----------------------------------------------------------------------------
(* Correctness.                                                            *)

Job == [op: {"none", "snapshot", "hook", "restore", "handoff"},
        step: {"none", "check", "number", "collect", "mkdir", "publish", "task", "log",
               "gather", "surface", "capture", "done"},
        at: Nat \ {0}, bad: BOOLEAN, num: {0} \cup Snaps, forced: BOOLEAN,
        task: Tasks \cup {NoTask}, cut: SUBSET Kinds, got: [Kinds -> SUBSET Records],
        script: Seq(Stmts), known: [Kinds -> SUBSET Records], sound: BOOLEAN]

TypeOK ==
    /\ LogTypeOK
    /\ nextId \in 1 .. MaxId + 1
    /\ task \in Tasks \cup {NoTask}
    /\ snaps \in [Snaps -> [dir: BOOLEAN, full: BOOLEAN, forced: BOOLEAN,
                            task: Tasks \cup {NoTask}, view: [Kinds -> SUBSET Records]]]
    /\ job \in [Procs -> Job]

\* Every step of the engine is an append, a torn append, a batch handed over,
\* a deletion by hand or no step at all of the logs: nothing else touches them.
ImplementsLog ==
    [][ \/ \E p \in Procs : \/ Begin(p, queue'[p]) \/ AppendRecord(p) \/ Abandon(p)
                             \/ \E cut \in Cuts : TearAppend(p, cut)
        \/ \E k \in Kinds, i \in 1 .. MaxLines : DeleteLine(k, i) ]_logVars

\* Record r of kind k is accounted for by what was read: it is there, or a
\* marker in the file says why it is not (any more).  A torn marker may have been
\* readable when the file was read and be so no more: the next append to the
\* file continues its line.
Accounted(k, r, got) ==
    \/ r.id \in Ids(got)
    \/ r.id \in Linked(Written(logs[k]))
    \/ k = "failures" /\ r.link # 0 /\ \A f \in got : f.id = r.link => f.closed

\* A snapshot taken without --force is no shorter than the history: every
\* record acknowledged before it started is in its views or was superseded,
\* although the files are checked and read one after the other while other
\* processes append (ADR-0037: create() refuses rather than write a shortened
\* history forward).
SnapshotIsComplete ==
    [][\A p \in Procs :
        (job[p].step = "publish" /\ job'[p].step # "publish" /\ snaps' # snaps /\ ~job[p].forced) =>
            \A k \in Kinds \ {"surfacings"} : \A r \in job[p].known[k] \ dropped[k] :
                Accounted(k, r, snaps'[job[p].num].view[k])]_snaps

\* A snapshot, once written, is never overwritten: not by a later one, and not
\* after a crash that left a directory without its snapshot.json.
SnapshotsAreFinal == [][\A n \in Snaps : snaps[n].full => snaps'[n] = snaps[n]]_snaps

\* However often restores run, are killed and run again, no log holds two
\* readable lines with one id.
NoDuplicateIds ==
    \A k \in Kinds : \A i, j \in 1 .. Len(logs[k]) :
        (i # j /\ logs[k][i].text = "json" /\ logs[k][j].text = "json") =>
            Ids(logs[k][i].recs) \cap Ids(logs[k][j].recs) = {}

\* A restore that started on logs without a torn last line has, when it is
\* done, put back the snapshot's task and every record that was not there.
RestoreIsComplete ==
    \A p \in Procs :
        (job[p].op = "restore" /\ job[p].step = "done" /\ queue[p] = <<>> /\ job[p].sound) =>
            /\ job[p].task \in {task, NoTask}
            /\ \A k \in Kinds : Ids(job[p].got[k]) \subseteq Ids(Parsed(logs[k]))

\* A handoff accounts for every record acknowledged before it started, others
\* appending meanwhile: it shows the record (unless it is closed), it names its
\* section as dropped, or it says that some file could not be read in full.
HandoffIsHonest ==
    \A p \in Procs : (job[p].op = "handoff" /\ job[p].step = "done") =>
        \A i \in 1 .. Len(HandoffKinds) :
            LET k == HandoffKinds[i] IN
            job[p].bad \/ k \in job[p].cut \/
                \A r \in job[p].known[k] \ dropped[k] :
                    Accounted(k, r, job[p].got[k]) \/ (k = "failures" /\ r.closed)

\* The hook does its work: each CRITICAL item of the transcript can be read
\* from the discoveries when it is done, if the logs were sound to start with.
HookCaptures ==
    \A p \in Procs :
        (job[p].op = "hook" /\ job[p].step = "done" /\ job[p].sound) =>
            \A i \in 1 .. Len(job[p].script) :
                job[p].script[i] \in SplitStmts \cup Stated(Parsed(logs["discoveries"]))

\* It appends nothing that could be read when it started, nor anything twice,
\* though others append meanwhile and a transcript repeats itself.
HookAddsOnlyNews ==
    [][\A p \in Procs :
        (job[p].op = "hook" /\ queue[p] = <<>> /\ queue'[p] # <<>>) =>
            /\ queue'[p][1].rec.stmt \notin
                 Stated(job[p].known["discoveries"] \cap Parsed(logs["discoveries"]))
            /\ \A i \in 1 .. job[p].at - 1 : queue'[p][1].rec.stmt # job[p].script[i]]_queue

\* What test_hooks.py and ADR-0039 say of repeated captures: a second run over
\* the same transcript does not record the same discovery again.
HookIsIdempotent ==
    \A i, j \in 1 .. Len(logs["discoveries"]) :
        i # j => Stated(logs["discoveries"][i].recs) \cap Stated(logs["discoveries"][j].recs) = {}
=============================================================================
