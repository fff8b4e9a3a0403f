----------------------------- MODULE AppendLog -----------------------------
(***************************************************************************)
(* The record logs under .verity/: one JSON-lines file per record type     *)
(* (memory/store.py, _FILES), appended to by MemoryStore.append and read   *)
(* by MemoryStore.read_report.  Any number of processes (the CLI, an MCP   *)
(* server, a hook) append whatever batches of records they like; what they *)
(* append, and why, is the business of MemoryEngine, which extends this    *)
(* module.                                                                 *)
(*                                                                         *)
(* A file is a sequence of lines.  A line is what str.splitlines would     *)
(* return, so a last line may lack its newline: that is what an append     *)
(* that did not finish leaves behind.  An append is one write(2) of one    *)
(* buffer on a file opened with O_APPEND, so two appends never interleave; *)
(* but a process killed in it, or a full disk, leaves a prefix.            *)
(***************************************************************************)
EXTENDS Naturals, Sequences, FiniteSets

CONSTANTS Procs,     \* processes that may be running a verity operation
          Kinds,     \* the record types, one log file each
          Records,   \* the records a caller may append
          Split,     \* records whose JSON holds a character splitlines breaks at
          Cuts,      \* what a prefix left by a torn append looks like
          MaxLines,  \* bound: lines of one file
          MaxTorn    \* bound: appends cut short, by a signal or a full disk

Texts == {"json",   \* parses as one record
          "junk",   \* does not parse
          "raw"}    \* holds a byte sequence that is not UTF-8

ASSUME CutsAssumption == Cuts \subseteq Texts
ASSUME SplitAssumption == Split \subseteq Records
ASSUME BoundsAssumption == MaxLines \in Nat /\ MaxTorn \in Nat

VARIABLES logs,     \* [Kinds -> sequence of lines]
          queue,    \* [Procs -> the records the process has yet to append]
          acked,    \* [Kinds -> records whose append returned to its caller]
          dropped,  \* [Kinds -> records deleted from the file by hand]
          torn      \* how many appends were cut short

logVars == <<logs, queue, acked, dropped, torn>>

\* recs: the records with bytes on the line, whether or not they can be read.
Line == [text: Texts, ended: BOOLEAN, recs: SUBSET Records]
Write == [kind: Kinds, rec: Records]
----------------------------------------------------------------------------
(* What the bytes of an append do to a file.                               *)

\* The file ends in the middle of a line: the next append continues it.
Open(log) == log # <<>> /\ ~log[Len(log)].ended

\* Mutant: a split record is given a text of its own.
LineTextUntyped(r, cut) == IF r \in Split THEN "split" ELSE cut

\* json.dumps(ensure_ascii=False) leaves U+2028, U+2029 and U+0085 as they
\* are, and splitlines breaks the record there, into pieces that do not parse.
LineText(r, cut) == IF r \in Split /\ cut = "json" THEN "junk" ELSE cut

\* Two runs of bytes on one line never make one JSON value.
Joined(a, b) == IF "raw" \in {a, b} THEN "raw" ELSE "junk"

\* Mutant: the file is opened for writing, not for appending.
PutTruncating(log, r, text, ended) == <<[text |-> text, ended |-> ended, recs |-> {r}]>>

\* Mutant: the newest record is put first.
PutFirst(log, r, text, ended) == <<[text |-> text, ended |-> ended, recs |-> {r}]>> \o log

\* The bytes of record r go to the end of the file, after whatever is there.
Put(log, r, text, ended) ==
    IF Open(log)
    THEN [log EXCEPT ![Len(log)] =
            [text |-> Joined(log[Len(log)].text, text), ended |-> ended,
             recs |-> log[Len(log)].recs \cup {r}]]
    ELSE Append(log, [text |-> text, ended |-> ended, recs |-> {r}])

\* The whole record and its newline, and a proper prefix of it.
PutWhole(log, r) == Put(log, r, LineText(r, "json"), TRUE)
PutPrefix(log, r, cut) == Put(log, r, LineText(r, cut), FALSE)

Without(log, i) == [j \in 1 .. Len(log) - 1 |-> IF j < i THEN log[j] ELSE log[j + 1]]
----------------------------------------------------------------------------
(* What read_report makes of a file.                                       *)

LinesOf(log) == {log[i] : i \in 1 .. Len(log)}

\* read_text decodes the whole file before any line is parsed.
Decodable(log) == \A l \in LinesOf(log) : l.text # "raw"

\* Mutant: the last line is taken for one still being written.
CleanButLast(log) == \A i \in 1 .. Len(log) - 1 : log[i].text = "json"

Clean(log) == \A l \in LinesOf(log) : l.text = "json"

\* The records on lines that parse.
Parsed(log) == UNION {l.recs : l \in {m \in LinesOf(log) : m.text = "json"}}

\* The records read_report returns; UnicodeDecodeError is not an OSError, so it
\* is not caught and a file that cannot be decoded returns nothing at all.
Returned(log) == IF Decodable(log) THEN Parsed(log) ELSE {}

\* The records that left any byte in the file.
Written(log) == UNION {l.recs : l \in LinesOf(log)}
----------------------------------------------------------------------------
LogInit ==
    /\ logs = [k \in Kinds |-> <<>>]
    /\ queue = [p \in Procs |-> <<>>]
    /\ acked = [k \in Kinds |-> {}]
    /\ dropped = [k \in Kinds |-> {}]
    /\ torn = 0

\* A caller hands process p the records to append, in order.
Begin(p, batch) ==
    /\ queue[p] = <<>>
    /\ batch # <<>>
    /\ queue' = [queue EXCEPT ![p] = batch]
    /\ UNCHANGED <<logs, acked, dropped, torn>>

\* append: the record and its newline reach the file, and append returns.
AppendRecord(p) ==
    LET w == Head(queue[p]) IN
    /\ queue[p] # <<>>
    /\ Len(logs[w.kind]) < MaxLines
    /\ logs' = [logs EXCEPT ![w.kind] = PutWhole(@, w.rec)]
    /\ acked' = [acked EXCEPT ![w.kind] = @ \cup {w.rec}]
    /\ queue' = [queue EXCEPT ![p] = Tail(@)]
    /\ UNCHANGED <<dropped, torn>>

\* append is cut short: a prefix is on disk, the exception or the signal ends
\* the operation, and the rest of its batch is never appended.
TearAppend(p, cut) ==
    LET w == Head(queue[p]) IN
    /\ queue[p] # <<>>
    /\ Len(logs[w.kind]) < MaxLines
    /\ torn < MaxTorn
    /\ logs' = [logs EXCEPT ![w.kind] = PutPrefix(@, w.rec, cut)]
    /\ queue' = [queue EXCEPT ![p] = <<>>]
    /\ torn' = torn + 1
    /\ UNCHANGED <<acked, dropped>>

\* The process ends with appends outstanding and nothing half-written.
Abandon(p) ==
    /\ queue[p] # <<>>
    /\ queue' = [queue EXCEPT ![p] = <<>>]
    /\ UNCHANGED <<logs, acked, dropped, torn>>

\* The user deletes a line that does not parse, as the refusal of `verity
\* snapshot` tells them to.
DeleteLine(k, i) ==
    /\ i \in 1 .. Len(logs[k])
    /\ logs[k][i].text # "json"
    /\ logs' = [logs EXCEPT ![k] = Without(@, i)]
    /\ dropped' = [dropped EXCEPT ![k] = @ \cup logs[k][i].recs]
    /\ UNCHANGED <<queue, acked, torn>>

LogNext ==
    \/ \E p \in Procs :
        \/ \E batch \in Seq(Write) : Begin(p, batch)
        \/ AppendRecord(p)
        \/ \E cut \in Cuts : TearAppend(p, cut)
        \/ Abandon(p)
    \/ \E k \in Kinds, i \in Nat : DeleteLine(k, i)

LogSpec == LogInit /\ [][LogNext]_logVars
----------------------------------------------------------------------------
(* Correctness.                                                            *)

LogTypeOK ==
    /\ logs \in [Kinds -> Seq(Line)]
    /\ queue \in [Procs -> Seq(Write)]
    /\ acked \in [Kinds -> SUBSET Records]
    /\ dropped \in [Kinds -> SUBSET Records]
    /\ torn \in Nat

\* No append loses another's bytes: a record whose append returned is still in
\* its file, readable or not, until somebody deletes it by hand.
\* (invariant 6 of the project, "parsing never loses input")
AckedRetained == \A k \in Kinds : acked[k] \subseteq Written(logs[k]) \cup dropped[k]

\* A record that can no longer be read makes read_report's report of its file
\* dirty, whatever torn, joined or split lines the file went through: the
\* caller of integrity() is told, never shown a plausible smaller number.
LossIsReported ==
    \A k \in Kinds : Clean(logs[k]) => acked[k] \subseteq Parsed(logs[k]) \cup dropped[k]

\* A line that has its newline is history: no append changes or moves it, only
\* a deletion by hand (which shortens the file) does.
HistoryIsFixed ==
    [][\A k \in Kinds :
          Len(logs'[k]) >= Len(logs[k]) =>
            \A i \in 1 .. Len(logs[k]) : logs[k][i].ended => logs'[k][i] = logs[k][i]]_logs

\* What ADR-0038 claims of append: a record whose append returned can be read
\* (as long as nobody deleted it).
AckedReadable == \A k \in Kinds : acked[k] \subseteq Parsed(logs[k]) \cup dropped[k]

\* What store.py claims of read_report: a bad line costs only itself, so every
\* record whose line parses is returned.
BadLineContained == \A k \in Kinds : Parsed(logs[k]) \subseteq Returned(logs[k])
=============================================================================
