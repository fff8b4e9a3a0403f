------------------------- MODULE MemoryEngine_proofs -------------------------
(***************************************************************************)
(* What a run of the memory engine shows on a small instance, proved for   *)
(* every number of processes, snapshots, kinds of record and transcripts.  *)
(*                                                                         *)
(* The engine's steps are first sorted by what they do to the files: quiet *)
(* ones, single records, surfacings, captures, restores and appends.  That *)
(* gives the types (EngineInv) and the refinement of AppendLog at once,    *)
(* and with it every theorem of AppendLog_proofs.  From there on a step is *)
(* seen from one process: its job is kept, ends, starts or goes on.        *)
(*                                                                         *)
(* The proofs about snapshots, handoffs, the hook and restores all rest on *)
(* one fact, that a line with its newline never changes: what an operation *)
(* could once read it can read until its end (Safe), and what it could not *)
(* is still there to be reported (Spoilt).  Three theorems assume          *)
(* OneWriter, the contract of ADR-0038: two snapshots at once may take one *)
(* number, and two restores at once append what is missing twice.  The     *)
(* last assumes it, or that nothing is restored.                           *)
(***************************************************************************)
EXTENDS MemoryEngine, AppendLog_proofs, FoldFacts

(* Facts about one file.                                                   *)

\* What the appended bytes do, line by line.
LEMMA PutLines ==
  ASSUME NEW log \in Seq(Line), NEW r \in Records, NEW text \in Texts, NEW ended \in BOOLEAN
  PROVE  LET new == Put(log, r, text, ended)
             n == Len(new)
         IN  /\ new \in Seq(Line)
             /\ n \in 1 .. Len(log) + 1
             /\ new[n].ended = ended
             /\ ~Open(log) => /\ n = Len(log) + 1
                              /\ new[n].text = text /\ new[n].recs = {r}
                              /\ \A i \in 1 .. Len(log) : new[i] = log[i]
             /\ Open(log) => /\ n = Len(log)
                             /\ new[n].text # "json" /\ new[n].recs = log[n].recs \cup {r}
                             /\ \A i \in 1 .. Len(log) : i # n => new[i] = log[i]
<1>. DEFINE new == Put(log, r, text, ended)
<1>1. new \in Seq(Line)
  BY PutType
<1>2. CASE Open(log)
  <2>1. Len(log) \in 1 .. Len(log) /\ log[Len(log)] \in Line
    BY <1>2 DEF Open
  <2>2. Joined(log[Len(log)].text, text) # "json"
    BY DEF Joined
  <2>3. new = [log EXCEPT ![Len(log)] =
            [text |-> Joined(log[Len(log)].text, text), ended |-> ended,
             recs |-> log[Len(log)].recs \cup {r}]]
    BY <1>2 DEF Put
  <2>. QED BY <1>1, <1>2, <2>1, <2>2, <2>3
<1>3. CASE ~Open(log)
  <2>1. new = Append(log, [text |-> text, ended |-> ended, recs |-> {r}])
    BY <1>3 DEF Put
  <2>. QED BY <1>1, <1>3, <2>1
<1>. QED BY <1>2, <1>3

\* A file is open if and only if its last line has no newline.
LEMMA PutOpen ==
  ASSUME NEW log \in Seq(Line), NEW r \in Records, NEW text \in Texts, NEW ended \in BOOLEAN
  PROVE  Open(Put(log, r, text, ended)) <=> ~ended
<1>. DEFINE new == Put(log, r, text, ended)
<1>1. new \in Seq(Line) /\ Len(new) \in 1 .. Len(log) + 1 /\ new[Len(new)].ended = ended
  BY PutLines
<1>. HIDE DEF new
<1>2. new # <<>>
  BY <1>1
<1>. QED BY <1>1, <1>2 DEF Open, new

\* An append brings no other record than the one appended.
LEMMA PutBounds ==
  ASSUME NEW log \in Seq(Line), NEW r \in Records, NEW text \in Texts, NEW ended \in BOOLEAN
  PROVE  /\ Written(Put(log, r, text, ended)) \subseteq Written(log) \cup {r}
         /\ Parsed(Put(log, r, text, ended)) \subseteq Parsed(log) \cup {r}
         /\ ~Open(log) => Parsed(log) \subseteq Parsed(Put(log, r, text, ended))
         /\ (~Open(log) /\ text = "json") => r \in Parsed(Put(log, r, text, ended))
         /\ text # "json" => Parsed(Put(log, r, text, ended)) \subseteq Parsed(log)
<1>. DEFINE new == Put(log, r, text, ended)
            n == Len(new)
<1>1. /\ new \in Seq(Line) /\ n \in 1 .. Len(log) + 1
      /\ ~Open(log) => /\ n = Len(log) + 1
                       /\ new[n].text = text /\ new[n].recs = {r}
                       /\ \A i \in 1 .. Len(log) : new[i] = log[i]
      /\ Open(log) => /\ n = Len(log)
                      /\ new[n].text # "json" /\ new[n].recs = log[n].recs \cup {r}
                      /\ \A i \in 1 .. Len(log) : i # n => new[i] = log[i]
  BY PutLines
<1>. HIDE DEF new, n
<1>2. /\ \A s : s \in Written(new) <=> \E i \in 1 .. n : s \in new[i].recs
      /\ \A s : s \in Written(log) <=> \E i \in 1 .. Len(log) : s \in log[i].recs
      /\ \A s : s \in Parsed(new) <=> \E i \in 1 .. n : new[i].text = "json" /\ s \in new[i].recs
      /\ \A s : s \in Parsed(log) <=> \E i \in 1 .. Len(log) : log[i].text = "json" /\ s \in log[i].recs
  BY DEF Written, Parsed, LinesOf, n
<1>3. ASSUME NEW i \in 1 .. n
      PROVE  (i \in 1 .. Len(log) /\ new[i] = log[i]) \/ i = n
  <2>1. Len(log) \in Nat
    OBVIOUS
  <2>. QED BY <1>1, <2>1
<1>4. ASSUME NEW s \in Written(new) PROVE s \in Written(log) \cup {r}
  <2>1. PICK i \in 1 .. n : s \in new[i].recs
    BY <1>2
  <2>2. CASE i \in 1 .. Len(log) /\ new[i] = log[i]
    BY <1>2, <2>1, <2>2
  <2>3. CASE i = n
    BY <1>1, <1>2, <2>1, <2>3
  <2>. QED BY <1>3, <2>2, <2>3
<1>5. ASSUME NEW s \in Parsed(new) PROVE s \in Parsed(log) \/ (s = r /\ text = "json")
  <2>1. PICK i \in 1 .. n : new[i].text = "json" /\ s \in new[i].recs
    BY <1>2
  <2>2. CASE i \in 1 .. Len(log) /\ new[i] = log[i]
    BY <1>2, <2>1, <2>2
  <2>3. CASE i = n
    BY <1>1, <1>2, <2>1, <2>3
  <2>. QED BY <1>3, <2>2, <2>3
<1>6. ASSUME ~Open(log), NEW s \in Parsed(log) PROVE s \in Parsed(new)
  <2>1. PICK i \in 1 .. Len(log) : log[i].text = "json" /\ s \in log[i].recs
    BY <1>2
  <2>2. i \in 1 .. n /\ new[i] = log[i]
    BY <1>1, <1>6
  <2>. QED BY <1>2, <2>1, <2>2
<1>7. ASSUME ~Open(log), text = "json" PROVE r \in Parsed(new)
  BY <1>1, <1>2, <1>7
<1>. QED BY <1>4, <1>5, <1>6, <1>7 DEF new

\* Deleting a line that does not parse changes nothing of what is read.
LEMMA WithoutBounds ==
  ASSUME NEW log \in Seq(Line), NEW i \in 1 .. Len(log), log[i].text # "json"
  PROVE  /\ Written(Without(log, i)) \subseteq Written(log)
         /\ Parsed(Without(log, i)) \subseteq Parsed(log)
<1>. DEFINE new == Without(log, i)
<1>1. new \in Seq(Line) /\ Len(new) = Len(log) - 1
  BY WithoutFacts
<1>2. \A j \in 1 .. Len(new) : \E l \in 1 .. Len(log) : new[j] = log[l]
  BY <1>1 DEF Without
<1>. HIDE DEF new
<1>3. LinesOf(new) \subseteq LinesOf(log)
  BY <1>2 DEF LinesOf
<1>. QED BY <1>3 DEF Written, Parsed, new

\* The records of a file are records.
LEMMA FileRecords ==
  ASSUME NEW log \in Seq(Line)
  PROVE  /\ Parsed(log) \subseteq Written(log)
         /\ Written(log) \subseteq Records
<1>1. \A l \in LinesOf(log) : l \in Line
  BY DEF LinesOf
<1>. QED BY <1>1 DEF Parsed, Written, Line
----------------------------------------------------------------------------
(* Facts about what is read and appended.                                  *)

\* The image of a finite set is finite.
LEMMA FiniteImage ==
  ASSUME NEW S, IsFiniteSet(S), NEW f, DOMAIN f = S, f = [x \in S |-> f[x]]
  PROVE  IsFiniteSet({f[x] : x \in S})
<1>. DEFINE T == {f[x] : x \in S}
<1>1. f \in Surjection(S, T)
  BY DEF Surjection
<1>. QED BY <1>1, FS_Surjection

\* A finite set in some order: SetToSeq is a bijection.
LEMMA SetToSeqFacts ==
  ASSUME NEW S, IsFiniteSet(S)
  PROVE  LET s == SetToSeq(S) IN
         /\ s \in Seq(S)
         /\ S = {} => s = <<>>
         /\ \A x \in S : \E i \in 1 .. Len(s) : s[i] = x
         /\ \A i, j \in 1 .. Len(s) : s[i] = s[j] => i = j
<1>. DEFINE n == Cardinality(S)
            s == SetToSeq(S)
<1>1. n \in Nat /\ ExistsBijection(1 .. n, S)
  BY FS_CardinalityType
<1>2. \E f \in [1 .. n -> S] : IsInjective(f)
  BY <1>1 DEF ExistsBijection, Bijection, Injection
<1>3. s \in [1 .. n -> S] /\ IsInjective(s)
  BY <1>2 DEF SetToSeq
<1>. HIDE DEF s
<1>4. s \in Injection(1 .. n, S)
  BY <1>3 DEF Injection
<1>5. IsFiniteSet(1 .. n) /\ Cardinality(1 .. n) = n
  BY <1>1, FS_Interval
<1>6. s \in Surjection(1 .. n, S)
  BY <1>4, <1>5, FS_Injection
<1>7. s \in Seq(S) /\ Len(s) = n
  BY <1>1, <1>3
<1>8. S = {} => n = 0
  BY FS_EmptySet
<1>9. S = {} => s = <<>>
  BY <1>7, <1>8
<1>10. \A x \in S : \E i \in 1 .. n : s[i] = x
  BY <1>6 DEF Surjection
<1>11. \A i, j \in 1 .. n : s[i] = s[j] => i = j
  BY <1>3 DEF IsInjective
<1>. QED BY <1>7, <1>9, <1>10, <1>11 DEF s

\* The parts of a record.
LEMMA RecordParts ==
  /\ \A r \in Records : /\ r.id \in 1 .. MaxId /\ r.stmt \in Stmts \cup {"surfacing"}
                        /\ r.link \in 0 .. MaxId /\ r.closed \in BOOLEAN
  /\ \A i \in 1 .. MaxId, s \in Stmts \cup {"surfacing"}, l \in 0 .. MaxId, c \in BOOLEAN :
        [id |-> i, stmt |-> s, link |-> l, closed |-> c] \in Records
BY RecordsAssumption DEF Record

\* A failure, closed or not, is the failure that was recorded.
LEMMA ClosedRecord ==
  ASSUME NEW f \in Records, NEW c \in BOOLEAN
  PROVE  LET g == [f EXCEPT !.closed = c] IN
         g \in Records /\ g.id = f.id /\ g.stmt = f.stmt /\ g.link = f.link /\ g.closed = c
BY RecordsAssumption DEF Record

\* What a typed accessor returns comes from the parsed records: the same
\* records, but for closed failures that are marked so.
LEMMA ViewFacts ==
  ASSUME NEW k, NEW R \in SUBSET Records
  PROVE  /\ View(k, R) \subseteq Records
         /\ \A v \in View(k, R) : \E r \in R : v.id = r.id /\ v.stmt = r.stmt /\ v.link = r.link
         /\ IsFiniteSet(R) => IsFiniteSet(View(k, R))
<1>1. CASE k = "decisions"
  <2>1. View(k, R) = Decisions(R)
    BY <1>1 DEF View
  <2>2. Decisions(R) \subseteq R
    BY DEF Decisions
  <2>3. IsFiniteSet(R) => IsFiniteSet(Decisions(R))
    BY <2>2, FS_Subset
  <2>. QED BY <2>1, <2>2, <2>3
<1>2. CASE k = "failures"
  <2>. DEFINE G == {g \in R : g.link = 0}
              mark == [f \in G |-> [f EXCEPT !.closed = f.closed \/ f.id \in Linked(R)]]
  <2>1. View(k, R) = Failures(R)
    BY <1>2 DEF View
  <2>2. Failures(R) = {mark[f] : f \in G}
    BY DEF Failures
  <2>3. ASSUME NEW f \in G
        PROVE  mark[f] \in Records /\ mark[f].id = f.id /\ mark[f].stmt = f.stmt /\ mark[f].link = f.link
    <3>1. (f.closed \/ f.id \in Linked(R)) \in BOOLEAN /\ f \in Records
      OBVIOUS
    <3>. QED BY <3>1, ClosedRecord
  <2>4. ASSUME IsFiniteSet(R) PROVE IsFiniteSet(Failures(R))
    <3>1. IsFiniteSet(G)
      BY <2>4, FS_Subset
    <3>2. DOMAIN mark = G /\ mark = [x \in G |-> mark[x]]
      OBVIOUS
    <3>. HIDE DEF mark, G
    <3>3. IsFiniteSet({mark[x] : x \in G})
      BY <3>1, <3>2, FiniteImage
    <3>. QED BY <2>2, <3>3
  <2>. HIDE DEF mark
  <2>. QED BY <2>1, <2>2, <2>3, <2>4
<1>3. CASE k # "decisions" /\ k # "failures"
  <2>1. View(k, R) = R
    BY <1>3 DEF View
  <2>. QED BY <2>1
<1>. QED BY <1>1, <1>2, <1>3

\* A new record.
LEMMA FreshFacts ==
  ASSUME nextId \in 1 .. MaxId + 1, nextId <= MaxId, NEW s \in Stmts \cup {"surfacing"}
  PROVE  /\ nextId \in 1 .. MaxId
         /\ Fresh(s) \in Records
         /\ Fresh(s).id = nextId /\ Fresh(s).stmt = s /\ Fresh(s).link = 0 /\ Fresh(s).closed = FALSE
<1>1. nextId \in 1 .. MaxId /\ 0 \in 0 .. MaxId
  BY KindsAssumption
<1>2. Fresh(s) = [id |-> nextId, stmt |-> s, link |-> 0, closed |-> FALSE]
  BY DEF Fresh
<1>3. Fresh(s) \in Records
  BY <1>1, <1>2, RecordsAssumption DEF Record
<1>. QED BY <1>1, <1>2, <1>3

\* A record with a link,
LEMMA LinkedRecord ==
  ASSUME NEW f \in Records, NEW l \in 0 .. MaxId
  PROVE  LET g == [f EXCEPT !.link = l] IN
         g \in Records /\ g.id = f.id /\ g.stmt = f.stmt /\ g.link = l /\ g.closed = f.closed
BY RecordsAssumption DEF Record

\* and one that is closed too.
LEMMA MarkerRecord ==
  ASSUME NEW f \in Records, NEW l \in 0 .. MaxId
  PROVE  LET h == [f EXCEPT !.link = l, !.closed = TRUE] IN
         h \in Records /\ h.id = f.id /\ h.stmt = f.stmt /\ h.link = l /\ h.closed = TRUE
<1>. DEFINE g == [f EXCEPT !.link = l]
            h == [g EXCEPT !.closed = TRUE]
<1>1. g \in Records /\ g.id = f.id /\ g.stmt = f.stmt /\ g.link = l
  BY LinkedRecord
<1>2. h = [f EXCEPT !.link = l, !.closed = TRUE]
  BY RecordsAssumption DEF Record
<1>. HIDE DEF g
<1>3. h \in Records /\ h.id = g.id /\ h.stmt = g.stmt /\ h.link = g.link /\ h.closed = TRUE
  BY <1>1, ClosedRecord
<1>. HIDE DEF h
<1>. QED BY <1>1, <1>2, <1>3 DEF g
----------------------------------------------------------------------------
(* The state of a job.                                                     *)

\* The steps of all the operations.
Steps == {"none", "check", "number", "collect", "mkdir", "publish", "task", "log",
          "gather", "surface", "capture", "done"}

\* The steps each operation goes through.
Shape(j) ==
    \/ j = NoJob
    \/ j.op = "snapshot" /\ j.step \in {"check", "number", "collect", "mkdir", "publish", "done"}
    \/ j.op = "hook" /\ j.step \in {"capture", "check", "number", "collect", "mkdir", "publish", "done"}
    \/ j.op = "restore" /\ j.step \in {"task", "log", "done"}
    \/ j.op = "handoff" /\ j.step \in {"gather", "surface", "check", "done"}

\* Where a job is in the list of files or kinds its step goes through.
Places(j) ==
    /\ j.step \in {"collect", "log"} => j.at \in 1 .. Len(Restored)
    /\ j.step = "gather" => j.at \in 1 .. Len(HandoffKinds)
    /\ j.step = "number" => j.at = 1
    /\ j.step = "check" => j.at \in 1 .. Len(Files)
    /\ j.step \in {"collect", "mkdir", "publish"} => j.num \in Snaps
    /\ j.op = "hook" => "discoveries" \in Kinds

\* A job keeps the types, the steps of its operation and its places in the lists.
JobOK(j) ==
    /\ j \in Job
    /\ Shape(j)
    /\ Places(j)
    /\ \A k \in Kinds : IsFiniteSet(j.got[k])

\* So does every job.
JobsOK == job \in [Procs -> Job] /\ \A p \in Procs : JobOK(job[p])

\* The lists of kinds, and the files of all of them.
LEMMA KindLists ==
  /\ Restored \in Seq(Kinds) /\ Len(Restored) \in Nat \ {0}
  /\ HandoffKinds \in Seq(Kinds) /\ Len(HandoffKinds) \in Nat \ {0}
  /\ \A i \in 1 .. Len(Restored) : Restored[i] \in Kinds \ {"surfacings"}
  /\ \A i \in 1 .. Len(HandoffKinds) : HandoffKinds[i] \in Kinds \ {"surfacings"}
  /\ \A k \in Kinds \ {"surfacings"} : \E i \in 1 .. Len(Restored) : Restored[i] = k
  /\ Files \in Seq(Kinds) /\ Len(Files) = Len(Restored) + 1
  /\ \A k \in Kinds : \E i \in 1 .. Len(Files) : Files[i] = k
  /\ "surfacings" \in Kinds
<1>1. Restored \in Seq(RestorableKinds) /\ Restored # <<>>
  BY KindsAssumption
<1>2. Len(Restored) \in Nat \ {0}
  BY <1>1
<1>3. \A i \in 1 .. Len(Restored) : Restored[i] \in Kinds
  BY KindsAssumption
<1>4. Restored \in Seq(Kinds)
  BY <1>1, <1>2, <1>3
<1>5. \A i \in 1 .. Len(Restored) : Restored[i] # "surfacings"
  BY <1>1 DEF RestorableKinds
<1>6. "surfacings" \in Kinds
  BY KindsAssumption
<1>7. <<"surfacings">> \in Seq(Kinds) /\ Len(<<"surfacings">>) = 1 /\ <<"surfacings">>[1] = "surfacings"
  BY <1>6
<1>8. /\ Files \in Seq(Kinds) /\ Len(Files) = Len(Restored) + 1
      /\ \A i \in 1 .. Len(Restored) : Files[i] = Restored[i]
      /\ Files[Len(Restored) + 1] = "surfacings"
  BY <1>2, <1>4, <1>7 DEF Files
<1>9. \A k \in Kinds \ {"surfacings"} : \E i \in 1 .. Len(Restored) : Restored[i] = k
  BY KindsAssumption
<1>10. ASSUME NEW k \in Kinds PROVE \E i \in 1 .. Len(Files) : Files[i] = k
  <2>1. CASE k = "surfacings"
    BY <1>2, <1>8, <2>1
  <2>2. CASE k # "surfacings"
    BY <1>2, <1>8, <1>9, <2>2
  <2>. QED BY <2>1, <2>2
<1>11. HandoffKinds \in Seq(Kinds) /\ HandoffKinds # <<>>
  BY KindsAssumption
<1>12. Len(HandoffKinds) \in Nat \ {0}
  BY <1>11
<1>13. ASSUME NEW i \in 1 .. Len(HandoffKinds) PROVE HandoffKinds[i] \in Kinds \ {"surfacings"}
  <2>1. HandoffKinds[i] \in {HandoffKinds[l] : l \in 1 .. Len(HandoffKinds)}
    OBVIOUS
  <2>. QED BY <2>1, KindsAssumption
<1>. QED BY <1>2, <1>3, <1>4, <1>5, <1>6, <1>8, <1>9, <1>10, <1>11, <1>12, <1>13

\* One field of a job is replaced by another value of its type.
LEMMA JobUpdate ==
  ASSUME NEW j \in Job
  PROVE  /\ \A s \in Steps : [j EXCEPT !.step = s] \in Job
         /\ \A n \in Nat \ {0} : [j EXCEPT !.at = n] \in Job
         /\ \A b \in BOOLEAN : [j EXCEPT !.bad = b] \in Job
         /\ \A n \in {0} \cup Snaps : [j EXCEPT !.num = n] \in Job
         /\ \A t \in Tasks \cup {NoTask} : [j EXCEPT !.task = t] \in Job
         /\ \A g \in [Kinds -> SUBSET Records] : [j EXCEPT !.got = g] \in Job
<1>1. \A s \in Steps : [j EXCEPT !.step = s] \in Job
  BY DEF Job, Steps
<1>2. \A n \in Nat \ {0} : [j EXCEPT !.at = n] \in Job
  BY DEF Job
<1>3. \A b \in BOOLEAN : [j EXCEPT !.bad = b] \in Job
  BY DEF Job
<1>4. \A n \in {0} \cup Snaps : [j EXCEPT !.num = n] \in Job
  BY DEF Job
<1>5. \A t \in Tasks \cup {NoTask} : [j EXCEPT !.task = t] \in Job
  BY DEF Job
<1>6. \A g \in [Kinds -> SUBSET Records] : [j EXCEPT !.got = g] \in Job
  BY DEF Job
<1>. QED BY <1>1, <1>2, <1>3, <1>4, <1>5, <1>6

\* A job that goes on keeps its type.
LEMMA JobMoves ==
  ASSUME NEW j \in Job, NEW s \in Steps, NEW a \in Nat \ {0}
  PROVE  [j EXCEPT !.step = s, !.at = a] \in Job
<1>. DEFINE j1 == [j EXCEPT !.step = s]
            j2 == [j1 EXCEPT !.at = a]
<1>1. j2 = [j EXCEPT !.step = s, !.at = a]
  BY DEF Job
<1>2. j1 \in Job
  BY JobUpdate
<1>. HIDE DEF j1
<1>3. j2 \in Job
  BY <1>2, JobUpdate
<1>. HIDE DEF j2
<1>. QED BY <1>1, <1>3

\* So does one that reads another file,
LEMMA JobChecks ==
  ASSUME NEW j \in Job, NEW b \in BOOLEAN, NEW a \in Nat \ {0}, NEW s \in Steps
  PROVE  [j EXCEPT !.bad = b, !.at = a, !.step = s] \in Job
<1>. DEFINE j1 == [j EXCEPT !.bad = b]
            j2 == [j1 EXCEPT !.at = a]
            j3 == [j2 EXCEPT !.step = s]
<1>1. j3 = [j EXCEPT !.bad = b, !.at = a, !.step = s]
  BY DEF Job
<1>2. j1 \in Job
  BY JobUpdate
<1>. HIDE DEF j1
<1>3. j2 \in Job
  BY <1>2, JobUpdate
<1>. HIDE DEF j2
<1>4. j3 \in Job
  BY <1>3, JobUpdate
<1>. HIDE DEF j3
<1>. QED BY <1>1, <1>4

\* one that reads another record log,
LEMMA JobReads ==
  ASSUME NEW j \in Job, NEW g \in [Kinds -> SUBSET Records], NEW a \in Nat \ {0}, NEW s \in Steps
  PROVE  [j EXCEPT !.got = g, !.at = a, !.step = s] \in Job
<1>. DEFINE j1 == [j EXCEPT !.got = g]
            j2 == [j1 EXCEPT !.at = a]
            j3 == [j2 EXCEPT !.step = s]
<1>1. j3 = [j EXCEPT !.got = g, !.at = a, !.step = s]
  BY DEF Job
<1>2. j1 \in Job
  BY JobUpdate
<1>. HIDE DEF j1
<1>3. j2 \in Job
  BY <1>2, JobUpdate
<1>. HIDE DEF j2
<1>4. j3 \in Job
  BY <1>3, JobUpdate
<1>. HIDE DEF j3
<1>. QED BY <1>1, <1>4

\* and one that takes a number.
LEMMA JobNumbers ==
  ASSUME NEW j \in Job, NEW n \in {0} \cup Snaps, NEW t \in Tasks \cup {NoTask}, NEW s \in Steps, NEW g \in [Kinds -> SUBSET Records]
  PROVE  [j EXCEPT !.num = n, !.task = t, !.step = s, !.got = g] \in Job
<1>. DEFINE j1 == [j EXCEPT !.num = n]
            j2 == [j1 EXCEPT !.task = t]
            j3 == [j2 EXCEPT !.step = s]
            j4 == [j3 EXCEPT !.got = g]
<1>1. j4 = [j EXCEPT !.num = n, !.task = t, !.step = s, !.got = g]
  BY DEF Job
<1>2. j1 \in Job
  BY JobUpdate
<1>. HIDE DEF j1
<1>3. j2 \in Job
  BY <1>2, JobUpdate
<1>. HIDE DEF j2
<1>4. j3 \in Job
  BY <1>3, JobUpdate
<1>. HIDE DEF j3
<1>5. j4 \in Job
  BY <1>4, JobUpdate
<1>. HIDE DEF j4
<1>. QED BY <1>1, <1>5

\* A step of one process leaves the other jobs alone.
LEMMA JobsStep ==
  ASSUME JobsOK, NEW p \in Procs, job' = [job EXCEPT ![p] = job'[p]], JobOK(job'[p])
  PROVE  JobsOK'
<1>1. job' \in [Procs -> Job]
  BY DEF JobsOK, JobOK
<1>2. \A q \in Procs : JobOK(job'[q])
  BY DEF JobsOK
<1>. QED BY <1>1, <1>2 DEF JobsOK
----------------------------------------------------------------------------
(* What each step does to the job of its process.                          *)

\* The operations of several steps.
Active == {"snapshot", "hook", "restore", "handoff"}

\* A process that has a job to go on with.
LEMMA Going ==
  ASSUME JobsOK, NEW p \in Procs, NEW op, NEW step, At(p, op, step)
  PROVE  /\ job[p] \in Job /\ Shape(job[p]) /\ Places(job[p])
         /\ \A k \in Kinds : IsFiniteSet(job[p].got[k])
         /\ job[p].op \in op /\ job[p].step = step /\ queue[p] = <<>>
         /\ step # "none" => ~Idle(p)
<1>1. job[p].op \in op /\ job[p].step = step /\ queue[p] = <<>>
  BY DEF At
<1>2. step # "none" => ~Idle(p)
  BY <1>1 DEF Idle, NoJob
<1>. QED BY <1>1, <1>2 DEF JobsOK, JobOK

\* A job starts at the first of its files, and has gathered nothing.
LEMMA StartedJob ==
  ASSUME LogTypeOK, NEW op \in Active, NEW step \in Steps
  PROVE  /\ Started(op, step) \in Job
         /\ Started(op, step).op = op /\ Started(op, step).step = step
         /\ Started(op, step).at = 1 /\ Started(op, step).bad = FALSE
         /\ Started(op, step).forced = FALSE /\ Started(op, step).got = NoView
         /\ Started(op, step).known = acked
<1>. DEFINE b == \A k \in Kinds : ~Open(logs[k])
<1>1. Started(op, step) = [NoJob EXCEPT !.op = op, !.step = step, !.known = acked, !.sound = b]
  BY DEF Started
<1>2. b \in BOOLEAN /\ acked \in [Kinds -> SUBSET Records] /\ NoView \in [Kinds -> SUBSET Records]
  BY DEF LogTypeOK, NoView
<1>3. <<>> \in Seq(Stmts)
  OBVIOUS
<1>4. op \in {"none", "snapshot", "hook", "restore", "handoff"}
  BY DEF Active
<1>. HIDE DEF b
<1>5. Started(op, step) = [op |-> op, step |-> step, at |-> 1, bad |-> FALSE, num |-> 0,
          forced |-> FALSE, task |-> NoTask, cut |-> {}, got |-> NoView, script |-> <<>>,
          known |-> acked, sound |-> b]
  BY <1>1 DEF NoJob
<1>6. Started(op, step) \in Job
  BY <1>2, <1>3, <1>4, <1>5 DEF Job, Steps
<1>. QED BY ONLY <1>5, <1>6

\* It knows whether a file had an open line.
LEMMA StartedSound ==
  ASSUME NEW op, NEW step
  PROVE  Started(op, step).sound = \A k \in Kinds : ~Open(logs[k])
<1>. DEFINE b == \A k \in Kinds : ~Open(logs[k])
<1>1. Started(op, step) = [NoJob EXCEPT !.op = op, !.step = step, !.known = acked, !.sound = b]
  BY DEF Started
<1>. HIDE DEF b
<1>2. Started(op, step).sound = b
  BY <1>1 DEF NoJob
<1>. QED BY <1>2 DEF b

\* No job.
LEMMA NoJobFacts ==
  /\ JobOK(NoJob)
  /\ NoJob.op = "none" /\ NoJob.step = "none" /\ ~NoJob.sound
<1>1. NoView \in [Kinds -> SUBSET Records] /\ \A k \in Kinds : IsFiniteSet(NoView[k])
  BY FS_EmptySet DEF NoView
<1>2. <<>> \in Seq(Stmts)
  OBVIOUS
<1>3. NoJob \in Job
  BY <1>1, <1>2 DEF NoJob, Job
<1>. QED BY <1>1, <1>3 DEF JobOK, Shape, Places, NoJob

\* SnapBegin starts a snapshot.
LEMMA SnapBeginJob ==
  ASSUME LogTypeOK, JobsOK, NEW p \in Procs, NEW forced \in BOOLEAN, SnapBegin(p, forced)
  PROVE  /\ job' = [job EXCEPT ![p] = job'[p]]
         /\ JobOK(job'[p])
         /\ job'[p].op = "snapshot"
         /\ job'[p].step = IF forced THEN "number" ELSE "check"
         /\ job'[p].at = 1 /\ job'[p].bad = FALSE /\ job'[p].forced = forced
         /\ job'[p].got = NoView /\ job'[p].known = acked
         /\ job'[p].sound = \A k \in Kinds : ~Open(logs[k])
<1>. DEFINE step == IF forced THEN "number" ELSE "check"
            S == Started("snapshot", step)
            J == [S EXCEPT !.forced = forced]
<1>1. job' = [job EXCEPT ![p] = J] /\ job \in [Procs -> Job]
  BY DEF SnapBegin, JobsOK
<1>2. job'[p] = J /\ job' = [job EXCEPT ![p] = job'[p]]
  BY <1>1
<1>3. step \in Steps /\ "snapshot" \in Active
  BY DEF Steps, Active
<1>. HIDE DEF step
<1>4. /\ S \in Job
      /\ S.op = "snapshot" /\ S.step = step /\ S.at = 1 /\ S.bad = FALSE
      /\ S.got = NoView /\ S.known = acked
      /\ S.sound = \A k \in Kinds : ~Open(logs[k])
  <2>1. /\ S \in Job
        /\ S.op = "snapshot" /\ S.step = step /\ S.at = 1 /\ S.bad = FALSE
        /\ S.got = NoView /\ S.known = acked
    BY ONLY LogTypeOK, <1>3, StartedJob
  <2>2. S.sound = \A k \in Kinds : ~Open(logs[k])
    BY ONLY StartedSound
  <2>. QED BY ONLY <2>1, <2>2
<1>. HIDE DEF S
<1>5. /\ J \in Job
      /\ J.op = "snapshot" /\ J.step = step /\ J.at = 1 /\ J.bad = FALSE
      /\ J.got = NoView /\ J.known = acked /\ J.forced = forced
      /\ J.sound = \A k \in Kinds : ~Open(logs[k])
  BY <1>4 DEF Job
<1>. HIDE DEF J
<1>6. Shape(J) /\ Places(J)
  BY <1>5, KindLists DEF Shape, Places, step
<1>7. \A k \in Kinds : IsFiniteSet(J.got[k])
  BY <1>5, FS_EmptySet DEF NoView
<1>. QED BY <1>2, <1>5, <1>6, <1>7 DEF JobOK, step
\* What no step of a job but its first changes.
Same(J, j) == /\ J.op = j.op /\ J.known = j.known /\ J.sound = j.sound
              /\ J.forced = j.forced /\ J.cut = j.cut /\ J.script = j.script

\* Check reads one file, and goes on when it was the last.
LEMMA CheckJob ==
  ASSUME LogTypeOK, JobsOK, NEW p \in Procs, Check(p)
  PROVE  LET j == job[p]
             J == job'[p]
             log == logs[Files[j.at]]
         IN  /\ job' = [job EXCEPT ![p] = J] /\ JobOK(J) /\ Same(J, j)
             /\ j.op \in {"snapshot", "hook", "handoff"} /\ j.step = "check" /\ queue[p] = <<>>
             /\ J.num = j.num /\ J.task = j.task /\ J.got = j.got
             /\ J.bad = (j.bad \/ ~Clean(log))
             /\ j.at < Len(Files) => J.step = "check" /\ J.at = j.at + 1
             /\ ~(j.at < Len(Files)) => /\ J.at = 1
                                        /\ J.step = IF j.op = "handoff" \/ J.bad THEN "done" ELSE "number"
<1>. DEFINE j == job[p]
            J == job'[p]
            log == logs[Files[j.at]]
<1>1. At(p, {"snapshot", "hook", "handoff"}, "check")
  BY DEF Check
<1>2. /\ j \in Job /\ Shape(j) /\ Places(j) /\ \A k \in Kinds : IsFiniteSet(j.got[k])
      /\ j.op \in {"snapshot", "hook", "handoff"} /\ j.step = "check" /\ queue[p] = <<>>
  BY <1>1, Going
<1>3. job' = [job EXCEPT ![p] = J] /\ job \in [Procs -> Job]
  BY DEF Check, JobsOK
<1>4. J.bad = (j.bad \/ ~Clean(log))
  BY <1>2, <1>3 DEF Check, Job, JobsOK, Worst
<1>5. /\ J.num = j.num /\ J.task = j.task /\ J.got = j.got
      /\ Same(J, j)
  BY <1>2 DEF Check, Job, JobsOK, Same
<1>6. /\ J.at = IF j.at < Len(Files) THEN j.at + 1 ELSE 1
      /\ J.step = IF j.at < Len(Files) THEN j.step ELSE AfterCheck(p, J.bad)
  BY <1>2 DEF Check, Job, JobsOK
<1>7. AfterCheck(p, J.bad) = IF j.op = "handoff" \/ J.bad THEN "done" ELSE "number"
  BY DEF AfterCheck
<1>8. J.at \in Nat \ {0} /\ j.at \in 1 .. Len(Files) /\ Len(Files) \in Nat
  <2>1. j.at \in 1 .. Len(Files)
    BY <1>2 DEF Places
  <2>2. Len(Files) \in Nat
    BY KindLists
  <2>. QED BY ONLY <1>6, <2>1, <2>2
<1>9. J.step \in Steps /\ J.step \in {"check", "done", "number"}
  BY <1>2, <1>6, <1>7 DEF Steps
<1>10. J.bad \in BOOLEAN
  BY <1>2, <1>4 DEF Job, Clean
<1>11. J \in Job
  <2>1. J = [j EXCEPT !.bad = J.bad, !.at = J.at, !.step = J.step]
    BY <1>2 DEF Check, Job, JobsOK
  <2>. HIDE DEF J, j
  <2>2. [j EXCEPT !.bad = J.bad, !.at = J.at, !.step = J.step] \in Job
    BY <1>2, <1>8, <1>9, <1>10, JobChecks
  <2>. QED BY <2>1, <2>2
<1>. HIDE DEF J, j
<1>12. Shape(J)
  BY <1>2, <1>5, <1>6, <1>7, <1>9 DEF Shape, Same, NoJob
<1>13. Places(J)
  <2>1. CASE j.at < Len(Files)
    <3>1. J.step = "check" /\ J.at = j.at + 1
      BY <1>2, <1>6, <2>1
    <3>2. J.at \in 1 .. Len(Files)
      BY <1>8, <2>1, <3>1
    <3>. QED BY <1>2, <1>5, <3>1, <3>2 DEF Places, Same
  <2>2. CASE ~(j.at < Len(Files))
    BY <1>2, <1>5, <1>6, <1>7, <2>2 DEF Places, Same
  <2>. QED BY <2>1, <2>2
<1>14. JobOK(J)
  BY <1>2, <1>5, <1>11, <1>12, <1>13 DEF JobOK
<1>. QED BY <1>2, <1>3, <1>4, <1>5, <1>6, <1>7, <1>14 DEF J, j

\* Number takes the next snapshot number, that of no directory.
LEMMA NumberJob ==
  ASSUME LogTypeOK, JobsOK, snaps \in [Snaps -> [dir: BOOLEAN, full: BOOLEAN, forced: BOOLEAN,
             task: Tasks \cup {NoTask}, view: [Kinds -> SUBSET Records]]],
         task \in Tasks \cup {NoTask}, NEW p \in Procs, Number(p)
  PROVE  LET j == job[p]
             J == job'[p]
         IN  /\ job' = [job EXCEPT ![p] = J] /\ JobOK(J) /\ Same(J, j)
             /\ j.op \in {"snapshot", "hook"} /\ j.step = "number" /\ queue[p] = <<>>
             /\ J.step = "collect" /\ J.at = j.at /\ J.bad = j.bad
             /\ J.num \in Snaps /\ J.task = task /\ J.got = NoView
             /\ ~snaps[J.num].dir
<1>. DEFINE j == job[p]
            J == job'[p]
<1>1. At(p, {"snapshot", "hook"}, "number")
  BY DEF Number
<1>2. /\ j \in Job /\ Shape(j) /\ Places(j) /\ \A k \in Kinds : IsFiniteSet(j.got[k])
      /\ j.op \in {"snapshot", "hook"} /\ j.step = "number" /\ queue[p] = <<>>
  BY <1>1, Going
<1>3. job' = [job EXCEPT ![p] = J] /\ job \in [Procs -> Job]
  BY DEF Number, JobsOK
<1>4. MaxSnaps \in Nat /\ Snaps = 1 .. MaxSnaps
  BY KindsAssumption DEF Snaps
<1>5. /\ J.num = NextNumber /\ J.task = task /\ J.step = "collect" /\ J.got = NoView
      /\ J.at = j.at /\ J.bad = j.bad
      /\ Same(J, j)
      /\ NextNumber \in Snaps
  BY <1>2 DEF Number, Job, JobsOK, Same
<1>6. ~snaps[NextNumber].dir
  <2>. DEFINE T == {0} \cup {n \in Snaps : snaps[n].dir}
  <2>1. T \in SUBSET (0 .. MaxSnaps) /\ T # {}
    BY <1>4
  <2>2. NextNumber = 1 + Max(T)
    BY DEF NextNumber
  <2>. HIDE DEF T
  <2>3. Max(T) \in T /\ \A y \in T : Max(T) >= y
    BY <1>4, <2>1, MaxFacts
  <2>4. Max(T) \in 0 .. MaxSnaps
    BY <2>1, <2>3
  <2>5. ~(Max(T) >= 1 + Max(T))
    BY <1>4, <2>4
  <2>6. NextNumber \notin T
    BY <2>2, <2>3, <2>5
  <2>. QED BY <1>5, <2>6 DEF T
<1>7. NoView \in [Kinds -> SUBSET Records] /\ \A k \in Kinds : IsFiniteSet(NoView[k])
  BY FS_EmptySet DEF NoView
<1>8. J \in Job
  <2>1. J = [j EXCEPT !.num = J.num, !.task = J.task, !.step = J.step, !.got = J.got]
    BY <1>2 DEF Number, Job, JobsOK
  <2>2. /\ J.step \in Steps /\ J.num \in {0} \cup Snaps /\ J.task \in Tasks \cup {NoTask}
        /\ J.got \in [Kinds -> SUBSET Records]
    BY <1>5, <1>7 DEF Steps
  <2>. HIDE DEF J, j
  <2>3. [j EXCEPT !.num = J.num, !.task = J.task, !.step = J.step, !.got = J.got] \in Job
    BY <1>2, <2>2, JobNumbers
  <2>. QED BY <2>1, <2>3
<1>. HIDE DEF J, j
<1>9. Shape(J)
  BY <1>2, <1>5 DEF Shape, Same
<1>10. Places(J)
  <2>1. j.at = 1 /\ Len(Restored) \in Nat \ {0}
    BY <1>2, KindLists DEF Places
  <2>. QED BY <1>2, <1>5, <2>1 DEF Places, Same
<1>11. JobOK(J)
  BY <1>5, <1>7, <1>8, <1>9, <1>10 DEF JobOK
<1>. QED BY <1>2, <1>3, <1>5, <1>6, <1>11 DEF J, j
\* What can be read of a kind.
LEMMA ReadFacts ==
  ASSUME LogTypeOK, NEW k \in Kinds, IsFiniteSet(Written(logs[k]))
  PROVE  /\ Parsed(logs[k]) \in SUBSET Records /\ IsFiniteSet(Parsed(logs[k]))
         /\ Read(k) \in SUBSET Records /\ IsFiniteSet(Read(k))
<1>1. logs[k] \in Seq(Line)
  BY DEF LogTypeOK
<1>2. Parsed(logs[k]) \in SUBSET Records /\ Parsed(logs[k]) \subseteq Written(logs[k])
  BY <1>1, FileRecords
<1>3. IsFiniteSet(Parsed(logs[k]))
  BY <1>2, FS_Subset
<1>. QED BY <1>2, <1>3, ViewFacts DEF Read

\* Collect reads one kind, and goes on when it was the last.
LEMMA CollectJob ==
  ASSUME LogTypeOK, JobsOK, \A k \in Kinds : IsFiniteSet(Written(logs[k])), NEW p \in Procs, Collect(p)
  PROVE  LET j == job[p]
             J == job'[p]
             k == Restored[j.at]
         IN  /\ job' = [job EXCEPT ![p] = J] /\ JobOK(J) /\ Same(J, j)
             /\ j.op \in {"snapshot", "hook"} /\ j.step = "collect" /\ queue[p] = <<>>
             /\ J.num = j.num /\ J.task = j.task /\ J.bad = j.bad
             /\ j.at \in 1 .. Len(Restored) /\ k \in Kinds \ {"surfacings"} /\ Decodable(logs[k])
             /\ J.got = [j.got EXCEPT ![k] = Read(k)]
             /\ j.at # Len(Restored) => J.step = "collect" /\ J.at = j.at + 1
             /\ j.at = Len(Restored) => J.step = "mkdir" /\ J.at = 1
<1>. DEFINE j == job[p]
            J == job'[p]
            k == Restored[j.at]
            v == Read(k)
<1>1. At(p, {"snapshot", "hook"}, "collect") /\ Decodable(logs[k])
  BY DEF Collect
<1>2. /\ j \in Job /\ Shape(j) /\ Places(j) /\ \A kk \in Kinds : IsFiniteSet(j.got[kk])
      /\ j.op \in {"snapshot", "hook"} /\ j.step = "collect" /\ queue[p] = <<>>
  BY <1>1, Going
<1>3. job' = [job EXCEPT ![p] = J] /\ job \in [Procs -> Job]
  BY DEF Collect, JobsOK
<1>4. /\ j.at \in 1 .. Len(Restored) /\ Len(Restored) \in Nat \ {0}
      /\ k \in Kinds \ {"surfacings"}
  BY <1>2, KindLists DEF Places, Same
<1>5. /\ J.num = j.num /\ J.task = j.task /\ J.bad = j.bad
      /\ Same(J, j)
  BY <1>2 DEF Collect, Job, JobsOK, Same
<1>6. J.got = [j.got EXCEPT ![k] = v]
  BY <1>2 DEF Collect, Job, JobsOK
<1>7. /\ J.at = IF j.at = Len(Restored) THEN 1 ELSE j.at + 1
      /\ J.step = IF j.at = Len(Restored) THEN "mkdir" ELSE "collect"
  BY <1>2 DEF Collect, Job, JobsOK
<1>8. v \in SUBSET Records /\ IsFiniteSet(v)
  BY <1>4, ReadFacts
<1>9. J.got \in [Kinds -> SUBSET Records] /\ \A kk \in Kinds : IsFiniteSet(J.got[kk])
  <2>1. j.got \in [Kinds -> SUBSET Records]
    BY <1>2 DEF Job
  <2>. HIDE DEF v, k, j, J
  <2>2. J.got \in [Kinds -> SUBSET Records]
    BY <2>1, <1>4, <1>6, <1>8
  <2>3. \A kk \in Kinds : J.got[kk] = IF kk = k THEN v ELSE j.got[kk]
    BY <2>1, <1>4, <1>6
  <2>. QED BY <2>2, <2>3, <1>2, <1>8
<1>10. J \in Job
  <2>1. J = [j EXCEPT !.got = J.got, !.at = J.at, !.step = J.step]
    BY <1>2 DEF Collect, Job, JobsOK
  <2>2. J.step \in Steps /\ J.at \in Nat \ {0}
    BY <1>4, <1>7 DEF Steps
  <2>. HIDE DEF J, j
  <2>3. [j EXCEPT !.got = J.got, !.at = J.at, !.step = J.step] \in Job
    BY <1>2, <1>9, <2>2, JobReads
  <2>. QED BY <2>1, <2>3
<1>. HIDE DEF J, j, v
<1>11. Shape(J)
  BY <1>2, <1>5, <1>7 DEF Shape, Same, NoJob
<1>12. Places(J)
  <2>1. CASE j.at = Len(Restored)
    BY <1>2, <1>5, <1>7, <2>1 DEF Places, Same
  <2>2. CASE j.at # Len(Restored)
    <3>1. J.at \in 1 .. Len(Restored)
      BY <1>4, <1>7, <2>2
    <3>. QED BY <1>2, <1>5, <1>7, <2>2, <3>1 DEF Places, Same
  <2>. QED BY <2>1, <2>2
<1>13. JobOK(J)
  BY <1>9, <1>10, <1>11, <1>12 DEF JobOK
<1>. QED BY <1>1, <1>2, <1>3, <1>4, <1>5, <1>6, <1>7, <1>13 DEF J, j, v

\* Gather does the same for the handoff, or gives the section up.
LEMMA GatherJob ==
  ASSUME LogTypeOK, JobsOK, \A k \in Kinds : IsFiniteSet(Written(logs[k])), NEW p \in Procs, Gather(p)
  PROVE  LET j == job[p]
             J == job'[p]
             k == HandoffKinds[j.at]
         IN  /\ job' = [job EXCEPT ![p] = J] /\ JobOK(J) /\ Same(J, j)
             /\ j.op \in {"handoff"} /\ j.step = "gather" /\ queue[p] = <<>>
             /\ J.num = j.num /\ J.task = j.task /\ J.bad = j.bad
             /\ j.at \in 1 .. Len(HandoffKinds) /\ k \in Kinds \ {"surfacings"} /\ Decodable(logs[k])
             /\ J.got = [j.got EXCEPT ![k] = (IF k \in j.cut THEN {} ELSE Shown(k))]
             /\ j.at # Len(HandoffKinds) => J.step = "gather" /\ J.at = j.at + 1
             /\ j.at = Len(HandoffKinds) => J.step = "surface" /\ J.at = 1
<1>. DEFINE j == job[p]
            J == job'[p]
            k == HandoffKinds[j.at]
            v == (IF k \in j.cut THEN {} ELSE Shown(k))
<1>1. At(p, {"handoff"}, "gather") /\ Decodable(logs[k])
  BY DEF Gather
<1>2. /\ j \in Job /\ Shape(j) /\ Places(j) /\ \A kk \in Kinds : IsFiniteSet(j.got[kk])
      /\ j.op \in {"handoff"} /\ j.step = "gather" /\ queue[p] = <<>>
  BY <1>1, Going
<1>3. job' = [job EXCEPT ![p] = J] /\ job \in [Procs -> Job]
  BY DEF Gather, JobsOK
<1>4. /\ j.at \in 1 .. Len(HandoffKinds) /\ Len(HandoffKinds) \in Nat \ {0}
      /\ k \in Kinds \ {"surfacings"}
  BY <1>2, KindLists DEF Places, Same
<1>5. /\ J.num = j.num /\ J.task = j.task /\ J.bad = j.bad
      /\ Same(J, j)
  BY <1>2 DEF Gather, Job, JobsOK, Same
<1>6. J.got = [j.got EXCEPT ![k] = v]
  BY <1>2 DEF Gather, Job, JobsOK
<1>7. /\ J.at = IF j.at = Len(HandoffKinds) THEN 1 ELSE j.at + 1
      /\ J.step = IF j.at = Len(HandoffKinds) THEN "surface" ELSE "gather"
  BY <1>2 DEF Gather, Job, JobsOK
<1>8. v \in SUBSET Records /\ IsFiniteSet(v)
  <2>1. Read(k) \in SUBSET Records /\ IsFiniteSet(Read(k))
    BY <1>4, ReadFacts
  <2>2. Shown(k) \subseteq Read(k)
    BY DEF Shown
  <2>3. IsFiniteSet(Shown(k)) /\ IsFiniteSet({})
    BY <2>1, <2>2, FS_Subset, FS_EmptySet
  <2>. QED BY <2>1, <2>2, <2>3
<1>9. J.got \in [Kinds -> SUBSET Records] /\ \A kk \in Kinds : IsFiniteSet(J.got[kk])
  <2>1. j.got \in [Kinds -> SUBSET Records]
    BY <1>2 DEF Job
  <2>. HIDE DEF v, k, j, J
  <2>2. J.got \in [Kinds -> SUBSET Records]
    BY <2>1, <1>4, <1>6, <1>8
  <2>3. \A kk \in Kinds : J.got[kk] = IF kk = k THEN v ELSE j.got[kk]
    BY <2>1, <1>4, <1>6
  <2>. QED BY <2>2, <2>3, <1>2, <1>8
<1>10. J \in Job
  <2>1. J = [j EXCEPT !.got = J.got, !.at = J.at, !.step = J.step]
    BY <1>2 DEF Gather, Job, JobsOK
  <2>2. J.step \in Steps /\ J.at \in Nat \ {0}
    BY <1>4, <1>7 DEF Steps
  <2>. HIDE DEF J, j
  <2>3. [j EXCEPT !.got = J.got, !.at = J.at, !.step = J.step] \in Job
    BY <1>2, <1>9, <2>2, JobReads
  <2>. QED BY <2>1, <2>3
<1>. HIDE DEF J, j, v
<1>11. Shape(J)
  BY <1>2, <1>5, <1>7 DEF Shape, Same, NoJob
<1>12. Places(J)
  <2>1. CASE j.at = Len(HandoffKinds)
    BY <1>2, <1>5, <1>7, <2>1 DEF Places, Same
  <2>2. CASE j.at # Len(HandoffKinds)
    <3>1. J.at \in 1 .. Len(HandoffKinds)
      BY <1>4, <1>7, <2>2
    <3>. QED BY <1>2, <1>5, <1>7, <2>2, <3>1 DEF Places, Same
  <2>. QED BY <2>1, <2>2
<1>13. JobOK(J)
  BY <1>9, <1>10, <1>11, <1>12 DEF JobOK
<1>. QED BY <1>1, <1>2, <1>3, <1>4, <1>5, <1>6, <1>7, <1>13 DEF J, j, v

\* Mkdir creates the directory of the number.
LEMMA MkdirJob ==
  ASSUME LogTypeOK, JobsOK, NEW p \in Procs, Mkdir(p)
  PROVE  LET j == job[p]
             J == job'[p]
         IN  /\ job' = [job EXCEPT ![p] = J] /\ JobOK(J) /\ Same(J, j)
             /\ j.op \in {"snapshot", "hook"} /\ j.step = "mkdir" /\ queue[p] = <<>>
             /\ J.num = j.num /\ J.task = j.task /\ J.bad = j.bad /\ J.got = j.got
             /\ J.step = "publish" /\ J.at = 1 /\ j.num \in Snaps
<1>. DEFINE j == job[p]
            J == job'[p]
<1>1. At(p, {"snapshot", "hook"}, "mkdir")
  BY DEF Mkdir
<1>2. /\ j \in Job /\ Shape(j) /\ Places(j) /\ \A k \in Kinds : IsFiniteSet(j.got[k])
      /\ j.op \in {"snapshot", "hook"} /\ j.step = "mkdir" /\ queue[p] = <<>>
  BY <1>1, Going
<1>3. job' = [job EXCEPT ![p] = J] /\ job \in [Procs -> Job]
  BY DEF Mkdir, JobsOK, Goto
<1>0. j.at \in Nat \ {0} /\ Len(Restored) \in Nat
  BY <1>2, KindLists DEF Job
<1>4. /\ J.num = j.num /\ J.task = j.task /\ J.bad = j.bad /\ J.got = j.got
      /\ Same(J, j)
  BY <1>2 DEF Mkdir, Job, JobsOK, Same, Goto
<1>5. /\ J.step = "publish" /\ J.at = 1 /\ j.num \in Snaps
  BY <1>2, KindLists DEF Mkdir, Job, JobsOK, Goto, Places
<1>6. J \in Job
  <2>1. J = [j EXCEPT !.step = J.step, !.at = J.at]
    BY <1>2 DEF Mkdir, Job, JobsOK, Goto
  <2>2. J.step \in Steps /\ J.at \in Nat \ {0}
    BY <1>0, <1>2, <1>5 DEF Steps
  <2>. HIDE DEF J, j
  <2>3. [j EXCEPT !.step = J.step, !.at = J.at] \in Job
    BY <1>2, <2>2, JobMoves
  <2>. QED BY <2>1, <2>3
<1>. HIDE DEF J, j
<1>7. Shape(J)
  BY <1>2, <1>4, <1>5 DEF Shape, Same, NoJob
<1>8. Places(J)
  BY <1>2, <1>4, <1>5, KindLists DEF Places, Same
<1>9. JobOK(J)
  BY <1>2, <1>4, <1>6, <1>7, <1>8 DEF JobOK
<1>. QED BY <1>2, <1>3, <1>4, <1>5, <1>9 DEF J, j

\* RestoreTask goes on to the logs.
LEMMA RestoreTaskJob ==
  ASSUME LogTypeOK, JobsOK, NEW p \in Procs, RestoreTask(p)
  PROVE  LET j == job[p]
             J == job'[p]
         IN  /\ job' = [job EXCEPT ![p] = J] /\ JobOK(J) /\ Same(J, j)
             /\ j.op \in {"restore"} /\ j.step = "task" /\ queue[p] = <<>>
             /\ J.num = j.num /\ J.task = j.task /\ J.bad = j.bad /\ J.got = j.got
             /\ J.step = "log" /\ J.at = 1
<1>. DEFINE j == job[p]
            J == job'[p]
<1>1. At(p, {"restore"}, "task")
  BY DEF RestoreTask
<1>2. /\ j \in Job /\ Shape(j) /\ Places(j) /\ \A k \in Kinds : IsFiniteSet(j.got[k])
      /\ j.op \in {"restore"} /\ j.step = "task" /\ queue[p] = <<>>
  BY <1>1, Going
<1>3. job' = [job EXCEPT ![p] = J] /\ job \in [Procs -> Job]
  BY DEF RestoreTask, JobsOK, Goto
<1>0. j.at \in Nat \ {0} /\ Len(Restored) \in Nat
  BY <1>2, KindLists DEF Job
<1>4. /\ J.num = j.num /\ J.task = j.task /\ J.bad = j.bad /\ J.got = j.got
      /\ Same(J, j)
  BY <1>2 DEF RestoreTask, Job, JobsOK, Same, Goto
<1>5. /\ J.step = "log" /\ J.at = 1
  BY <1>2, KindLists DEF RestoreTask, Job, JobsOK, Goto, Places
<1>6. J \in Job
  <2>1. J = [j EXCEPT !.step = J.step, !.at = J.at]
    BY <1>2 DEF RestoreTask, Job, JobsOK, Goto
  <2>2. J.step \in Steps /\ J.at \in Nat \ {0}
    BY <1>0, <1>2, <1>5 DEF Steps
  <2>. HIDE DEF J, j
  <2>3. [j EXCEPT !.step = J.step, !.at = J.at] \in Job
    BY <1>2, <2>2, JobMoves
  <2>. QED BY <2>1, <2>3
<1>. HIDE DEF J, j
<1>7. Shape(J)
  BY <1>2, <1>4, <1>5 DEF Shape, Same, NoJob
<1>8. Places(J)
  BY <1>2, <1>4, <1>5, KindLists DEF Places, Same
<1>9. JobOK(J)
  BY <1>2, <1>4, <1>6, <1>7, <1>8 DEF JobOK
<1>. QED BY <1>2, <1>3, <1>4, <1>5, <1>9 DEF J, j

\* RestoreLog goes through the logs.
LEMMA RestoreLogJob ==
  ASSUME LogTypeOK, JobsOK, NEW p \in Procs, RestoreLog(p)
  PROVE  LET j == job[p]
             J == job'[p]
         IN  /\ job' = [job EXCEPT ![p] = J] /\ JobOK(J) /\ Same(J, j)
             /\ j.op \in {"restore"} /\ j.step = "log" /\ queue[p] = <<>>
             /\ J.num = j.num /\ J.task = j.task /\ J.bad = j.bad /\ J.got = j.got
             /\ j.at \in 1 .. Len(Restored) /\ Restored[j.at] \in Kinds \ {"surfacings"}
             /\ j.at # Len(Restored) => J.step = "log" /\ J.at = j.at + 1
             /\ j.at = Len(Restored) => J.step = "done" /\ J.at = 1
<1>. DEFINE j == job[p]
            J == job'[p]
<1>1. At(p, {"restore"}, "log")
  BY DEF RestoreLog
<1>2. /\ j \in Job /\ Shape(j) /\ Places(j) /\ \A k \in Kinds : IsFiniteSet(j.got[k])
      /\ j.op \in {"restore"} /\ j.step = "log" /\ queue[p] = <<>>
  BY <1>1, Going
<1>3. job' = [job EXCEPT ![p] = J] /\ job \in [Procs -> Job]
  BY DEF RestoreLog, JobsOK, Goto
<1>0. j.at \in Nat \ {0} /\ Len(Restored) \in Nat
  BY <1>2, KindLists DEF Job
<1>4. /\ J.num = j.num /\ J.task = j.task /\ J.bad = j.bad /\ J.got = j.got
      /\ Same(J, j)
  BY <1>2 DEF RestoreLog, Job, JobsOK, Same, Goto
<1>5. /\ j.at \in 1 .. Len(Restored) /\ Restored[j.at] \in Kinds \ {"surfacings"}
      /\ j.at # Len(Restored) => J.step = "log" /\ J.at = j.at + 1
      /\ j.at = Len(Restored) => J.step = "done" /\ J.at = 1
  BY <1>2, KindLists DEF RestoreLog, Job, JobsOK, Goto, Places
<1>6. J \in Job
  <2>1. J = [j EXCEPT !.step = J.step, !.at = J.at]
    BY <1>2 DEF RestoreLog, Job, JobsOK, Goto
  <2>2. J.step \in Steps /\ J.at \in Nat \ {0}
    BY <1>0, <1>2, <1>5 DEF Steps
  <2>. HIDE DEF J, j
  <2>3. [j EXCEPT !.step = J.step, !.at = J.at] \in Job
    BY <1>2, <2>2, JobMoves
  <2>. QED BY <2>1, <2>3
<1>. HIDE DEF J, j
<1>7. Shape(J)
  BY <1>2, <1>4, <1>5 DEF Shape, Same, NoJob
<1>8. Places(J)
  <2>1. CASE j.at = Len(Restored)
    BY <1>2, <1>4, <1>5, <2>1 DEF Places, Same
  <2>2. CASE j.at # Len(Restored)
    <3>1. J.at \in 1 .. Len(Restored)
      BY <1>0, <1>5, <2>2
    <3>. QED BY <1>2, <1>4, <1>5, <2>2, <3>1 DEF Places, Same
  <2>. QED BY <2>1, <2>2
<1>9. JobOK(J)
  BY <1>2, <1>4, <1>6, <1>7, <1>8 DEF JobOK
<1>. QED BY <1>2, <1>3, <1>4, <1>5, <1>9 DEF J, j

\* Surface goes on to the integrity report.
LEMMA SurfaceJob ==
  ASSUME LogTypeOK, JobsOK, NEW p \in Procs, Surface(p)
  PROVE  LET j == job[p]
             J == job'[p]
         IN  /\ job' = [job EXCEPT ![p] = J] /\ JobOK(J) /\ Same(J, j)
             /\ j.op \in {"handoff"} /\ j.step = "surface" /\ queue[p] = <<>>
             /\ J.num = j.num /\ J.task = j.task /\ J.bad = j.bad /\ J.got = j.got
             /\ J.step = "check" /\ J.at = 1
<1>. DEFINE j == job[p]
            J == job'[p]
<1>1. At(p, {"handoff"}, "surface")
  BY DEF Surface
<1>2. /\ j \in Job /\ Shape(j) /\ Places(j) /\ \A k \in Kinds : IsFiniteSet(j.got[k])
      /\ j.op \in {"handoff"} /\ j.step = "surface" /\ queue[p] = <<>>
  BY <1>1, Going
<1>3. job' = [job EXCEPT ![p] = J] /\ job \in [Procs -> Job]
  BY DEF Surface, JobsOK, Goto
<1>0. j.at \in Nat \ {0} /\ Len(Restored) \in Nat
  BY <1>2, KindLists DEF Job
<1>4. /\ J.num = j.num /\ J.task = j.task /\ J.bad = j.bad /\ J.got = j.got
      /\ Same(J, j)
  BY <1>2 DEF Surface, Job, JobsOK, Same, Goto
<1>5. /\ J.step = "check" /\ J.at = 1
  BY <1>2, KindLists DEF Surface, Job, JobsOK, Goto, Places
<1>6. J \in Job
  <2>1. J = [j EXCEPT !.step = J.step, !.at = J.at]
    BY <1>2 DEF Surface, Job, JobsOK, Goto
  <2>2. J.step \in Steps /\ J.at \in Nat \ {0}
    BY <1>0, <1>2, <1>5 DEF Steps
  <2>. HIDE DEF J, j
  <2>3. [j EXCEPT !.step = J.step, !.at = J.at] \in Job
    BY <1>2, <2>2, JobMoves
  <2>. QED BY <2>1, <2>3
<1>. HIDE DEF J, j
<1>7. Shape(J)
  BY <1>2, <1>4, <1>5 DEF Shape, Same, NoJob
<1>8. Places(J)
  BY <1>2, <1>4, <1>5, KindLists DEF Places, Same
<1>9. JobOK(J)
  BY <1>2, <1>4, <1>6, <1>7, <1>8 DEF JobOK
<1>. QED BY <1>2, <1>3, <1>4, <1>5, <1>9 DEF J, j

\* CaptureEnd goes on to the snapshot.
LEMMA CaptureEndJob ==
  ASSUME LogTypeOK, JobsOK, NEW p \in Procs, CaptureEnd(p)
  PROVE  LET j == job[p]
             J == job'[p]
         IN  /\ job' = [job EXCEPT ![p] = J] /\ JobOK(J) /\ Same(J, j)
             /\ j.op \in {"hook"} /\ j.step = "capture" /\ queue[p] = <<>>
             /\ J.num = j.num /\ J.task = j.task /\ J.bad = j.bad /\ J.got = j.got
             /\ J.step = "check" /\ J.at = 1 /\ j.at > Len(j.script)
<1>. DEFINE j == job[p]
            J == job'[p]
<1>1. At(p, {"hook"}, "capture")
  BY DEF CaptureEnd
<1>2. /\ j \in Job /\ Shape(j) /\ Places(j) /\ \A k \in Kinds : IsFiniteSet(j.got[k])
      /\ j.op \in {"hook"} /\ j.step = "capture" /\ queue[p] = <<>>
  BY <1>1, Going
<1>3. job' = [job EXCEPT ![p] = J] /\ job \in [Procs -> Job]
  BY DEF CaptureEnd, JobsOK, Goto
<1>0. j.at \in Nat \ {0} /\ Len(Restored) \in Nat
  BY <1>2, KindLists DEF Job
<1>4. /\ J.num = j.num /\ J.task = j.task /\ J.bad = j.bad /\ J.got = j.got
      /\ Same(J, j)
  BY <1>2 DEF CaptureEnd, Job, JobsOK, Same, Goto
<1>5. /\ J.step = "check" /\ J.at = 1 /\ j.at > Len(j.script)
  BY <1>2, KindLists DEF CaptureEnd, Job, JobsOK, Goto, Places
<1>6. J \in Job
  <2>1. J = [j EXCEPT !.step = J.step, !.at = J.at]
    BY <1>2 DEF CaptureEnd, Job, JobsOK, Goto
  <2>2. J.step \in Steps /\ J.at \in Nat \ {0}
    BY <1>0, <1>2, <1>5 DEF Steps
  <2>. HIDE DEF J, j
  <2>3. [j EXCEPT !.step = J.step, !.at = J.at] \in Job
    BY <1>2, <2>2, JobMoves
  <2>. QED BY <2>1, <2>3
<1>. HIDE DEF J, j
<1>7. Shape(J)
  BY <1>2, <1>4, <1>5 DEF Shape, Same, NoJob
<1>8. Places(J)
  BY <1>2, <1>4, <1>5, KindLists DEF Places, Same
<1>9. JobOK(J)
  BY <1>2, <1>4, <1>6, <1>7, <1>8 DEF JobOK
<1>. QED BY <1>2, <1>3, <1>4, <1>5, <1>9 DEF J, j

\* CaptureKnown passes over an item.
LEMMA CaptureKnownJob ==
  ASSUME LogTypeOK, JobsOK, NEW p \in Procs, CaptureKnown(p)
  PROVE  LET j == job[p]
             J == job'[p]
         IN  /\ job' = [job EXCEPT ![p] = J] /\ JobOK(J) /\ Same(J, j)
             /\ j.op \in {"hook"} /\ j.step = "capture" /\ queue[p] = <<>>
             /\ J.num = j.num /\ J.task = j.task /\ J.bad = j.bad /\ J.got = j.got
             /\ J.step = "capture" /\ J.at = j.at + 1
             /\ j.at <= Len(j.script) /\ j.script[j.at] \in Stated(j.got["discoveries"])
<1>. DEFINE j == job[p]
            J == job'[p]
<1>1. At(p, {"hook"}, "capture")
  BY DEF CaptureKnown
<1>2. /\ j \in Job /\ Shape(j) /\ Places(j) /\ \A k \in Kinds : IsFiniteSet(j.got[k])
      /\ j.op \in {"hook"} /\ j.step = "capture" /\ queue[p] = <<>>
  BY <1>1, Going
<1>3. job' = [job EXCEPT ![p] = J] /\ job \in [Procs -> Job]
  BY DEF CaptureKnown, JobsOK, Goto
<1>0. j.at \in Nat \ {0} /\ Len(Restored) \in Nat
  BY <1>2, KindLists DEF Job
<1>4. /\ J.num = j.num /\ J.task = j.task /\ J.bad = j.bad /\ J.got = j.got
      /\ Same(J, j)
  BY <1>2 DEF CaptureKnown, Job, JobsOK, Same, Goto
<1>5. /\ J.step = "capture" /\ J.at = j.at + 1
      /\ j.at <= Len(j.script) /\ j.script[j.at] \in Stated(j.got["discoveries"])
  BY <1>2, KindLists DEF CaptureKnown, Job, JobsOK, Goto, Places
<1>6. J \in Job
  <2>1. J = [j EXCEPT !.step = J.step, !.at = J.at]
    BY <1>2 DEF CaptureKnown, Job, JobsOK, Goto
  <2>2. J.step \in Steps /\ J.at \in Nat \ {0}
    BY <1>0, <1>2, <1>5 DEF Steps
  <2>. HIDE DEF J, j
  <2>3. [j EXCEPT !.step = J.step, !.at = J.at] \in Job
    BY <1>2, <2>2, JobMoves
  <2>. QED BY <2>1, <2>3
<1>. HIDE DEF J, j
<1>7. Shape(J)
  BY <1>2, <1>4, <1>5 DEF Shape, Same, NoJob
<1>8. Places(J)
  BY <1>2, <1>4, <1>5, KindLists DEF Places, Same
<1>9. JobOK(J)
  BY <1>2, <1>4, <1>6, <1>7, <1>8 DEF JobOK
<1>. QED BY <1>2, <1>3, <1>4, <1>5, <1>9 DEF J, j

\* CaptureNew learns the item that is appended.
LEMMA CaptureNewJob ==
  ASSUME LogTypeOK, JobsOK, nextId \in 1 .. MaxId + 1, NEW p \in Procs, CaptureNew(p)
  PROVE  LET j == job[p]
             J == job'[p]
             s == j.script[j.at]
         IN  /\ job' = [job EXCEPT ![p] = J] /\ JobOK(J) /\ Same(J, j)
             /\ j.op = "hook" /\ j.step = "capture" /\ queue[p] = <<>>
             /\ J.num = j.num /\ J.task = j.task /\ J.bad = j.bad
             /\ J.step = "capture" /\ J.at = j.at + 1
             /\ j.at <= Len(j.script) /\ s \in Stmts /\ s \notin Stated(j.got["discoveries"])
             /\ Fresh(s) \in Records /\ "discoveries" \in Kinds
             /\ J.got = [j.got EXCEPT !["discoveries"] = @ \cup {Fresh(s)}]
<1>. DEFINE j == job[p]
            J == job'[p]
            s == j.script[j.at]
            g == j.got["discoveries"] \cup {Fresh(s)}
<1>1. At(p, {"hook"}, "capture") /\ nextId <= MaxId
  BY DEF CaptureNew, NewId
<1>2. /\ j \in Job /\ Shape(j) /\ Places(j) /\ \A k \in Kinds : IsFiniteSet(j.got[k])
      /\ j.op \in {"hook"} /\ j.step = "capture" /\ queue[p] = <<>>
  BY <1>1, Going
<1>3. job' = [job EXCEPT ![p] = J] /\ job \in [Procs -> Job]
  BY DEF CaptureNew, JobsOK
<1>4. /\ J.num = j.num /\ J.task = j.task /\ J.bad = j.bad
      /\ Same(J, j)
  BY <1>2 DEF CaptureNew, Job, JobsOK, Same
<1>5. /\ J.step = "capture" /\ J.at = j.at + 1
      /\ j.at <= Len(j.script) /\ s \notin Stated(j.got["discoveries"])
  BY <1>2 DEF CaptureNew, Job, JobsOK
<1>6. j.at \in 1 .. Len(j.script) /\ j.script \in Seq(Stmts)
  BY <1>2, <1>5 DEF Job
<1>7. s \in Stmts
  BY <1>6
<1>8. "discoveries" \in Kinds
  BY <1>2 DEF Places
<1>9. Fresh(s) \in Records
  BY <1>1, <1>7, FreshFacts
<1>10. J.got = [j.got EXCEPT !["discoveries"] = g]
  BY <1>2 DEF CaptureNew, Job, JobsOK, Learn
<1>11. J.got \in [Kinds -> SUBSET Records] /\ \A k \in Kinds : IsFiniteSet(J.got[k])
  <2>1. j.got \in [Kinds -> SUBSET Records]
    BY <1>2 DEF Job
  <2>2. g \in SUBSET Records /\ IsFiniteSet(g)
    BY <1>2, <1>8, <1>9, <2>1, FS_AddElement
  <2>. HIDE DEF g, J, j
  <2>3. J.got \in [Kinds -> SUBSET Records]
    BY <2>1, <2>2, <1>8, <1>10
  <2>4. \A k \in Kinds : J.got[k] = IF k = "discoveries" THEN g ELSE j.got[k]
    BY <2>1, <1>8, <1>10
  <2>. QED BY <1>2, <2>2, <2>3, <2>4
<1>12. J \in Job
  <2>1. J = [j EXCEPT !.got = J.got, !.at = J.at, !.step = J.step]
    BY <1>2 DEF CaptureNew, Job, JobsOK
  <2>2. J.step \in Steps /\ J.at \in Nat \ {0}
    BY <1>5, <1>6 DEF Steps
  <2>. HIDE DEF J, j
  <2>3. [j EXCEPT !.got = J.got, !.at = J.at, !.step = J.step] \in Job
    BY <1>2, <1>11, <2>2, JobReads
  <2>. QED BY <2>1, <2>3
<1>. HIDE DEF J, j
<1>13. Shape(J)
  BY <1>2, <1>4, <1>5 DEF Shape, Same, NoJob
<1>14. Places(J)
  BY <1>2, <1>4, <1>5, <1>8 DEF Places, Same
<1>15. JobOK(J)
  BY <1>11, <1>12, <1>13, <1>14 DEF JobOK
<1>. QED BY <1>2, <1>3, <1>4, <1>5, <1>7, <1>8, <1>9, <1>10, <1>15 DEF J, j

\* Publish ends a snapshot, and the hook's work.
LEMMA PublishJob ==
  ASSUME LogTypeOK, JobsOK, NEW p \in Procs, Publish(p)
  PROVE  LET j == job[p]
             J == job'[p]
         IN  /\ job' = [job EXCEPT ![p] = J] /\ JobOK(J)
             /\ j.op \in {"snapshot", "hook"} /\ j.step = "publish" /\ queue[p] = <<>>
             /\ j.num \in Snaps
             /\ j.op = "hook" => /\ Same(J, j) /\ J.step = "done" /\ J.at = 1
                                 /\ J.got = j.got /\ J.bad = j.bad /\ J.task = j.task
             /\ j.op # "hook" => J = NoJob
<1>. DEFINE j == job[p]
            J == job'[p]
<1>1. At(p, {"snapshot", "hook"}, "publish")
  BY DEF Publish
<1>2. /\ j \in Job /\ Shape(j) /\ Places(j) /\ \A k \in Kinds : IsFiniteSet(j.got[k])
      /\ j.op \in {"snapshot", "hook"} /\ j.step = "publish" /\ queue[p] = <<>>
  BY <1>1, Going
<1>3. job' = [job EXCEPT ![p] = J] /\ job \in [Procs -> Job]
  BY DEF Publish, JobsOK
<1>4. j.num \in Snaps
  BY <1>2 DEF Places
<1>5. CASE j.op = "hook"
  <2>1. J = [j EXCEPT !.step = "done", !.at = 1]
    BY <1>5 DEF Publish, JobsOK
  <2>2. /\ Same(J, j) /\ J.step = "done" /\ J.at = 1
        /\ J.got = j.got /\ J.bad = j.bad /\ J.task = j.task
    BY <1>2, <2>1 DEF Job, Same
  <2>. HIDE DEF J
  <2>3. "done" \in Steps /\ 1 \in Nat \ {0}
    BY DEF Steps
  <2>4. J \in Job
    BY <1>2, <2>1, <2>3, JobMoves
  <2>5. Shape(J)
    BY <1>5, <2>2 DEF Shape, Same
  <2>6. Places(J)
    BY <1>2, <1>5, <2>2 DEF Places
  <2>7. JobOK(J)
    BY <1>2, <2>2, <2>4, <2>5, <2>6 DEF JobOK
  <2>. QED BY <1>2, <1>3, <1>4, <1>5, <2>2, <2>7 DEF J
<1>6. CASE j.op # "hook"
  <2>1. J = NoJob
    BY <1>6 DEF Publish, JobsOK
  <2>. QED BY <1>2, <1>3, <1>4, <1>6, <2>1, NoJobFacts
<1>. QED BY <1>5, <1>6

\* RestoreBegin reads a snapshot that was written.
LEMMA RestoreBeginJob ==
  ASSUME LogTypeOK, JobsOK, NEW n \in Snaps, NEW p \in Procs,
         snaps[n].task \in Tasks \cup {NoTask}, snaps[n].view \in [Kinds -> SUBSET Records],
         \A k \in Kinds : IsFiniteSet(snaps[n].view[k]), RestoreBegin(p, n)
  PROVE  LET J == job'[p]
         IN  /\ job' = [job EXCEPT ![p] = J] /\ JobOK(J)
             /\ J.op = "restore" /\ J.step = "task" /\ J.at = 1 /\ J.bad = FALSE
             /\ J.task = snaps[n].task /\ J.got = snaps[n].view /\ J.known = acked
             /\ J.sound = \A k \in Kinds : ~Open(logs[k])
<1>. DEFINE S == Started("restore", "task")
            J == job'[p]
            R == [S EXCEPT !.num = n, !.task = snaps[n].task, !.got = snaps[n].view]
<1>1. job' = [job EXCEPT ![p] = R] /\ job \in [Procs -> Job]
  BY DEF RestoreBegin, JobsOK
<1>2. J = R /\ job' = [job EXCEPT ![p] = J]
  BY <1>1
<1>3. "task" \in Steps /\ "restore" \in Active
  BY DEF Steps, Active
<1>4. /\ S \in Job
      /\ S.op = "restore" /\ S.step = "task" /\ S.at = 1 /\ S.bad = FALSE /\ S.known = acked
      /\ S.sound = \A k \in Kinds : ~Open(logs[k])
  <2>1. /\ S \in Job
        /\ S.op = "restore" /\ S.step = "task" /\ S.at = 1 /\ S.bad = FALSE /\ S.known = acked
    BY ONLY LogTypeOK, <1>3, StartedJob
  <2>2. S.sound = \A k \in Kinds : ~Open(logs[k])
    BY ONLY StartedSound
  <2>. QED BY ONLY <2>1, <2>2
<1>. HIDE DEF S
<1>5. /\ R \in Job
      /\ R.op = "restore" /\ R.step = "task" /\ R.at = 1 /\ R.bad = FALSE
      /\ R.task = snaps[n].task /\ R.got = snaps[n].view /\ R.known = acked
      /\ R.sound = \A k \in Kinds : ~Open(logs[k])
  <2>. DEFINE j1 == [S EXCEPT !.num = n]
              j2 == [j1 EXCEPT !.task = snaps[n].task]
              j3 == [j2 EXCEPT !.got = snaps[n].view]
  <2>1. R = j3
    BY <1>4 DEF Job
  <2>2. j1 \in Job
    BY <1>4, JobUpdate
  <2>3. j2 \in Job
    <3>. HIDE DEF j1
    <3>. QED BY <2>2, JobUpdate
  <2>4. j3 \in Job
    <3>. HIDE DEF j2
    <3>. QED BY <2>3, JobUpdate
  <2>5. R \in Job
    <3>. HIDE DEF R, j3
    <3>. QED BY <2>1, <2>4
  <2>. QED BY <1>4, <2>5 DEF Job
<1>. HIDE DEF R, J
<1>6. Shape(R) /\ Places(R)
  BY <1>5 DEF Shape, Places
<1>. QED BY <1>2, <1>5, <1>6 DEF JobOK, J

\* HandoffBegin fixes the sections that will be given up.
LEMMA HandoffBeginJob ==
  ASSUME LogTypeOK, JobsOK, NEW n, NEW p \in Procs, HandoffBegin(p, n)
  PROVE  LET J == job'[p]
         IN  /\ job' = [job EXCEPT ![p] = J] /\ JobOK(J)
             /\ J.op = "handoff" /\ J.step = "gather" /\ J.at = 1 /\ J.bad = FALSE
             /\ J.known = acked /\ J.got = NoView
             /\ J.sound = \A k \in Kinds : ~Open(logs[k])
<1>. DEFINE S == Started("handoff", "gather")
            J == job'[p]
            c == {CutOrder[i] : i \in 1 .. n} \cap Kinds
            R == [S EXCEPT !.cut = c]
<1>1. job' = [job EXCEPT ![p] = R] /\ job \in [Procs -> Job]
  BY DEF HandoffBegin, JobsOK
<1>2. J = R /\ job' = [job EXCEPT ![p] = J]
  BY <1>1
<1>3. "gather" \in Steps /\ "handoff" \in Active
  BY DEF Steps, Active
<1>4. /\ S \in Job
      /\ S.op = "handoff" /\ S.step = "gather" /\ S.at = 1 /\ S.bad = FALSE /\ S.known = acked
      /\ S.got = NoView /\ S.sound = \A k \in Kinds : ~Open(logs[k])
  <2>1. /\ S \in Job
        /\ S.op = "handoff" /\ S.step = "gather" /\ S.at = 1 /\ S.bad = FALSE /\ S.known = acked
        /\ S.got = NoView
    BY ONLY LogTypeOK, <1>3, StartedJob
  <2>2. S.sound = \A k \in Kinds : ~Open(logs[k])
    BY ONLY StartedSound
  <2>. QED BY ONLY <2>1, <2>2
<1>5. c \in SUBSET Kinds
  OBVIOUS
<1>. HIDE DEF S, c
<1>6. /\ R \in Job
      /\ R.op = "handoff" /\ R.step = "gather" /\ R.at = 1 /\ R.bad = FALSE
      /\ R.got = NoView /\ R.known = acked
      /\ R.sound = \A k \in Kinds : ~Open(logs[k])
  BY <1>4, <1>5 DEF Job
<1>. HIDE DEF R, J
<1>7. Shape(R)
  BY <1>6 DEF Shape
<1>8. Places(R)
  BY <1>6, KindLists DEF Places
<1>9. \A k \in Kinds : IsFiniteSet(R.got[k])
  BY <1>6, FS_EmptySet DEF NoView
<1>. QED BY <1>2, <1>6, <1>7, <1>8, <1>9 DEF JobOK, J

\* HookBegin reads the discoveries.
LEMMA HookBeginJob ==
  ASSUME LogTypeOK, JobsOK, \A k \in Kinds : IsFiniteSet(Written(logs[k])),
         NEW script \in Transcripts, NEW p \in Procs, HookBegin(p, script)
  PROVE  LET J == job'[p]
         IN  /\ job' = [job EXCEPT ![p] = J] /\ JobOK(J)
             /\ J.op = "hook" /\ J.step = "capture" /\ J.at = 1 /\ J.bad = FALSE
             /\ J.known = acked /\ J.script = script /\ J.forced = FALSE
             /\ "discoveries" \in Kinds
             /\ J.got = [NoView EXCEPT !["discoveries"] = Parsed(logs["discoveries"])]
             /\ J.sound = \A k \in Kinds : ~Open(logs[k])
<1>. DEFINE S == Started("hook", "capture")
            J == job'[p]
            g == [NoView EXCEPT !["discoveries"] = Parsed(logs["discoveries"])]
            R == [S EXCEPT !.got["discoveries"] = Read("discoveries"), !.script = script]
<1>1. job' = [job EXCEPT ![p] = R] /\ job \in [Procs -> Job]
  BY DEF HookBegin, JobsOK
<1>2. J = R /\ job' = [job EXCEPT ![p] = J]
  BY <1>1
<1>3. "capture" \in Steps /\ "hook" \in Active
  BY DEF Steps, Active
<1>4. /\ S \in Job
      /\ S.op = "hook" /\ S.step = "capture" /\ S.at = 1 /\ S.bad = FALSE /\ S.known = acked
      /\ S.got = NoView /\ S.forced = FALSE /\ S.sound = \A k \in Kinds : ~Open(logs[k])
  <2>1. /\ S \in Job
        /\ S.op = "hook" /\ S.step = "capture" /\ S.at = 1 /\ S.bad = FALSE /\ S.known = acked
        /\ S.got = NoView /\ S.forced = FALSE
    BY ONLY LogTypeOK, <1>3, StartedJob
  <2>2. S.sound = \A k \in Kinds : ~Open(logs[k])
    BY ONLY StartedSound
  <2>. QED BY ONLY <2>1, <2>2
<1>5. "discoveries" \in Kinds /\ script \in Seq(Stmts)
  BY KindsAssumption DEF HookBegin, MayStart
<1>6. Read("discoveries") = Parsed(logs["discoveries"])
  BY DEF Read, View
<1>7. g \in [Kinds -> SUBSET Records] /\ \A k \in Kinds : IsFiniteSet(g[k])
  <2>1. /\ Parsed(logs["discoveries"]) \in SUBSET Records
        /\ IsFiniteSet(Parsed(logs["discoveries"]))
    BY <1>5, ReadFacts
  <2>. DEFINE d == Parsed(logs["discoveries"])
  <2>. HIDE DEF d
  <2>2. d \in SUBSET Records /\ IsFiniteSet(d) /\ g = [NoView EXCEPT !["discoveries"] = d]
    BY <2>1 DEF d
  <2>. HIDE DEF g
  <2>3. g \in [Kinds -> SUBSET Records]
    BY <2>2 DEF NoView
  <2>4. \A k \in Kinds : g[k] = IF k = "discoveries" THEN d ELSE {}
    BY <2>2 DEF NoView
  <2>. QED BY <2>2, <2>3, <2>4, FS_EmptySet
<1>. HIDE DEF S
<1>8. R.got = g /\ R.script = script
  BY <1>4, <1>6 DEF Job
<1>9. /\ R.op = "hook" /\ R.step = "capture" /\ R.at = 1 /\ R.bad = FALSE
      /\ R.known = acked /\ R.forced = FALSE
      /\ R.sound = \A k \in Kinds : ~Open(logs[k])
  BY <1>4 DEF Job
<1>10. R \in Job
  <2>. DEFINE j1 == [S EXCEPT !.got = g]
              j2 == [j1 EXCEPT !.script = script]
  <2>1. R = j2
    BY <1>4, <1>6 DEF Job
  <2>. HIDE DEF g
  <2>2. j1 \in Job
    BY <1>4, <1>7, JobUpdate
  <2>. HIDE DEF j1
  <2>3. j2 \in Job
    BY <1>5, <2>2 DEF Job
  <2>. QED BY <2>1, <2>3
<1>. HIDE DEF R, J
<1>11. Shape(R) /\ Places(R)
  BY <1>5, <1>9 DEF Shape, Places
<1>12. \A k \in Kinds : IsFiniteSet(R.got[k])
  BY <1>7, <1>8
<1>. QED BY <1>2, <1>5, <1>8, <1>9, <1>10, <1>11, <1>12 DEF JobOK, J

\* A job that ends, or whose process is killed.
LEMMA EndJob ==
  ASSUME JobsOK, NEW p \in Procs, Finish(p) \/ Kill(p)
  PROVE  /\ job' = [job EXCEPT ![p] = job'[p]] /\ JobOK(job'[p])
         /\ job'[p] = NoJob
         /\ ~Idle(p)
<1>1. job' = [job EXCEPT ![p] = NoJob] /\ job \in [Procs -> Job]
  BY DEF Finish, Kill, JobsOK
<1>2. ~Idle(p)
  BY DEF Finish, Kill, Idle, NoJob
<1>. QED BY <1>1, <1>2, NoJobFacts

\* A torn append ends the job of its process, and lets the others know.
LEMMA TearJob ==
  ASSUME JobsOK, NEW p \in Procs, NEW cut, Tear(p, cut)
  PROVE  /\ JobsOK'
         /\ job'[p] = NoJob
         /\ \A q \in Procs \ {p} :
              /\ job'[q].op = job[q].op /\ job'[q].step = job[q].step /\ job'[q].at = job[q].at
              /\ job'[q].bad = job[q].bad /\ job'[q].num = job[q].num
              /\ job'[q].forced = job[q].forced /\ job'[q].task = job[q].task
              /\ job'[q].cut = job[q].cut /\ job'[q].got = job[q].got
              /\ job'[q].script = job[q].script /\ job'[q].known = job[q].known
              /\ job[q] = NoJob => job'[q] = NoJob
         /\ \A q \in Procs : job'[q].sound = FALSE
<1>1. job' = [q \in Procs |-> IF q = p THEN NoJob ELSE [job[q] EXCEPT !.sound = FALSE]]
  BY DEF Tear
<1>2. job'[p] = NoJob /\ NoJob.sound = FALSE
  BY <1>1 DEF NoJob
<1>3. ASSUME NEW q \in Procs \ {p}
      PROVE  /\ job'[q].op = job[q].op /\ job'[q].step = job[q].step /\ job'[q].at = job[q].at
             /\ job'[q].bad = job[q].bad /\ job'[q].num = job[q].num
             /\ job'[q].forced = job[q].forced /\ job'[q].task = job[q].task
             /\ job'[q].cut = job[q].cut /\ job'[q].got = job[q].got
             /\ job'[q].script = job[q].script /\ job'[q].known = job[q].known
             /\ job'[q].sound = FALSE
             /\ job[q] = NoJob => job'[q] = NoJob
             /\ JobOK(job'[q])
  <2>. DEFINE j == job[q]
              J == [j EXCEPT !.sound = FALSE]
  <2>1. j \in Job /\ Shape(j) /\ Places(j) /\ \A k \in Kinds : IsFiniteSet(j.got[k])
    BY DEF JobsOK, JobOK
  <2>2. job'[q] = J
    BY <1>1
  <2>3. /\ J.op = j.op /\ J.step = j.step /\ J.at = j.at /\ J.bad = j.bad /\ J.num = j.num
        /\ J.forced = j.forced /\ J.task = j.task /\ J.cut = j.cut /\ J.got = j.got
        /\ J.script = j.script /\ J.known = j.known /\ J.sound = FALSE
    BY <2>1 DEF Job
  <2>4. J \in Job
    BY <2>1 DEF Job
  <2>5. j = NoJob => J = NoJob
    <3>1. j.sound = FALSE => J = j
      BY <2>1 DEF Job
    <3>2. j = NoJob => j.sound = FALSE
      BY <1>2
    <3>. QED BY <3>1, <3>2
  <2>. HIDE DEF J, j
  <2>6. Shape(J)
    BY <2>1, <2>3, <2>5 DEF Shape
  <2>7. Places(J)
    BY <2>1, <2>3 DEF Places
  <2>8. JobOK(J)
    BY <2>1, <2>3, <2>4, <2>6, <2>7 DEF JobOK
  <2>. QED BY <2>2, <2>3, <2>5, <2>8 DEF j
<1>4. \A q \in Procs : JobOK(job'[q])
  BY <1>2, <1>3, NoJobFacts
<1>5. job' \in [Procs -> Job]
  BY <1>1, <1>4 DEF JobOK
<1>6. JobsOK'
  BY <1>4, <1>5 DEF JobsOK
<1>. QED BY <1>2, <1>3, <1>6
----------------------------------------------------------------------------
(* The types, and the logs: every step of the engine is a step of AppendLog.*)

\* The fields of a snapshot.
Snapshot == [dir: BOOLEAN, full: BOOLEAN, forced: BOOLEAN,
             task: Tasks \cup {NoTask}, view: [Kinds -> SUBSET Records]]

\* Every snapshot has them, and lists finitely many records.
SnapsOK ==
    /\ snaps \in [Snaps -> Snapshot]
    /\ \A n \in Snaps, k \in Kinds : IsFiniteSet(snaps[n].view[k])

\* No file holds infinitely many records.
FilesFinite == \A k \in Kinds : IsFiniteSet(Written(logs[k]))

\* The inductive invariant of the types: what AppendLog_proofs proves of the logs,
\* and the types of everything the engine adds.
EngineInv ==
    /\ LogInv
    /\ FilesFinite
    /\ nextId \in 1 .. MaxId + 1
    /\ task \in Tasks \cup {NoTask}
    /\ SnapsOK
    /\ JobsOK

\* A step of the logs, or none.
LogMove ==
    \/ \E p \in Procs : \/ queue'[p] \in Seq(Write) /\ Begin(p, queue'[p])
                        \/ AppendRecord(p)
                        \/ Abandon(p)
                        \/ \E cut \in Cuts : TearAppend(p, cut)
    \/ \E k \in Kinds, i \in 1 .. MaxLines : DeleteLine(k, i)
    \/ UNCHANGED logVars

\* One record handed over.
LEMMA BatchOfOne ==
  ASSUME LogTypeOK, NEW p \in Procs, NEW k \in Kinds, NEW r \in Records,
         Begin(p, <<[kind |-> k, rec |-> r]>>)
  PROVE  /\ LogMove
         /\ queue' = [queue EXCEPT ![p] = <<[kind |-> k, rec |-> r]>>]
         /\ queue'[p] = <<[kind |-> k, rec |-> r]>>
         /\ UNCHANGED <<logs, acked, dropped, torn>>
<1>. DEFINE w == [kind |-> k, rec |-> r]
<1>1. w \in Write
  BY DEF Write
<1>. HIDE DEF w
<1>2. <<w>> \in Seq(Write)
  BY <1>1
<1>3. queue' = [queue EXCEPT ![p] = <<w>>] /\ UNCHANGED <<logs, acked, dropped, torn>>
  BY DEF Begin, w
<1>4. queue'[p] = <<w>>
  BY <1>3 DEF LogTypeOK
<1>5. Begin(p, queue'[p])
  BY <1>4 DEF w
<1>6. LogMove
  BY <1>2, <1>4, <1>5 DEF LogMove
<1>. QED BY <1>3, <1>4, <1>6 DEF w

\* remember.
LEMMA RememberRecord ==
  ASSUME EngineInv, NEW p \in Procs, NEW k \in Kinds, NEW s \in Stmts, Remember(p, k, s)
  PROVE  LET r == Fresh(s) IN
         /\ r \in Records /\ r.id = nextId /\ r.stmt = s /\ r.link = 0 /\ ~r.closed
         /\ Begin(p, <<[kind |-> k, rec |-> r]>>)
         /\ nextId <= MaxId /\ nextId' = nextId + 1
         /\ UNCHANGED <<task, snaps, job>>
         /\ \A q \in Procs : OneWriter => Idle(q)
         /\ Idle(p)
<1>1. nextId <= MaxId /\ nextId' = nextId + 1
  BY DEF Remember, NewId
<1>2. nextId \in 1 .. MaxId + 1
  BY DEF EngineInv
<1>3. /\ Fresh(s) \in Records /\ Fresh(s).id = nextId /\ Fresh(s).stmt = s
      /\ Fresh(s).link = 0 /\ Fresh(s).closed = FALSE
  BY <1>1, <1>2, FreshFacts
<1>. QED BY <1>1, <1>3 DEF Remember, MayStart

\* supersede.
LEMMA SupersedeRecord ==
  ASSUME EngineInv, NEW p \in Procs, NEW s \in Stmts, NEW old \in 1 .. MaxId,
         "decisions" \in Kinds, Supersede(p, old, s)
  PROVE  LET r == [Fresh(s) EXCEPT !.link = old] IN
         /\ r \in Records /\ r.id = nextId /\ r.stmt = s /\ r.link = old /\ ~r.closed
         /\ Begin(p, <<[kind |-> "decisions", rec |-> r]>>)
         /\ nextId <= MaxId /\ nextId' = nextId + 1
         /\ UNCHANGED <<task, snaps, job>>
         /\ \A q \in Procs : OneWriter => Idle(q)
         /\ Idle(p)
<1>. DEFINE fr == Fresh(s)
            r == [fr EXCEPT !.link = old]
<1>1. nextId <= MaxId /\ nextId' = nextId + 1
  BY DEF Supersede, NewId
<1>2. nextId \in 1 .. MaxId + 1
  BY DEF EngineInv
<1>3. nextId \in 1 .. MaxId
  BY <1>1, <1>2, KindsAssumption
<1>4. fr \in Records /\ fr.id = nextId /\ fr.stmt = s /\ fr.closed = FALSE
  BY <1>1, <1>2, FreshFacts
<1>5. old \in 0 .. MaxId
  OBVIOUS
<1>. HIDE DEF fr
<1>6. r \in Records /\ r.id = nextId /\ r.stmt = s /\ r.link = old /\ r.closed = FALSE
  BY <1>4, <1>5, LinkedRecord
<1>. QED BY <1>1, <1>6 DEF Supersede, MayStart, fr

\* failures resolve.
LEMMA ResolveRecord ==
  ASSUME EngineInv, NEW p \in Procs, "failures" \in Kinds,
         NEW f \in Failures(Parsed(logs["failures"])), Resolve(p, f)
  PROVE  LET r == [Fresh(f.stmt) EXCEPT !.link = f.id, !.closed = TRUE] IN
         /\ r \in Records /\ r.id = nextId /\ r.stmt = f.stmt /\ r.link = f.id
         /\ f \in Records
         /\ Begin(p, <<[kind |-> "failures", rec |-> r]>>)
         /\ nextId <= MaxId /\ nextId' = nextId + 1
         /\ UNCHANGED <<task, snaps, job>>
         /\ \A q \in Procs : OneWriter => Idle(q)
         /\ Idle(p)
<1>. DEFINE fr == Fresh(f.stmt)
            r == [fr EXCEPT !.link = f.id, !.closed = TRUE]
<1>1. nextId <= MaxId /\ nextId' = nextId + 1
  BY DEF Resolve, NewId
<1>2. nextId \in 1 .. MaxId + 1
  BY DEF EngineInv
<1>3. nextId \in 1 .. MaxId
  BY <1>1, <1>2, KindsAssumption
<1>5. f \in Records
  <2>1. Parsed(logs["failures"]) \in SUBSET Records
    BY ReadFacts DEF EngineInv, LogInv, FilesFinite
  <2>2. View("failures", Parsed(logs["failures"])) = Failures(Parsed(logs["failures"]))
    BY DEF View
  <2>. QED BY <2>1, <2>2, ViewFacts
<1>6. f.id \in 0 .. MaxId /\ f.stmt \in Stmts \cup {"surfacing"}
  BY <1>5, RecordParts
<1>7. fr \in Records /\ fr.id = nextId /\ fr.stmt = f.stmt
  BY <1>1, <1>2, <1>6, FreshFacts
<1>. HIDE DEF fr
<1>8. r \in Records /\ r.id = nextId /\ r.stmt = f.stmt /\ r.link = f.id
  BY <1>6, <1>7, MarkerRecord
<1>. QED BY <1>1, <1>5, <1>8 DEF Resolve, MayStart, fr

\* The Surfacing record of a handoff.
LEMMA SurfaceRecord ==
  ASSUME EngineInv, NEW p \in Procs, Surface(p)
  PROVE  LET r == Fresh("surfacing") IN
         /\ r \in Records /\ r.id = nextId
         /\ Begin(p, <<[kind |-> "surfacings", rec |-> r]>>)
         /\ nextId <= MaxId /\ nextId' = nextId + 1
         /\ UNCHANGED <<task, snaps>>
         /\ "surfacings" \in Kinds
<1>1. nextId <= MaxId /\ nextId' = nextId + 1
  BY DEF Surface, NewId
<1>2. nextId \in 1 .. MaxId + 1
  BY DEF EngineInv
<1>3. Fresh("surfacing") \in Records /\ Fresh("surfacing").id = nextId
  BY <1>1, <1>2, FreshFacts
<1>. QED BY <1>1, <1>3, KindLists DEF Surface

\* A record the hook captures.
LEMMA CaptureRecord ==
  ASSUME EngineInv, NEW p \in Procs, CaptureNew(p)
  PROVE  LET r == Fresh(job[p].script[job[p].at]) IN
         /\ r \in Records /\ r.id = nextId /\ r.stmt = job[p].script[job[p].at]
         /\ Begin(p, <<[kind |-> "discoveries", rec |-> r]>>)
         /\ nextId <= MaxId /\ nextId' = nextId + 1
         /\ UNCHANGED <<task, snaps>>
         /\ "discoveries" \in Kinds
<1>1. nextId <= MaxId /\ nextId' = nextId + 1
  BY DEF CaptureNew, NewId
<1>2. Fresh(job[p].script[job[p].at]) \in Records /\ "discoveries" \in Kinds
  BY CaptureNewJob DEF EngineInv, LogInv
<1>3. Fresh(job[p].script[job[p].at]).id = nextId
      /\ Fresh(job[p].script[job[p].at]).stmt = job[p].script[job[p].at]
  BY DEF Fresh
<1>. QED BY <1>1, <1>2, <1>3 DEF CaptureNew

\* What a restore hands over: each missing record of the kind, once.
LEMMA RestoreBatch ==
  ASSUME EngineInv, NEW p \in Procs, RestoreLog(p)
  PROVE  LET k == Restored[job[p].at]
             b == queue'[p]
         IN  /\ LogMove
             /\ k \in Kinds \ {"surfacings"}
             /\ UNCHANGED <<logs, acked, dropped, torn, nextId, task, snaps>>
             /\ queue' = [queue EXCEPT ![p] = b] /\ b \in Seq(Write)
             /\ \A i \in 1 .. Len(b) : b[i].kind = k /\ b[i].rec \in Missing(p, k)
             /\ \A r \in Missing(p, k) : \E i \in 1 .. Len(b) : b[i].rec = r
             /\ \A i, l \in 1 .. Len(b) : b[i].rec = b[l].rec => i = l
<1>. DEFINE k == Restored[job[p].at]
            M == Missing(p, k)
            wr == [r \in M |-> [kind |-> k, rec |-> r]]
            W == {wr[r] : r \in M}
            b == SetToSeq(W)
<1>1. /\ JobsOK /\ LogTypeOK /\ queue \in [Procs -> Seq(Write)]
  BY DEF EngineInv, LogInv, LogTypeOK
<1>2. k \in Kinds \ {"surfacings"} /\ queue[p] = <<>>
  BY <1>1, RestoreLogJob
<1>3. M \in SUBSET Records /\ IsFiniteSet(M)
  <2>1. job[p].got \in [Kinds -> SUBSET Records] /\ IsFiniteSet(job[p].got[k])
    BY <1>1, <1>2 DEF JobsOK, JobOK, Job
  <2>2. M \subseteq job[p].got[k]
    BY DEF Missing
  <2>. HIDE DEF M, k
  <2>3. job[p].got[k] \in SUBSET Records
    BY <1>2, <2>1
  <2>. QED BY <2>1, <2>2, <2>3, FS_Subset
<1>4. W = {[kind |-> k, rec |-> r] : r \in M}
  OBVIOUS
<1>5. queue' = [queue EXCEPT ![p] = b]
  BY <1>4 DEF RestoreLog
<1>6. W \in SUBSET Write
  BY <1>2, <1>3 DEF Write
<1>7. IsFiniteSet(W)
  <2>1. DOMAIN wr = M /\ wr = [x \in M |-> wr[x]]
    OBVIOUS
  <2>. HIDE DEF wr, M
  <2>. QED BY <1>3, <2>1, FiniteImage
<1>8. \A x \in W : x.kind = k /\ x.rec \in M
  OBVIOUS
<1>9. \A r \in M : [kind |-> k, rec |-> r] \in W
  OBVIOUS
<1>10. \A x, y \in W : x.rec = y.rec => x = y
  OBVIOUS
<1>. HIDE DEF W
<1>11. /\ b \in Seq(W)
       /\ W = {} => b = <<>>
       /\ \A x \in W : \E i \in 1 .. Len(b) : b[i] = x
       /\ \A i, l \in 1 .. Len(b) : b[i] = b[l] => i = l
  BY <1>7, SetToSeqFacts
<1>. HIDE DEF b, M, k, wr
<1>12. b \in Seq(Write)
  BY <1>6, <1>11
<1>13. queue'[p] = b
  BY <1>1, <1>5
<1>14. UNCHANGED <<logs, acked, dropped, torn, nextId, task, snaps>>
  BY DEF RestoreLog
<1>15. LogMove
  <2>1. CASE b = <<>>
    <3>1. queue' = queue
      BY <1>1, <1>2, <1>5, <2>1
    <3>. QED BY <3>1, <1>14 DEF LogMove, logVars
  <2>2. CASE b # <<>>
    <3>1. Begin(p, queue'[p])
      BY <1>2, <1>5, <1>13, <1>14, <2>2 DEF Begin
    <3>. QED BY <3>1, <1>12, <1>13 DEF LogMove
  <2>. QED BY <2>1, <2>2
<1>16. ASSUME NEW i \in 1 .. Len(b)
       PROVE  b[i].kind = k /\ b[i].rec \in M /\ b[i] \in W
  <2>1. b[i] \in W
    BY <1>11
  <2>. QED BY <1>8, <2>1
<1>17. ASSUME NEW r \in M PROVE \E i \in 1 .. Len(b) : b[i].rec = r
  <2>1. PICK i \in 1 .. Len(b) : b[i] = [kind |-> k, rec |-> r]
    BY <1>9, <1>11
  <2>. QED BY <2>1
<1>18. ASSUME NEW i \in 1 .. Len(b), NEW l \in 1 .. Len(b), b[i].rec = b[l].rec PROVE i = l
  <2>1. b[i] = b[l]
    BY <1>10, <1>16, <1>18
  <2>. QED BY <1>11, <2>1
<1>. QED BY <1>2, <1>5, <1>12, <1>13, <1>14, <1>15, <1>16, <1>17, <1>18 DEF k, M
----------------------------------------------------------------------------
(* The steps of the engine, by what they do to the logs.                   *)

\* A step that leaves the logs and the queues as they are.
Quiet(p) ==
    \/ \E t \in Tasks : SetTask(p, t)
    \/ \E forced \in BOOLEAN : SnapBegin(p, forced)
    \/ Check(p) \/ Number(p) \/ Collect(p) \/ Mkdir(p) \/ Publish(p)
    \/ \E n \in Snaps : RestoreBegin(p, n)
    \/ RestoreTask(p)
    \/ \E n \in 0 .. Len(CutOrder) : HandoffBegin(p, n)
    \/ Gather(p)
    \/ \E script \in Transcripts : HookBegin(p, script)
    \/ CaptureKnown(p) \/ CaptureEnd(p) \/ Finish(p)

\* A command that appends one record.
Single(p) ==
    \/ \E k \in Kinds \ {"surfacings"}, s \in Stmts : Remember(p, k, s)
    \/ "decisions" \in Kinds /\ \E s \in Stmts, old \in 1 .. MaxId : Supersede(p, old, s)
    \/ "failures" \in Kinds /\ \E f \in Failures(Parsed(logs["failures"])) : Resolve(p, f)

\* Next, by what a step does to the logs.
LEMMA NextSplit ==
  Next => \/ \E p \in Procs :
               \/ Quiet(p) \/ Single(p) \/ Surface(p) \/ CaptureNew(p) \/ RestoreLog(p)
               \/ Kill(p) \/ AppendNext(p) \/ \E cut \in Cuts : Tear(p, cut)
          \/ \E k \in Kinds, i \in 1 .. MaxLines : Mend(k, i)
BY Zenon DEF Next, Quiet, Single

\* Quiet steps are quiet.
LEMMA QuietLogs ==
  ASSUME NEW p \in Procs, Quiet(p)
  PROVE  /\ UNCHANGED logVars
         /\ nextId' = nextId
BY DEF Quiet, SetTask, SnapBegin, Check, Number, Collect, Mkdir, Publish, RestoreBegin, RestoreTask,
       HandoffBegin, Gather, HookBegin, CaptureKnown, CaptureEnd, Finish, engineVars

\* What a single write hands over.
LEMMA SingleRecord ==
  ASSUME EngineInv, NEW p \in Procs, Single(p)
  PROVE  \E k \in Kinds \ {"surfacings"}, r \in Records :
            /\ r.id = nextId
            /\ k = "decisions" => ~r.closed
            /\ Begin(p, <<[kind |-> k, rec |-> r]>>)
            /\ nextId <= MaxId /\ nextId' = nextId + 1
            /\ UNCHANGED <<task, snaps, job>>
            /\ Idle(p) /\ \A q \in Procs : OneWriter => Idle(q)
<1>1. ASSUME NEW k \in Kinds \ {"surfacings"}, NEW s \in Stmts, Remember(p, k, s)
      PROVE  \E r \in Records :
            /\ r.id = nextId
            /\ k = "decisions" => ~r.closed
            /\ Begin(p, <<[kind |-> k, rec |-> r]>>)
            /\ nextId <= MaxId /\ nextId' = nextId + 1
            /\ UNCHANGED <<task, snaps, job>>
            /\ Idle(p) /\ \A q \in Procs : OneWriter => Idle(q)
  BY <1>1, RememberRecord
<1>2. ASSUME "decisions" \in Kinds, NEW s \in Stmts, NEW old \in 1 .. MaxId, Supersede(p, old, s)
      PROVE  \E r \in Records :
            /\ r.id = nextId /\ ~r.closed
            /\ Begin(p, <<[kind |-> "decisions", rec |-> r]>>)
            /\ nextId <= MaxId /\ nextId' = nextId + 1
            /\ UNCHANGED <<task, snaps, job>>
            /\ Idle(p) /\ \A q \in Procs : OneWriter => Idle(q)
  <2>. DEFINE r == [Fresh(s) EXCEPT !.link = old]
  <2>1. /\ r \in Records /\ r.id = nextId /\ ~r.closed
        /\ Begin(p, <<[kind |-> "decisions", rec |-> r]>>)
        /\ nextId <= MaxId /\ nextId' = nextId + 1
        /\ UNCHANGED <<task, snaps, job>>
        /\ Idle(p) /\ \A q \in Procs : OneWriter => Idle(q)
    BY <1>2, SupersedeRecord
  <2>. HIDE DEF r
  <2>. QED BY <2>1
<1>3. ASSUME "failures" \in Kinds, NEW f \in Failures(Parsed(logs["failures"])), Resolve(p, f)
      PROVE  \E r \in Records :
            /\ r.id = nextId
            /\ Begin(p, <<[kind |-> "failures", rec |-> r]>>)
            /\ nextId <= MaxId /\ nextId' = nextId + 1
            /\ UNCHANGED <<task, snaps, job>>
            /\ Idle(p) /\ \A q \in Procs : OneWriter => Idle(q)
  <2>. DEFINE r == [Fresh(f.stmt) EXCEPT !.link = f.id, !.closed = TRUE]
  <2>1. /\ r \in Records /\ r.id = nextId
        /\ Begin(p, <<[kind |-> "failures", rec |-> r]>>)
        /\ nextId <= MaxId /\ nextId' = nextId + 1
        /\ UNCHANGED <<task, snaps, job>>
        /\ Idle(p) /\ \A q \in Procs : OneWriter => Idle(q)
    BY <1>3, ResolveRecord
  <2>. HIDE DEF r
  <2>. QED BY <2>1
<1>. QED BY <1>1, <1>2, <1>3 DEF Single

\* Every step of the engine is a step of the logs.
LEMMA EngineLogStep == EngineInv /\ [Next]_vars => LogMove
<1>. SUFFICES ASSUME EngineInv, [Next]_vars PROVE LogMove
  OBVIOUS
<1>0. LogTypeOK
  BY DEF EngineInv, LogInv
<1>1. ASSUME NEW p \in Procs, Quiet(p) PROVE LogMove
  BY <1>1, QuietLogs DEF LogMove
<1>2. ASSUME NEW p \in Procs, Single(p) PROVE LogMove
  BY <1>0, <1>2, SingleRecord, BatchOfOne
<1>3. ASSUME NEW p \in Procs, Surface(p) PROVE LogMove
  BY <1>0, <1>3, SurfaceRecord, BatchOfOne
<1>4. ASSUME NEW p \in Procs, CaptureNew(p) PROVE LogMove
  BY <1>0, <1>4, CaptureRecord, BatchOfOne
<1>5. ASSUME NEW p \in Procs, RestoreLog(p) PROVE LogMove
  BY <1>5, RestoreBatch
<1>6. ASSUME NEW p \in Procs, Kill(p) PROVE LogMove
  <2>1. queue' = [queue EXCEPT ![p] = <<>>] /\ UNCHANGED <<logs, acked, dropped, torn>>
    BY <1>6 DEF Kill
  <2>2. CASE queue[p] = <<>>
    BY <1>0, <2>1, <2>2 DEF LogMove, logVars, LogTypeOK
  <2>3. CASE queue[p] # <<>>
    BY <2>1, <2>3 DEF LogMove, Abandon
  <2>. QED BY <2>2, <2>3
<1>7. ASSUME NEW p \in Procs, AppendNext(p) PROVE LogMove
  BY <1>7 DEF LogMove, AppendNext
<1>8. ASSUME NEW p \in Procs, NEW cut \in Cuts, Tear(p, cut) PROVE LogMove
  BY <1>8 DEF LogMove, Tear
<1>9. ASSUME NEW k \in Kinds, NEW i \in 1 .. MaxLines, Mend(k, i) PROVE LogMove
  BY <1>9 DEF LogMove, Mend
<1>10. CASE UNCHANGED vars
  BY <1>10 DEF LogMove, vars
<1>. QED BY <1>1, <1>2, <1>3, <1>4, <1>5, <1>6, <1>7, <1>8, <1>9, <1>10, NextSplit

\* A step of the logs is what ImplementsLog says, and a step of AppendLog.
LEMMA LogMoveSteps ==
  LogMove => /\ [ \/ \E p \in Procs : \/ Begin(p, queue'[p]) \/ AppendRecord(p) \/ Abandon(p)
                                      \/ \E cut \in Cuts : TearAppend(p, cut)
                  \/ \E k \in Kinds, i \in 1 .. MaxLines : DeleteLine(k, i) ]_logVars
             /\ [LogNext]_logVars
<1>. SUFFICES ASSUME LogMove
              PROVE  /\ [ \/ \E p \in Procs : \/ Begin(p, queue'[p]) \/ AppendRecord(p) \/ Abandon(p)
                                              \/ \E cut \in Cuts : TearAppend(p, cut)
                          \/ \E k \in Kinds, i \in 1 .. MaxLines : DeleteLine(k, i) ]_logVars
                     /\ [LogNext]_logVars
  OBVIOUS
<1>1. MaxLines \in Nat
  BY BoundsAssumption
<1>. QED BY <1>1 DEF LogMove, LogNext

\* An append, a torn one, or a line deleted by hand keep the files finite.
LEMMA FilesStayFinite ==
  ASSUME LogTypeOK, FilesFinite, LogMove
  PROVE  FilesFinite'
<1>1. ASSUME NEW p \in Procs, queue[p] # <<>>, NEW text, NEW cut \in Texts, NEW ended \in BOOLEAN,
             text = LineText(Head(queue[p]).rec, cut),
             logs' = [logs EXCEPT ![Head(queue[p]).kind] = Put(@, Head(queue[p]).rec, text, ended)]
      PROVE  FilesFinite'
  <2>. DEFINE w == Head(queue[p])
              new == Put(logs[w.kind], w.rec, text, ended)
  <2>1. w \in Write
    BY <1>1 DEF LogTypeOK
  <2>2. w.kind \in Kinds /\ w.rec \in Records /\ logs[w.kind] \in Seq(Line) /\ text \in Texts
    BY <1>1, <2>1, LineTextType DEF Write, LogTypeOK
  <2>3. Written(new) \subseteq Written(logs[w.kind]) \cup {w.rec}
    BY <1>1, <2>2, PutBounds
  <2>4. IsFiniteSet(Written(logs[w.kind]) \cup {w.rec})
    BY <2>2, FS_AddElement DEF FilesFinite
  <2>. HIDE DEF new
  <2>5. IsFiniteSet(Written(new))
    BY <2>3, <2>4, FS_Subset
  <2>6. \A k \in Kinds : logs'[k] = IF k = w.kind THEN new ELSE logs[k]
    BY <1>1 DEF LogTypeOK, new
  <2>. HIDE DEF w
  <2>. QED BY <2>5, <2>6 DEF FilesFinite
<1>2. ASSUME NEW p \in Procs, AppendRecord(p) PROVE FilesFinite'
  <2>1. queue[p] # <<>> /\ "json" \in Texts
    BY <1>2 DEF AppendRecord, Texts
  <2>2. logs' = [logs EXCEPT ![Head(queue[p]).kind] =
            Put(@, Head(queue[p]).rec, LineText(Head(queue[p]).rec, "json"), TRUE)]
    BY <1>2 DEF AppendRecord, PutWhole
  <2>. QED BY <1>1, <2>1, <2>2
<1>3. ASSUME NEW p \in Procs, NEW cut \in Cuts, TearAppend(p, cut) PROVE FilesFinite'
  <2>1. queue[p] # <<>> /\ cut \in Texts
    BY <1>3, CutsAssumption DEF TearAppend
  <2>2. logs' = [logs EXCEPT ![Head(queue[p]).kind] =
            Put(@, Head(queue[p]).rec, LineText(Head(queue[p]).rec, cut), FALSE)]
    BY <1>3 DEF TearAppend, PutPrefix
  <2>. QED BY <1>1, <2>1, <2>2
<1>4. ASSUME NEW k \in Kinds, NEW i, DeleteLine(k, i) PROVE FilesFinite'
  <2>. DEFINE new == Without(logs[k], i)
  <2>1. i \in 1 .. Len(logs[k]) /\ logs[k] \in Seq(Line) /\ logs[k][i].text # "json"
    BY <1>4 DEF DeleteLine, LogTypeOK
  <2>2. Written(new) \subseteq Written(logs[k])
    BY <2>1, WithoutBounds
  <2>3. IsFiniteSet(Written(new))
    BY <2>2, FS_Subset DEF FilesFinite
  <2>. HIDE DEF new
  <2>4. \A j \in Kinds : logs'[j] = IF j = k THEN new ELSE logs[j]
    BY <1>4 DEF LogTypeOK, DeleteLine, new
  <2>. QED BY <2>3, <2>4 DEF FilesFinite
<1>5. CASE UNCHANGED logs
  BY <1>5 DEF FilesFinite
<1>6. ASSUME NEW p \in Procs, Begin(p, queue'[p]) \/ Abandon(p) PROVE UNCHANGED logs
  BY <1>6 DEF Begin, Abandon
<1>. QED BY <1>2, <1>3, <1>4, <1>5, <1>6 DEF LogMove, logVars
----------------------------------------------------------------------------
(* The invariant holds.                                                    *)

\* What a quiet step does to the snapshots: nothing, a directory, or all of one.
LEMMA SnapsMove ==
  ASSUME EngineInv, NEW p \in Procs, Quiet(p)
  PROVE  \/ UNCHANGED snaps
         \/ /\ job[p].op \in {"snapshot", "hook"} /\ job[p].step = "mkdir"
            /\ job[p].num \in Snaps
            /\ snaps' = [snaps EXCEPT ![job[p].num].dir = TRUE]
         \/ /\ job[p].op \in {"snapshot", "hook"} /\ job[p].step = "publish"
            /\ job[p].num \in Snaps
            /\ snaps' = [snaps EXCEPT ![job[p].num] =
                    [dir |-> TRUE, full |-> TRUE, forced |-> job[p].forced,
                     task |-> job[p].task, view |-> job[p].got]]
<1>. USE DEF EngineInv, LogInv
<1>1. CASE Mkdir(p)
  BY <1>1, MkdirJob DEF Mkdir
<1>2. CASE Publish(p)
  BY <1>2, PublishJob DEF Publish
<1>3. CASE ~Mkdir(p) /\ ~Publish(p)
  BY <1>3 DEF Quiet, SetTask, SnapBegin, Check, Number, Collect, RestoreBegin, RestoreTask,
              HandoffBegin, Gather, HookBegin, CaptureKnown, CaptureEnd, Finish
<1>. QED BY <1>1, <1>2, <1>3

\* It keeps them snapshots.
LEMMA SnapsStay ==
  ASSUME EngineInv, NEW p \in Procs, Quiet(p)
  PROVE  SnapsOK'
<1>. DEFINE n == job[p].num
<1>1. snaps \in [Snaps -> Snapshot] /\ \A m \in Snaps, k \in Kinds : IsFiniteSet(snaps[m].view[k])
  BY DEF EngineInv, SnapsOK
<1>2. CASE UNCHANGED snaps
  BY <1>1, <1>2 DEF SnapsOK
<1>3. ASSUME n \in Snaps, snaps' = [snaps EXCEPT ![n].dir = TRUE]
      PROVE  SnapsOK'
  <2>1. \A m \in Snaps : snaps'[m] = IF m = n THEN [snaps[n] EXCEPT !.dir = TRUE] ELSE snaps[m]
    BY <1>1, <1>3
  <2>2. [snaps[n] EXCEPT !.dir = TRUE] \in Snapshot
        /\ [snaps[n] EXCEPT !.dir = TRUE].view = snaps[n].view
    BY <1>1, <1>3 DEF Snapshot
  <2>3. snaps' \in [Snaps -> Snapshot]
    BY <1>1, <1>3, <2>2
  <2>. QED BY <1>1, <2>1, <2>2, <2>3 DEF SnapsOK
<1>4. ASSUME n \in Snaps,
             snaps' = [snaps EXCEPT ![n] =
                    [dir |-> TRUE, full |-> TRUE, forced |-> job[p].forced,
                     task |-> job[p].task, view |-> job[p].got]]
      PROVE  SnapsOK'
  <2>. DEFINE new == [dir |-> TRUE, full |-> TRUE, forced |-> job[p].forced,
                      task |-> job[p].task, view |-> job[p].got]
  <2>1. job[p] \in Job /\ \A k \in Kinds : IsFiniteSet(job[p].got[k])
    BY DEF EngineInv, JobsOK, JobOK
  <2>2. new \in Snapshot /\ new.view = job[p].got
    BY <2>1 DEF Snapshot, Job
  <2>. HIDE DEF new
  <2>3. snaps' = [snaps EXCEPT ![n] = new]
    BY <1>4 DEF new
  <2>4. snaps' \in [Snaps -> Snapshot] /\ \A m \in Snaps : snaps'[m] = IF m = n THEN new ELSE snaps[m]
    BY <1>1, <2>2, <2>3
  <2>. QED BY <1>1, <2>1, <2>2, <2>4 DEF SnapsOK
<1>. QED BY <1>2, <1>3, <1>4, SnapsMove

\* The task is a task.
LEMMA TaskStays ==
  ASSUME EngineInv, NEW p \in Procs, Quiet(p)
  PROVE  task' \in Tasks \cup {NoTask}
<1>1. CASE RestoreTask(p)
  <2>1. job[p].task \in Tasks \cup {NoTask}
    BY DEF EngineInv, JobsOK, Job
  <2>. QED BY <1>1, <2>1 DEF RestoreTask, EngineInv
<1>2. CASE ~RestoreTask(p)
  BY <1>2 DEF Quiet, SetTask, SnapBegin, Check, Number, Collect, Mkdir, Publish, RestoreBegin,
              HandoffBegin, Gather, HookBegin, CaptureKnown, CaptureEnd, Finish, EngineInv
<1>. QED BY <1>1, <1>2

\* And a job stays a job.
LEMMA QuietJobs ==
  ASSUME EngineInv, NEW p \in Procs, Quiet(p)
  PROVE  JobsOK'
<1>0. /\ LogTypeOK /\ JobsOK /\ \A k \in Kinds : IsFiniteSet(Written(logs[k]))
      /\ task \in Tasks \cup {NoTask} /\ nextId \in 1 .. MaxId + 1
  BY DEF EngineInv, LogInv, FilesFinite
<1>1. snaps \in [Snaps -> [dir: BOOLEAN, full: BOOLEAN, forced: BOOLEAN,
                    task: Tasks \cup {NoTask}, view: [Kinds -> SUBSET Records]]]
  BY DEF EngineInv, SnapsOK, Snapshot
<1>2. ASSUME NEW t, SetTask(p, t) PROVE JobsOK'
  BY <1>0, <1>2 DEF SetTask, JobsOK
<1>3. ASSUME NEW forced \in BOOLEAN, SnapBegin(p, forced) PROVE JobsOK'
  BY <1>0, <1>3, SnapBeginJob, JobsStep
<1>4. CASE Check(p)
  BY <1>0, <1>4, CheckJob, JobsStep
<1>5. CASE Number(p)
  BY <1>0, <1>1, <1>5, NumberJob, JobsStep
<1>6. CASE Collect(p)
  BY <1>0, <1>6, CollectJob, JobsStep
<1>7. CASE Mkdir(p)
  BY <1>0, <1>7, MkdirJob, JobsStep
<1>8. CASE Publish(p)
  BY <1>0, <1>8, PublishJob, JobsStep
<1>9. ASSUME NEW n \in Snaps, RestoreBegin(p, n) PROVE JobsOK'
  <2>1. snaps[n].task \in Tasks \cup {NoTask} /\ snaps[n].view \in [Kinds -> SUBSET Records]
        /\ \A k \in Kinds : IsFiniteSet(snaps[n].view[k])
    BY <1>1 DEF EngineInv, SnapsOK
  <2>. QED BY <1>0, <1>9, <2>1, RestoreBeginJob, JobsStep
<1>10. CASE RestoreTask(p)
  BY <1>0, <1>10, RestoreTaskJob, JobsStep
<1>11. ASSUME NEW n, HandoffBegin(p, n) PROVE JobsOK'
  BY <1>0, <1>11, HandoffBeginJob, JobsStep
<1>12. CASE Gather(p)
  BY <1>0, <1>12, GatherJob, JobsStep
<1>13. ASSUME NEW script \in Transcripts, HookBegin(p, script) PROVE JobsOK'
  BY <1>0, <1>13, HookBeginJob, JobsStep
<1>14. CASE CaptureKnown(p)
  BY <1>0, <1>14, CaptureKnownJob, JobsStep
<1>15. CASE CaptureEnd(p)
  BY <1>0, <1>15, CaptureEndJob, JobsStep
<1>16. CASE Finish(p)
  BY <1>0, <1>16, EndJob, JobsStep
<1>. QED BY <1>2, <1>3, <1>4, <1>5, <1>6, <1>7, <1>8, <1>9, <1>10, <1>11, <1>12, <1>13, <1>14,
            <1>15, <1>16 DEF Quiet

\* The jobs of the other steps.
LEMMA OtherJobs ==
  ASSUME EngineInv, NEW p \in Procs
  PROVE  /\ Single(p) => UNCHANGED job
         /\ Surface(p) \/ CaptureNew(p) \/ RestoreLog(p) \/ Kill(p) => JobsOK'
         /\ \A cut \in Cuts : Tear(p, cut) => JobsOK'
         /\ AppendNext(p) => UNCHANGED <<nextId, task, snaps, job>>
         /\ \A cut \in Cuts : Tear(p, cut) => UNCHANGED <<nextId, task, snaps>>
         /\ Kill(p) => UNCHANGED <<nextId, task, snaps>>
<1>0. LogTypeOK /\ JobsOK /\ nextId \in 1 .. MaxId + 1
  BY DEF EngineInv, LogInv
<1>1. Single(p) => UNCHANGED job
  BY SingleRecord
<1>2. Surface(p) => JobsOK'
  BY <1>0, SurfaceJob, JobsStep
<1>3. CaptureNew(p) => JobsOK'
  BY <1>0, CaptureNewJob, JobsStep
<1>4. RestoreLog(p) => JobsOK'
  BY <1>0, RestoreLogJob, JobsStep
<1>5. Kill(p) => JobsOK'
  BY <1>0, EndJob, JobsStep
<1>6. \A cut \in Cuts : Tear(p, cut) => JobsOK'
  BY <1>0, TearJob
<1>7. AppendNext(p) => UNCHANGED <<nextId, task, snaps, job>>
  BY DEF AppendNext, engineVars
<1>8. \A cut \in Cuts : Tear(p, cut) => UNCHANGED <<nextId, task, snaps>>
  BY DEF Tear
<1>9. Kill(p) => UNCHANGED <<nextId, task, snaps>>
  BY DEF Kill
<1>. QED BY <1>1, <1>2, <1>3, <1>4, <1>5, <1>6, <1>7, <1>8, <1>9

\* The initial states, and every step.
LEMMA EngineInit == Init => EngineInv
<1>. SUFFICES ASSUME Init PROVE EngineInv
  OBVIOUS
<1>1. LogInv
  BY LogInitInv DEF Init
<1>2. FilesFinite
  <2>1. \A k \in Kinds : Written(logs[k]) = {}
    BY DEF Init, LogInit, Written, LinesOf
  <2>. QED BY <2>1, FS_EmptySet DEF FilesFinite
<1>3. nextId \in 1 .. MaxId + 1 /\ task \in Tasks \cup {NoTask}
  BY KindsAssumption DEF Init
<1>4. SnapsOK
  <2>1. NoSnap \in Snapshot /\ NoSnap.view = NoView
    BY DEF NoSnap, NoView, Snapshot
  <2>. QED BY <2>1, FS_EmptySet DEF SnapsOK, Init, NoView
<1>5. JobsOK
  BY NoJobFacts DEF Init, JobsOK, JobOK
<1>. QED BY <1>1, <1>2, <1>3, <1>4, <1>5 DEF EngineInv

\* Ids only go up, one at a time.
LEMMA IdsMove ==
  EngineInv /\ [Next]_vars => nextId' = nextId \/ (nextId <= MaxId /\ nextId' = nextId + 1)
<1>. SUFFICES ASSUME EngineInv, [Next]_vars
              PROVE  nextId' = nextId \/ (nextId <= MaxId /\ nextId' = nextId + 1)
  OBVIOUS
<1>1. ASSUME NEW p \in Procs, Quiet(p) \/ Single(p) \/ Surface(p) \/ CaptureNew(p) \/ RestoreLog(p)
      PROVE  nextId' = nextId \/ (nextId <= MaxId /\ nextId' = nextId + 1)
  BY <1>1, QuietLogs, SingleRecord, SurfaceRecord, CaptureRecord, RestoreBatch
<1>2. ASSUME NEW p \in Procs, Kill(p) \/ AppendNext(p) \/ \E cut \in Cuts : Tear(p, cut)
      PROVE  nextId' = nextId
  BY <1>2, OtherJobs
<1>3. ASSUME NEW k, NEW i, Mend(k, i) PROVE nextId' = nextId
  BY <1>3 DEF Mend, engineVars
<1>4. CASE UNCHANGED vars
  BY <1>4 DEF vars, engineVars
<1>. QED BY <1>1, <1>2, <1>3, <1>4, NextSplit

\* Every step keeps the types.
LEMMA EngineNext == EngineInv /\ [Next]_vars => EngineInv'
<1>. SUFFICES ASSUME EngineInv, [Next]_vars PROVE EngineInv'
  OBVIOUS
<1>1. LogMove
  BY EngineLogStep
<1>2. LogInv'
  BY <1>1, LogMoveSteps, LogNextInv DEF EngineInv
<1>3. FilesFinite'
  BY <1>1, FilesStayFinite DEF EngineInv, LogInv
<1>4. nextId' = nextId \/ (nextId <= MaxId /\ nextId' = nextId + 1)
  BY IdsMove
<1>5. nextId' \in 1 .. MaxId + 1
  <2>1. nextId \in 1 .. MaxId + 1 /\ MaxId \in Nat
    BY KindsAssumption DEF EngineInv
  <2>. QED BY <1>4, <2>1
<1>6. task' \in Tasks \cup {NoTask} /\ SnapsOK' /\ JobsOK'
  <2>0. task \in Tasks \cup {NoTask} /\ SnapsOK /\ JobsOK
    BY DEF EngineInv
  <2>1. ASSUME UNCHANGED <<task, snaps>> PROVE task' \in Tasks \cup {NoTask} /\ SnapsOK'
    BY <2>0, <2>1 DEF SnapsOK
  <2>2. ASSUME UNCHANGED job PROVE JobsOK'
    BY <2>0, <2>2 DEF JobsOK
  <2>3. ASSUME NEW p \in Procs, Quiet(p) PROVE task' \in Tasks \cup {NoTask} /\ SnapsOK' /\ JobsOK'
    BY <2>3, QuietJobs, SnapsStay, TaskStays
  <2>4. ASSUME NEW p \in Procs, Single(p) PROVE UNCHANGED <<task, snaps, job>>
    BY <2>4, SingleRecord
  <2>5. ASSUME NEW p \in Procs, Surface(p) \/ CaptureNew(p) \/ RestoreLog(p)
        PROVE  UNCHANGED <<task, snaps>> /\ JobsOK'
    BY <2>5, OtherJobs, SurfaceRecord, CaptureRecord, RestoreBatch
  <2>6. ASSUME NEW p \in Procs, Kill(p) \/ \E cut \in Cuts : Tear(p, cut)
        PROVE  UNCHANGED <<task, snaps>> /\ JobsOK'
    BY <2>6, OtherJobs
  <2>7. ASSUME NEW p \in Procs, AppendNext(p) PROVE UNCHANGED <<task, snaps, job>>
    BY <2>7, OtherJobs
  <2>8. ASSUME NEW k, NEW i, Mend(k, i) PROVE UNCHANGED <<task, snaps, job>>
    BY <2>8 DEF Mend, engineVars
  <2>9. CASE UNCHANGED vars
    BY <2>1, <2>2, <2>9 DEF vars, engineVars
  <2>. QED BY <2>1, <2>2, <2>3, <2>4, <2>5, <2>6, <2>7, <2>8, <2>9, NextSplit
<1>. QED BY <1>2, <1>3, <1>5, <1>6 DEF EngineInv

\* The invariant of the engine.
LEMMA EngineInvariant == Spec => []EngineInv
<1>. QED BY EngineInit, EngineNext, PTL DEF Spec

\* Whatever operations run, and however they are interrupted, every variable
\* keeps its type: numbers of snapshots stay in range, and a job is always at
\* a step its operation has.
THEOREM EngineTypeCorrect == Spec => []TypeOK
<1>1. EngineInv => TypeOK
  BY DEF EngineInv, LogInv, SnapsOK, Snapshot, JobsOK, TypeOK
<1>. QED BY <1>1, EngineInvariant, PTL

\* The engine does to the logs what AppendLog allows, and nothing else: the
\* theorems about the logs hold of it.
THEOREM LogIsImplemented == Spec => ImplementsLog
<1>. DEFINE A == \/ \E p \in Procs : \/ Begin(p, queue'[p]) \/ AppendRecord(p) \/ Abandon(p)
                                      \/ \E cut \in Cuts : TearAppend(p, cut)
                 \/ \E k \in Kinds, i \in 1 .. MaxLines : DeleteLine(k, i)
<1>1. EngineInv /\ [Next]_vars => [A]_logVars
  BY EngineLogStep, LogMoveSteps
<1>2. Spec => [][A]_logVars
  <2>. HIDE DEF A
  <2>. QED BY <1>1, EngineInvariant, PTL DEF Spec
<1>. QED BY <1>2 DEF ImplementsLog

\* The engine implements the abstract record logs: every remember, supersede,
\* resolve, surfacing, capture and restore hands over its records as AppendLog
\* allows, and nothing else in the engine touches a file.
THEOREM EngineRefinesLog == Spec => LogSpec
<1>1. Init => LogInit
  BY DEF Init
<1>2. EngineInv /\ [Next]_vars => [LogNext]_logVars
  BY EngineLogStep, LogMoveSteps
<1>. QED BY <1>1, <1>2, EngineInvariant, PTL DEF Spec, LogSpec

\* So what AppendLog_proofs proves of the logs holds while the engine runs: no
\* acknowledged record loses its bytes, no loss goes unreported, no line with a
\* newline is ever changed.
THEOREM EngineKeepsHistory == Spec => []AckedRetained /\ []LossIsReported /\ HistoryIsFixed
BY EngineRefinesLog, AckedAreRetained, LossesAreReported, HistoryStaysFixed, PTL
----------------------------------------------------------------------------
(* A step seen from one process, and from the files.                       *)

\* A step of process p.
Moves(p) ==
    \/ Quiet(p) \/ Single(p) \/ Surface(p) \/ CaptureNew(p) \/ RestoreLog(p)
    \/ Kill(p) \/ AppendNext(p) \/ \E cut \in Cuts : Tear(p, cut)

\* The job of p is where it was; at most it is no longer sound.
KeptJob(p) ==
    /\ job'[p].op = job[p].op /\ job'[p].step = job[p].step /\ job'[p].at = job[p].at
    /\ job'[p].bad = job[p].bad /\ job'[p].num = job[p].num
    /\ job'[p].forced = job[p].forced /\ job'[p].task = job[p].task
    /\ job'[p].cut = job[p].cut /\ job'[p].got = job[p].got
    /\ job'[p].script = job[p].script /\ job'[p].known = job[p].known
    /\ job'[p].sound => job[p].sound
    /\ job[p] = NoJob => job'[p] = NoJob

\* A quiet step is of the job of its own process.
LEMMA QuietFrame ==
  ASSUME EngineInv, NEW q \in Procs, Quiet(q)
  PROVE  job' = [job EXCEPT ![q] = job'[q]] /\ UNCHANGED queue
<1>0. /\ LogTypeOK /\ JobsOK /\ \A k \in Kinds : IsFiniteSet(Written(logs[k]))
      /\ task \in Tasks \cup {NoTask} /\ nextId \in 1 .. MaxId + 1
  BY DEF EngineInv, LogInv, FilesFinite
<1>1. job \in [Procs -> Job]
  BY <1>0 DEF JobsOK
<1>. DEFINE F == job' = [job EXCEPT ![q] = job'[q]]
<1>. SUFFICES F
  BY QuietLogs DEF logVars
<1>2. ASSUME NEW v, job' = [job EXCEPT ![q] = v] PROVE F
  BY <1>1, <1>2
<1>3. ASSUME NEW t, SetTask(q, t) PROVE F
  BY <1>1, <1>3 DEF SetTask
<1>4. ASSUME NEW forced, SnapBegin(q, forced) PROVE F
  BY <1>2, <1>4 DEF SnapBegin
<1>5. CASE Check(q)
  BY <1>0, <1>5, CheckJob
<1>6. CASE Number(q)
  <2>1. snaps \in [Snaps -> [dir: BOOLEAN, full: BOOLEAN, forced: BOOLEAN,
                    task: Tasks \cup {NoTask}, view: [Kinds -> SUBSET Records]]]
    BY DEF EngineInv, SnapsOK, Snapshot
  <2>. QED BY <1>0, <1>6, <2>1, NumberJob
<1>7. CASE Collect(q)
  BY <1>0, <1>7, CollectJob
<1>8. CASE Mkdir(q)
  BY <1>0, <1>8, MkdirJob
<1>9. CASE Publish(q)
  BY <1>0, <1>9, PublishJob
<1>10. ASSUME NEW n, RestoreBegin(q, n) PROVE F
  BY <1>2, <1>10 DEF RestoreBegin
<1>11. CASE RestoreTask(q)
  BY <1>0, <1>11, RestoreTaskJob
<1>12. ASSUME NEW n, HandoffBegin(q, n) PROVE F
  BY <1>2, <1>12 DEF HandoffBegin
<1>13. CASE Gather(q)
  BY <1>0, <1>13, GatherJob
<1>14. ASSUME NEW script, HookBegin(q, script) PROVE F
  BY <1>2, <1>14 DEF HookBegin
<1>15. CASE CaptureKnown(q)
  BY <1>0, <1>15, CaptureKnownJob
<1>16. CASE CaptureEnd(q)
  BY <1>0, <1>16, CaptureEndJob
<1>17. CASE Finish(q)
  BY <1>0, <1>17, EndJob
<1>. QED BY <1>3, <1>4, <1>5, <1>6, <1>7, <1>8, <1>9, <1>10, <1>11, <1>12, <1>13, <1>14, <1>15,
            <1>16, <1>17 DEF Quiet

\* A process leaves the jobs and the queues of the others alone.
LEMMA Frame ==
  ASSUME EngineInv, NEW q \in Procs, Moves(q), NEW p \in Procs \ {q}
  PROVE  KeptJob(p) /\ queue'[p] = queue[p]
<1>0. /\ LogTypeOK /\ JobsOK /\ nextId \in 1 .. MaxId + 1
      /\ job \in [Procs -> Job] /\ queue \in [Procs -> Seq(Write)]
  BY DEF EngineInv, LogInv, JobsOK, LogTypeOK
<1>1. ASSUME UNCHANGED job \/ job' = [job EXCEPT ![q] = job'[q]] PROVE KeptJob(p)
  <2>1. job'[p] = job[p]
    BY <1>0, <1>1
  <2>. QED BY <2>1 DEF KeptJob
<1>2. ASSUME UNCHANGED queue \/ \E v : queue' = [queue EXCEPT ![q] = v] PROVE queue'[p] = queue[p]
  BY <1>0, <1>2
<1>3. CASE Quiet(q)
  BY <1>1, <1>2, <1>3, QuietFrame
<1>4. CASE Single(q)
  <2>1. UNCHANGED job /\ \E v : queue' = [queue EXCEPT ![q] = v]
    BY <1>4, SingleRecord DEF Begin
  <2>. QED BY <1>1, <1>2, <2>1
<1>5. CASE Surface(q)
  <2>1. job' = [job EXCEPT ![q] = job'[q]] /\ \E v : queue' = [queue EXCEPT ![q] = v]
    BY <1>0, <1>5, SurfaceJob DEF Surface, Begin
  <2>. QED BY <1>1, <1>2, <2>1
<1>6. CASE CaptureNew(q)
  <2>1. job' = [job EXCEPT ![q] = job'[q]] /\ \E v : queue' = [queue EXCEPT ![q] = v]
    BY <1>0, <1>6, CaptureNewJob DEF CaptureNew, Begin
  <2>. QED BY <1>1, <1>2, <2>1
<1>7. CASE RestoreLog(q)
  <2>1. job' = [job EXCEPT ![q] = job'[q]] /\ \E v : queue' = [queue EXCEPT ![q] = v]
    BY <1>0, <1>7, RestoreLogJob DEF RestoreLog
  <2>. QED BY <1>1, <1>2, <2>1
<1>8. CASE Kill(q)
  <2>1. job' = [job EXCEPT ![q] = job'[q]] /\ \E v : queue' = [queue EXCEPT ![q] = v]
    BY <1>0, <1>8, EndJob DEF Kill
  <2>. QED BY <1>1, <1>2, <2>1
<1>9. CASE AppendNext(q)
  <2>1. UNCHANGED job /\ \E v : queue' = [queue EXCEPT ![q] = v]
    BY <1>9 DEF AppendNext, AppendRecord, engineVars
  <2>. QED BY <1>1, <1>2, <2>1
<1>10. ASSUME NEW cut, Tear(q, cut) PROVE KeptJob(p) /\ queue'[p] = queue[p]
  <2>1. \E v : queue' = [queue EXCEPT ![q] = v]
    BY <1>10 DEF Tear, TearAppend
  <2>2. /\ job'[p].op = job[p].op /\ job'[p].step = job[p].step /\ job'[p].at = job[p].at
        /\ job'[p].bad = job[p].bad /\ job'[p].num = job[p].num
        /\ job'[p].forced = job[p].forced /\ job'[p].task = job[p].task
        /\ job'[p].cut = job[p].cut /\ job'[p].got = job[p].got
        /\ job'[p].script = job[p].script /\ job'[p].known = job[p].known
        /\ job[p] = NoJob => job'[p] = NoJob
        /\ job'[p].sound = FALSE
    BY <1>0, <1>10, TearJob
  <2>. QED BY <1>2, <2>1, <2>2 DEF KeptJob
<1>. QED BY <1>3, <1>4, <1>5, <1>6, <1>7, <1>8, <1>9, <1>10 DEF Moves

\* So every step is one of process p or leaves its job alone.
LEMMA OwnOrKept ==
  ASSUME EngineInv, [Next]_vars, NEW p \in Procs
  PROVE  Moves(p) \/ (KeptJob(p) /\ queue'[p] = queue[p])
<1>1. ASSUME UNCHANGED <<job, queue>> PROVE KeptJob(p) /\ queue'[p] = queue[p]
  BY <1>1 DEF KeptJob
<1>2. ASSUME NEW k, NEW i, Mend(k, i) PROVE KeptJob(p) /\ queue'[p] = queue[p]
  BY <1>1, <1>2 DEF Mend, DeleteLine, engineVars
<1>3. CASE UNCHANGED vars
  BY <1>1, <1>3 DEF vars, logVars, engineVars
<1>4. ASSUME NEW q \in Procs, Moves(q) PROVE Moves(p) \/ (KeptJob(p) /\ queue'[p] = queue[p])
  BY <1>4, Frame
<1>. QED BY <1>2, <1>3, <1>4, NextSplit DEF Moves

\* The head of p's queue reaches its file, whole or in part.
Puts(p, cut, ended) ==
    LET w == Head(queue[p]) IN
    /\ queue[p] # <<>> /\ w \in Write
    /\ logs' = [logs EXCEPT ![w.kind] = Put(@, w.rec, LineText(w.rec, cut), ended)]
    /\ acked' = IF ended THEN [acked EXCEPT ![w.kind] = @ \cup {w.rec}] ELSE acked
    /\ UNCHANGED dropped

\* An append that completes puts a whole line.
LEMMA AppendPuts ==
  ASSUME EngineInv, NEW p \in Procs, AppendNext(p)
  PROVE  /\ Puts(p, "json", TRUE)
         /\ queue' = [queue EXCEPT ![p] = Tail(@)]
         /\ UNCHANGED <<nextId, task, snaps, job, dropped>>
<1>1. queue[p] \in Seq(Write) /\ queue[p] # <<>>
  BY DEF EngineInv, LogInv, LogTypeOK, AppendNext, AppendRecord
<1>2. Head(queue[p]) \in Write
  BY <1>1
<1>. QED BY <1>1, <1>2 DEF AppendNext, AppendRecord, Puts, PutWhole, engineVars

\* An append that is killed puts a part of one.
LEMMA TearPuts ==
  ASSUME EngineInv, NEW p \in Procs, NEW cut \in Cuts, Tear(p, cut)
  PROVE  /\ Puts(p, cut, FALSE) /\ cut \in Texts
         /\ queue' = [queue EXCEPT ![p] = <<>>]
         /\ UNCHANGED <<nextId, task, snaps, dropped>>
<1>1. queue[p] \in Seq(Write) /\ queue[p] # <<>>
  BY DEF EngineInv, LogInv, LogTypeOK, Tear, TearAppend
<1>2. Head(queue[p]) \in Write /\ cut \in Texts
  BY <1>1, CutsAssumption
<1>. QED BY <1>1, <1>2 DEF Tear, TearAppend, Puts, PutPrefix

\* Every step leaves the files alone, appends to one, tears an append or is a
\* deletion by hand, while nothing runs.
LEMMA FileMoves ==
  ASSUME EngineInv, [Next]_vars
  PROVE  \/ UNCHANGED <<logs, acked, dropped>>
         \/ \E p \in Procs : Puts(p, "json", TRUE) /\ AppendNext(p)
         \/ \E p \in Procs : \E cut \in Cuts : cut \in Texts /\ Puts(p, cut, FALSE) /\ Tear(p, cut)
         \/ \E k \in Kinds : \E i \in 1 .. MaxLines :
                DeleteLine(k, i) /\ (\A p \in Procs : Idle(p)) /\ UNCHANGED engineVars
<1>1. ASSUME NEW p \in Procs,
             Quiet(p) \/ Single(p) \/ Surface(p) \/ CaptureNew(p) \/ RestoreLog(p) \/ Kill(p)
      PROVE  UNCHANGED <<logs, acked, dropped>>
  <2>1. CASE Quiet(p)
    BY <2>1, QuietLogs DEF logVars
  <2>2. CASE Single(p)
    BY <2>2, SingleRecord DEF Begin
  <2>3. CASE Surface(p) \/ CaptureNew(p) \/ RestoreLog(p) \/ Kill(p)
    BY <2>3 DEF Surface, CaptureNew, RestoreLog, Kill, Begin
  <2>. QED BY <1>1, <2>1, <2>2, <2>3
<1>2. ASSUME NEW p \in Procs, AppendNext(p) PROVE Puts(p, "json", TRUE)
  BY <1>2, AppendPuts
<1>3. ASSUME NEW p \in Procs, NEW cut \in Cuts, Tear(p, cut) PROVE cut \in Texts /\ Puts(p, cut, FALSE)
  BY <1>3, TearPuts
<1>4. CASE UNCHANGED vars
  BY <1>4 DEF vars, logVars
<1>. QED BY <1>1, <1>2, <1>3, <1>4, NextSplit DEF Mend

\* What an append writes: the first line of the batch, to the file it is for.
LEMMA PutsWrites ==
  ASSUME EngineInv, NEW p \in Procs, NEW cut \in Texts, NEW ended \in BOOLEAN, Puts(p, cut, ended)
  PROVE  /\ Head(queue[p]).kind \in Kinds /\ Head(queue[p]).rec \in Records
         /\ Head(queue[p]) = queue[p][1] /\ 1 \in 1 .. Len(queue[p])
         /\ \A k \in Kinds \ {Head(queue[p]).kind} : logs'[k] = logs[k]
         /\ logs'[Head(queue[p]).kind] =
               Put(logs[Head(queue[p]).kind], Head(queue[p]).rec, LineText(Head(queue[p]).rec, cut), ended)
<1>1. queue[p] \in Seq(Write) /\ queue[p] # <<>> /\ logs \in [Kinds -> Seq(Line)]
  BY DEF EngineInv, LogInv, LogTypeOK, Puts
<1>2. Head(queue[p]) \in Write /\ Head(queue[p]) = queue[p][1] /\ 1 \in 1 .. Len(queue[p])
  BY <1>1
<1>3. Head(queue[p]).kind \in Kinds /\ Head(queue[p]).rec \in Records
  BY <1>2 DEF Write
<1>. QED BY <1>1, <1>2, <1>3 DEF Puts

\* What an append does to each file.
LEMMA PutsFacts ==
  ASSUME EngineInv, NEW p \in Procs, NEW cut \in Texts, NEW ended \in BOOLEAN, Puts(p, cut, ended)
  PROVE  LET w == Head(queue[p]) IN
         /\ w.kind \in Kinds /\ w.rec \in Records /\ w = queue[p][1] /\ 1 \in 1 .. Len(queue[p])
         /\ \A k \in Kinds \ {w.kind} : logs'[k] = logs[k] /\ acked'[k] = acked[k]
         /\ logs'[w.kind] = Put(logs[w.kind], w.rec, LineText(w.rec, cut), ended)
         /\ LineText(w.rec, cut) \in Texts
         /\ acked'[w.kind] = IF ended THEN acked[w.kind] \cup {w.rec} ELSE acked[w.kind]
         /\ \A k \in Kinds : /\ logs[k] \in Seq(Line) /\ logs'[k] \in Seq(Line)
                             /\ Written(logs[k]) \subseteq Written(logs'[k])
                             /\ Len(logs'[k]) >= Len(logs[k])
                             /\ \A i \in 1 .. Len(logs[k]) :
                                  logs[k][i].ended => logs'[k][i] = logs[k][i]
<1>0. LogTypeOK /\ queue[p] \in Seq(Write) /\ queue[p] # <<>> /\ Head(queue[p]) \in Write
      /\ logs \in [Kinds -> Seq(Line)] /\ acked \in [Kinds -> SUBSET Records]
  BY DEF EngineInv, LogInv, LogTypeOK, Puts
<1>1. Head(queue[p]).kind \in Kinds /\ Head(queue[p]).rec \in Records
  BY <1>0 DEF Write
<1>2. Head(queue[p]) = queue[p][1] /\ 1 \in 1 .. Len(queue[p])
  BY <1>0
<1>3. /\ logs' \in [Kinds -> Seq(Line)]
      /\ \A k \in Kinds : /\ Written(logs[k]) \subseteq Written(logs'[k])
                          /\ Len(logs'[k]) >= Len(logs[k])
                          /\ \A i \in 1 .. Len(logs[k]) :
                               logs[k][i].ended => logs'[k][i] = logs[k][i]
  BY <1>0, PutStep DEF Puts
<1>4. LineText(Head(queue[p]).rec, cut) \in Texts
  BY LineTextType
<1>5. /\ \A k \in Kinds \ {Head(queue[p]).kind} : logs'[k] = logs[k]
      /\ logs'[Head(queue[p]).kind] =
            Put(logs[Head(queue[p]).kind], Head(queue[p]).rec, LineText(Head(queue[p]).rec, cut), ended)
  BY <1>0, <1>1 DEF Puts
<1>6. /\ \A k \in Kinds \ {Head(queue[p]).kind} : acked'[k] = acked[k]
      /\ acked'[Head(queue[p]).kind] =
            IF ended THEN acked[Head(queue[p]).kind] \cup {Head(queue[p]).rec} ELSE acked[Head(queue[p]).kind]
  BY <1>0, <1>1 DEF Puts
<1>. QED BY <1>0, <1>1, <1>2, <1>3, <1>4, <1>5, <1>6

\* The files only grow while something runs.
LogGrows ==
    /\ UNCHANGED dropped
    /\ \A k \in Kinds :
        /\ logs[k] \in Seq(Line) /\ logs'[k] \in Seq(Line)
        /\ Written(logs[k]) \subseteq Written(logs'[k])
        /\ acked[k] \subseteq acked'[k]
        /\ Len(logs'[k]) >= Len(logs[k])
        /\ \A i \in 1 .. Len(logs[k]) : logs[k][i].ended => logs'[k][i] = logs[k][i]

\* An append only adds: complete lines stay as they are.
LEMMA PutsGrows ==
  ASSUME EngineInv, NEW p \in Procs, NEW cut \in Texts, NEW ended \in BOOLEAN, Puts(p, cut, ended)
  PROVE  LogGrows
<1>1. \A k \in Kinds : acked[k] \subseteq acked'[k]
  BY PutsFacts
<1>2. UNCHANGED dropped
  BY DEF Puts
<1>. QED BY <1>1, <1>2, PutsFacts DEF LogGrows

\* So does a step that leaves the files alone.
LEMMA SameGrows ==
  ASSUME EngineInv, UNCHANGED <<logs, acked, dropped>>
  PROVE  LogGrows
<1>1. \A k \in Kinds : logs[k] \in Seq(Line) /\ Len(logs[k]) \in Nat
  BY DEF EngineInv, LogInv, LogTypeOK
<1>. QED BY <1>1 DEF LogGrows

\* While p is in an operation nobody mends the files by hand.
LEMMA Running ==
  ASSUME EngineInv, [Next]_vars, NEW p \in Procs, ~Idle(p)
  PROVE  LogGrows
<1>1. "json" \in Texts /\ TRUE \in BOOLEAN /\ FALSE \in BOOLEAN
  BY DEF Texts
<1>. QED BY <1>1, FileMoves, PutsGrows, SameGrows

\* A line that is not the one deleted is still there.
LEMMA WithoutLines ==
  ASSUME NEW log \in Seq(Line), NEW i \in 1 .. Len(log)
  PROVE  LET new == Without(log, i) IN
         /\ new \in Seq(Line) /\ Len(new) = Len(log) - 1
         /\ \A j \in 1 .. Len(log) : j # i => \E l \in 1 .. Len(new) : new[l] = log[j]
         /\ \A l \in 1 .. Len(new) : \E j \in 1 .. Len(log) : new[l] = log[j]
         /\ \A l, m \in 1 .. Len(new) : l # m =>
               \E j, h \in 1 .. Len(log) : j # h /\ new[l] = log[j] /\ new[m] = log[h]
<1>. DEFINE new == Without(log, i)
            f(l) == IF l < i THEN l ELSE l + 1
<1>1. new \in Seq(Line) /\ Len(new) = Len(log) - 1 /\ Len(log) \in Nat /\ i \in Nat
  BY WithoutFacts
<1>2. \A l \in 1 .. Len(log) - 1 : new[l] = log[f(l)] /\ f(l) \in 1 .. Len(log)
  BY <1>1 DEF Without
<1>3. ASSUME NEW j \in 1 .. Len(log), j # i PROVE \E l \in 1 .. Len(log) - 1 : f(l) = j
  <2>1. CASE j < i
    <3>1. j \in 1 .. Len(log) - 1 /\ f(j) = j
      BY <1>1, <2>1
    <3>. QED BY <3>1
  <2>2. CASE j > i
    <3>1. j - 1 \in 1 .. Len(log) - 1 /\ f(j - 1) = j
      BY <1>1, <2>2
    <3>. QED BY <3>1
  <2>. QED BY <1>1, <1>3, <2>1, <2>2
<1>4. \A l, m \in 1 .. Len(log) - 1 : l # m => f(l) # f(m)
  BY <1>1
<1>. HIDE DEF new, f
<1>5. ASSUME NEW j \in 1 .. Len(log), j # i PROVE \E l \in 1 .. Len(new) : new[l] = log[j]
  <2>1. PICK l \in 1 .. Len(log) - 1 : f(l) = j
    BY <1>3, <1>5
  <2>. QED BY <1>1, <1>2, <2>1
<1>6. ASSUME NEW l \in 1 .. Len(new), NEW m \in 1 .. Len(new), l # m
      PROVE  \E j, h \in 1 .. Len(log) : j # h /\ new[l] = log[j] /\ new[m] = log[h]
  <2>1. /\ f(l) \in 1 .. Len(log) /\ new[l] = log[f(l)]
        /\ f(m) \in 1 .. Len(log) /\ new[m] = log[f(m)] /\ f(l) # f(m)
    BY <1>1, <1>2, <1>4, <1>6
  <2>. QED BY <2>1
<1>7. \A l \in 1 .. Len(new) : \E j \in 1 .. Len(log) : new[l] = log[j]
  BY <1>1, <1>2
<1>. QED BY <1>1, <1>5, <1>6, <1>7 DEF new

\* Mending a file.
LEMMA DeleteFacts ==
  ASSUME EngineInv, NEW k \in Kinds, NEW i, DeleteLine(k, i)
  PROVE  /\ i \in 1 .. Len(logs[k]) /\ logs[k][i].text # "json"
         /\ logs'[k] = Without(logs[k], i) /\ logs[k] \in Seq(Line)
         /\ dropped'[k] = dropped[k] \cup logs[k][i].recs
         /\ \A h \in Kinds \ {k} : logs'[h] = logs[h] /\ dropped'[h] = dropped[h]
         /\ UNCHANGED <<queue, acked>>
BY DEF EngineInv, LogInv, LogTypeOK, DeleteLine

\* The record appended is on the last line.
LEMMA PutLastLine ==
  ASSUME NEW log \in Seq(Line), NEW r \in Records, NEW text \in Texts, NEW ended \in BOOLEAN
  PROVE  LET new == Put(log, r, text, ended) IN
         /\ new \in Seq(Line) /\ Len(new) \in Nat \ {0}
         /\ new[Len(new)].ended = ended /\ r \in new[Len(new)].recs
<1>. DEFINE new == Put(log, r, text, ended)
            n == Len(new)
<1>1. /\ new \in Seq(Line) /\ n \in 1 .. Len(log) + 1 /\ new[n].ended = ended
      /\ ~Open(log) => new[n].recs = {r}
      /\ Open(log) => new[n].recs = log[n].recs \cup {r}
  BY PutLines
<1>. HIDE DEF n, new
<1>2. n \in Nat \ {0} /\ r \in new[n].recs
  BY <1>1
<1>. QED BY <1>1, <1>2 DEF n, new

\* A record whose append returned is on a line that has its newline.
AckedEnded ==
    \A k \in Kinds : \A r \in acked[k] \ dropped[k] :
        \E i \in 1 .. Len(logs[k]) : logs[k][i].ended /\ r \in logs[k][i].recs

\* A complete line never changes, and an append that returns has written one.
LEMMA AckedEndedNext == EngineInv /\ AckedEnded /\ [Next]_vars => AckedEnded'
<1>. SUFFICES ASSUME EngineInv, AckedEnded, [Next]_vars,
                     NEW k \in Kinds, NEW r \in acked'[k], r \notin dropped'[k]
              PROVE  \E i \in 1 .. Len(logs'[k]) : logs'[k][i].ended /\ r \in logs'[k][i].recs
  BY DEF AckedEnded
<1>1. ASSUME r \in acked[k], LogGrows
      PROVE  \E i \in 1 .. Len(logs'[k]) : logs'[k][i].ended /\ r \in logs'[k][i].recs
  <2>1. /\ dropped'[k] = dropped[k] /\ logs[k] \in Seq(Line) /\ logs'[k] \in Seq(Line)
        /\ Len(logs'[k]) >= Len(logs[k])
        /\ \A i \in 1 .. Len(logs[k]) : logs[k][i].ended => logs'[k][i] = logs[k][i]
    BY <1>1 DEF LogGrows
  <2>2. PICK i \in 1 .. Len(logs[k]) : logs[k][i].ended /\ r \in logs[k][i].recs
    BY <1>1, <2>1 DEF AckedEnded
  <2>3. logs'[k][i] = logs[k][i] /\ i \in 1 .. Len(logs'[k])
    BY <2>1, <2>2
  <2>. QED BY <2>2, <2>3
<1>2. CASE UNCHANGED <<logs, acked, dropped>>
  BY <1>1, <1>2, SameGrows
<1>3. ASSUME NEW p \in Procs, Puts(p, "json", TRUE)
      PROVE  \E i \in 1 .. Len(logs'[k]) : logs'[k][i].ended /\ r \in logs'[k][i].recs
  <2>0. "json" \in Texts
    BY DEF Texts
  <2>1. CASE r \in acked[k]
    BY <1>1, <1>3, <2>0, <2>1, PutsGrows
  <2>2. CASE r \notin acked[k]
    <3>. DEFINE w == Head(queue[p])
                text == LineText(r, "json")
                new == Put(logs[k], r, text, TRUE)
    <3>a. /\ w.kind \in Kinds /\ \A l \in Kinds \ {w.kind} : acked'[l] = acked[l]
          /\ acked'[w.kind] = acked[w.kind] \cup {w.rec}
      BY ONLY EngineInv, <1>3, <2>0, PutsFacts
    <3>0. w.kind = k /\ w.rec = r
      BY ONLY <2>2, <3>a, k \in Kinds, r \in acked'[k]
    <3>1. /\ r \in Records /\ logs[k] \in Seq(Line)
          /\ logs'[k] = new /\ text \in Texts
      BY <1>3, <2>0, <3>0, PutsFacts
    <3>. HIDE DEF text
    <3>2. new[Len(new)].ended = TRUE /\ r \in new[Len(new)].recs /\ Len(new) \in Nat \ {0}
      BY <3>1, PutLastLine
    <3>. HIDE DEF new
    <3>3. Len(new) \in 1 .. Len(new)
      BY <3>2
    <3>. QED BY <3>1, <3>2, <3>3
  <2>. QED BY <2>1, <2>2
<1>4. ASSUME NEW p \in Procs, NEW cut \in Texts, Puts(p, cut, FALSE)
      PROVE  \E i \in 1 .. Len(logs'[k]) : logs'[k][i].ended /\ r \in logs'[k][i].recs
  BY <1>1, <1>4, PutsGrows DEF Puts
<1>5. ASSUME NEW h \in Kinds, NEW i, DeleteLine(h, i)
      PROVE  \E l \in 1 .. Len(logs'[k]) : logs'[k][l].ended /\ r \in logs'[k][l].recs
  <2>1. r \in acked[k] /\ r \notin dropped[k]
    BY <1>5, DeleteFacts
  <2>2. PICK j \in 1 .. Len(logs[k]) : logs[k][j].ended /\ r \in logs[k][j].recs
    BY <2>1 DEF AckedEnded
  <2>3. CASE h # k
    BY <1>5, <2>2, <2>3, DeleteFacts
  <2>4. CASE h = k
    <3>1. i \in 1 .. Len(logs[k]) /\ logs'[k] = Without(logs[k], i) /\ logs[k] \in Seq(Line)
          /\ r \notin logs[k][i].recs
      BY <1>5, <2>4, DeleteFacts
    <3>2. j # i
      BY <2>2, <3>1
    <3>. DEFINE log == logs[k]
                new == Without(log, i)
    <3>3. log \in Seq(Line) /\ i \in 1 .. Len(log) /\ j \in 1 .. Len(log) /\ j # i
      BY <3>1, <3>2
    <3>. HIDE DEF log
    <3>4. PICK l \in 1 .. Len(new) : new[l] = log[j]
      BY <3>3, WithoutLines
    <3>. QED BY <2>2, <3>1, <3>4 DEF log
  <2>. QED BY <2>3, <2>4
<1>. QED BY <1>2, <1>3, <1>4, <1>5, FileMoves

\* So it always holds.
LEMMA AckedEndedInvariant == Spec => []AckedEnded
<1>1. Init => AckedEnded
  BY DEF Init, LogInit, AckedEnded
<1>. QED BY <1>1, AckedEndedNext, EngineInvariant, PTL DEF Spec
----------------------------------------------------------------------------
(* Where records come from.                                                *)

\* What a job has read of a kind changes in one of these ways.
LEMMA GotMoves ==
  ASSUME EngineInv, [Next]_vars, NEW p \in Procs, NEW k \in Kinds
  PROVE  \/ job'[p].got[k] = job[p].got[k]
         \/ job'[p].got[k] = {}
         \/ \E n \in Snaps : RestoreBegin(p, n) /\ job'[p].got[k] = snaps[n].view[k]
         \/ k # "surfacings" /\ (job'[p].got[k] = Read(k) \/ job'[p].got[k] = Shown(k))
         \/ /\ k = "discoveries" /\ CaptureNew(p)
            /\ \E s \in Stmts : job'[p].got[k] = job[p].got[k] \cup {Fresh(s)}
<1>. DEFINE Goal == \/ job'[p].got[k] = job[p].got[k]
                    \/ job'[p].got[k] = {}
                    \/ \E n \in Snaps : RestoreBegin(p, n) /\ job'[p].got[k] = snaps[n].view[k]
                    \/ k # "surfacings" /\ (job'[p].got[k] = Read(k) \/ job'[p].got[k] = Shown(k))
                    \/ /\ k = "discoveries" /\ CaptureNew(p)
                       /\ \E s \in Stmts : job'[p].got[k] = job[p].got[k] \cup {Fresh(s)}
<1>. SUFFICES Goal
  OBVIOUS
<1>0. /\ LogTypeOK /\ JobsOK /\ \A h \in Kinds : IsFiniteSet(Written(logs[h]))
      /\ task \in Tasks \cup {NoTask} /\ nextId \in 1 .. MaxId + 1
      /\ job[p].got \in [Kinds -> SUBSET Records]
  BY DEF EngineInv, LogInv, FilesFinite, JobsOK, JobOK, Job
<1>00. NoView \in [Kinds -> SUBSET Records] /\ NoView[k] = {}
  BY DEF NoView
<1>1. ASSUME KeptJob(p) PROVE Goal
  BY <1>1 DEF KeptJob
<1>2. ASSUME job'[p] = NoJob PROVE Goal
  BY <1>00, <1>2 DEF NoJob
<1>3. ASSUME job'[p].got = job[p].got PROVE Goal
  BY <1>3
<1>4. ASSUME job'[p].got = NoView PROVE Goal
  BY <1>00, <1>4
<1>5. ASSUME NEW h \in Kinds \ {"surfacings"}, NEW v,
             job'[p].got = [job[p].got EXCEPT ![h] = v], v = Read(h) \/ v = Shown(h) \/ v = {}
      PROVE  Goal
  <2>1. job'[p].got[k] = IF k = h THEN v ELSE job[p].got[k]
    BY <1>0, <1>5
  <2>. QED BY <1>5, <2>1
<1>6. CASE Quiet(p)
  <2>1. ASSUME NEW t, SetTask(p, t) PROVE Goal
    BY <1>3, <2>1 DEF SetTask
  <2>2. ASSUME NEW forced \in BOOLEAN, SnapBegin(p, forced) PROVE Goal
    BY <1>0, <1>4, <2>2, SnapBeginJob
  <2>3. CASE Check(p)
    BY <1>0, <1>3, <2>3, CheckJob
  <2>4. CASE Number(p)
    <3>1. snaps \in [Snaps -> [dir: BOOLEAN, full: BOOLEAN, forced: BOOLEAN,
                      task: Tasks \cup {NoTask}, view: [Kinds -> SUBSET Records]]]
      BY DEF EngineInv, SnapsOK, Snapshot
    <3>. QED BY <1>0, <1>4, <2>4, <3>1, NumberJob
  <2>5. CASE Collect(p)
    <3>. DEFINE h == Restored[job[p].at]
    <3>1. h \in Kinds \ {"surfacings"} /\ job'[p].got = [job[p].got EXCEPT ![h] = Read(h)]
      BY <1>0, <2>5, CollectJob
    <3>. HIDE DEF h
    <3>. QED BY <1>5, <3>1
  <2>6. CASE Mkdir(p)
    BY <1>0, <1>3, <2>6, MkdirJob
  <2>7. CASE Publish(p)
    BY <1>0, <1>2, <1>3, <2>7, PublishJob
  <2>8. ASSUME NEW n \in Snaps, RestoreBegin(p, n) PROVE Goal
    <3>1. /\ snaps[n].task \in Tasks \cup {NoTask} /\ snaps[n].view \in [Kinds -> SUBSET Records]
          /\ \A h \in Kinds : IsFiniteSet(snaps[n].view[h])
      BY DEF EngineInv, SnapsOK, Snapshot
    <3>2. job'[p].got = snaps[n].view
      BY <1>0, <2>8, <3>1, RestoreBeginJob
    <3>. QED BY <2>8, <3>2
  <2>9. CASE RestoreTask(p)
    BY <1>0, <1>3, <2>9, RestoreTaskJob
  <2>10. ASSUME NEW n, HandoffBegin(p, n) PROVE Goal
    BY <1>0, <1>4, <2>10, HandoffBeginJob
  <2>11. CASE Gather(p)
    <3>. DEFINE h == HandoffKinds[job[p].at]
                v == IF h \in job[p].cut THEN {} ELSE Shown(h)
    <3>1. h \in Kinds \ {"surfacings"} /\ job'[p].got = [job[p].got EXCEPT ![h] = v]
      BY <1>0, <2>11, GatherJob
    <3>2. v = Shown(h) \/ v = {}
      OBVIOUS
    <3>. HIDE DEF v, h
    <3>. QED BY <1>5, <3>1, <3>2
  <2>12. ASSUME NEW script \in Transcripts, HookBegin(p, script) PROVE Goal
    <3>1. /\ job'[p].got = [NoView EXCEPT !["discoveries"] = Parsed(logs["discoveries"])]
          /\ "discoveries" \in Kinds
      BY <1>0, <2>12, HookBeginJob
    <3>2. job'[p].got[k] = IF k = "discoveries" THEN Parsed(logs[k]) ELSE {}
      BY <1>00, <3>1
    <3>3. k = "discoveries" => Parsed(logs[k]) = Read(k)
      BY DEF Read, View
    <3>. QED BY <3>2, <3>3
  <2>13. CASE CaptureKnown(p)
    BY <1>0, <1>3, <2>13, CaptureKnownJob
  <2>14. CASE CaptureEnd(p)
    BY <1>0, <1>3, <2>14, CaptureEndJob
  <2>15. CASE Finish(p)
    BY <1>0, <1>2, <2>15, EndJob
  <2>. QED BY <1>6, <2>1, <2>2, <2>3, <2>4, <2>5, <2>6, <2>7, <2>8, <2>9, <2>10, <2>11, <2>12, <2>13,
              <2>14, <2>15 DEF Quiet
<1>7. CASE Single(p)
  BY <1>3, <1>7, SingleRecord
<1>8. CASE Surface(p)
  BY <1>0, <1>3, <1>8, SurfaceJob
<1>9. CASE CaptureNew(p)
  <2>. DEFINE s == job[p].script[job[p].at]
              f == Fresh(s)
  <2>1. /\ s \in Stmts /\ job'[p].got = [job[p].got EXCEPT !["discoveries"] = @ \cup {f}]
        /\ "discoveries" \in Kinds
    BY <1>0, <1>9, CaptureNewJob
  <2>. HIDE DEF f
  <2>2. job'[p].got[k] = IF k = "discoveries" THEN job[p].got[k] \cup {f} ELSE job[p].got[k]
    BY <1>0, <2>1
  <2>. QED BY <1>9, <2>1, <2>2 DEF f
<1>10. CASE RestoreLog(p)
  BY <1>0, <1>3, <1>10, RestoreLogJob
<1>11. CASE Kill(p)
  BY <1>0, <1>2, <1>11, EndJob
<1>12. CASE AppendNext(p)
  BY <1>3, <1>12, AppendPuts
<1>13. ASSUME NEW cut \in Cuts, Tear(p, cut) PROVE Goal
  BY <1>0, <1>2, <1>13, TearJob
<1>. QED BY <1>1, <1>6, <1>7, <1>8, <1>9, <1>10, <1>11, <1>12, <1>13, OwnOrKept DEF Moves

\* So does a queue,
LEMMA QueueMoves ==
  ASSUME EngineInv, [Next]_vars, NEW p \in Procs
  PROVE  \/ queue'[p] = queue[p]
         \/ queue'[p] = <<>>
         \/ AppendNext(p) /\ queue'[p] = Tail(queue[p])
         \/ \E k \in Kinds, r \in Records :
               /\ queue'[p] = <<[kind |-> k, rec |-> r]>> /\ queue[p] = <<>>
               /\ r.id = nextId /\ nextId' = nextId + 1
               /\ k = "decisions" => ~r.closed
               /\ UNCHANGED <<logs, acked, dropped>>
         \/ RestoreLog(p)
<1>. DEFINE One(k, r) == /\ queue'[p] = <<[kind |-> k, rec |-> r]>> /\ queue[p] = <<>>
                         /\ r.id = nextId /\ nextId' = nextId + 1
                         /\ k = "decisions" => ~r.closed
                         /\ UNCHANGED <<logs, acked, dropped>>
<1>0. LogTypeOK /\ queue \in [Procs -> Seq(Write)]
  BY DEF EngineInv, LogInv, LogTypeOK
<1>1. ASSUME NEW k \in Kinds, NEW r \in Records, Begin(p, <<[kind |-> k, rec |-> r]>>),
             r.id = nextId, nextId' = nextId + 1, k = "decisions" => ~r.closed
      PROVE  One(k, r)
  <2>1. queue'[p] = <<[kind |-> k, rec |-> r]>> /\ UNCHANGED <<logs, acked, dropped>>
    BY <1>0, <1>1, BatchOfOne
  <2>. QED BY <1>1, <2>1 DEF Begin
<1>2. CASE Quiet(p)
  BY <1>2, QuietLogs DEF logVars
<1>3. CASE Single(p)
  <2>1. \E k \in Kinds, r \in Records : One(k, r)
    BY <1>1, <1>3, SingleRecord
  <2>. QED BY <2>1
<1>4. CASE Surface(p)
  <2>. DEFINE f == Fresh("surfacing")
  <2>1. /\ f \in Records /\ f.id = nextId /\ Begin(p, <<[kind |-> "surfacings", rec |-> f]>>)
        /\ nextId' = nextId + 1 /\ "surfacings" \in Kinds
    BY <1>4, SurfaceRecord
  <2>. HIDE DEF f
  <2>2. One("surfacings", f)
    BY <1>1, <2>1
  <2>. QED BY <2>1, <2>2
<1>5. CASE CaptureNew(p)
  <2>. DEFINE f == Fresh(job[p].script[job[p].at])
  <2>1. /\ f \in Records /\ f.id = nextId /\ Begin(p, <<[kind |-> "discoveries", rec |-> f]>>)
        /\ nextId' = nextId + 1 /\ "discoveries" \in Kinds
    BY <1>5, CaptureRecord
  <2>. HIDE DEF f
  <2>2. One("discoveries", f)
    BY <1>1, <2>1
  <2>. QED BY <2>1, <2>2
<1>6. CASE Kill(p)
  BY <1>0, <1>6 DEF Kill
<1>7. CASE AppendNext(p)
  BY <1>0, <1>7, AppendPuts
<1>8. ASSUME NEW cut \in Cuts, Tear(p, cut) PROVE queue'[p] = <<>>
  BY <1>0, <1>8, TearPuts
<1>. QED BY <1>2, <1>3, <1>4, <1>5, <1>6, <1>7, <1>8, OwnOrKept DEF Moves

\* and what a snapshot holds.
LEMMA ViewMoves ==
  ASSUME EngineInv, [Next]_vars, NEW n \in Snaps
  PROVE  \/ snaps'[n].view = snaps[n].view
         \/ \E p \in Procs : job[p].step = "publish" /\ job[p].op \in {"snapshot", "hook"}
                             /\ snaps'[n].view = job[p].got
<1>0. snaps \in [Snaps -> Snapshot]
  BY DEF EngineInv, SnapsOK
<1>1. ASSUME UNCHANGED snaps PROVE snaps'[n].view = snaps[n].view
  BY <1>1
<1>2. ASSUME NEW p \in Procs, Quiet(p)
      PROVE  \/ snaps'[n].view = snaps[n].view
             \/ job[p].step = "publish" /\ job[p].op \in {"snapshot", "hook"} /\ snaps'[n].view = job[p].got
  <2>1. ASSUME NEW m \in Snaps, snaps' = [snaps EXCEPT ![m].dir = TRUE]
        PROVE  snaps'[n].view = snaps[n].view
    BY <1>0, <2>1 DEF Snapshot
  <2>2. ASSUME NEW m \in Snaps, NEW f, NEW t, NEW g,
               snaps' = [snaps EXCEPT ![m] = [dir |-> TRUE, full |-> TRUE, forced |-> f, task |-> t, view |-> g]]
        PROVE  snaps'[n].view = snaps[n].view \/ snaps'[n].view = g
    BY <1>0, <2>2
  <2>3. CASE UNCHANGED snaps
    BY <2>3
  <2>4. CASE job[p].num \in Snaps /\ snaps' = [snaps EXCEPT ![job[p].num].dir = TRUE]
    BY <2>1, <2>4
  <2>5. CASE /\ job[p].op \in {"snapshot", "hook"} /\ job[p].step = "publish"
             /\ job[p].num \in Snaps
             /\ snaps' = [snaps EXCEPT ![job[p].num] =
                    [dir |-> TRUE, full |-> TRUE, forced |-> job[p].forced,
                     task |-> job[p].task, view |-> job[p].got]]
    BY <2>2, <2>5
  <2>. QED BY <1>2, <2>3, <2>4, <2>5, SnapsMove
<1>3. ASSUME NEW p \in Procs,
             Single(p) \/ Surface(p) \/ CaptureNew(p) \/ RestoreLog(p) \/ Kill(p) \/ AppendNext(p)
             \/ \E cut \in Cuts : Tear(p, cut)
      PROVE  UNCHANGED snaps
  BY <1>3, OtherJobs, SingleRecord, SurfaceRecord, CaptureRecord, RestoreBatch
<1>4. ASSUME NEW k, NEW i, Mend(k, i) PROVE UNCHANGED snaps
  BY <1>4 DEF Mend, engineVars
<1>5. CASE UNCHANGED vars
  BY <1>1, <1>5 DEF vars, engineVars
<1>. QED BY <1>1, <1>2, <1>3, <1>4, <1>5, NextSplit

\* One file, seen from an append.
LEMMA PutsOne ==
  ASSUME EngineInv, NEW p \in Procs, NEW cut \in Texts, NEW ended \in BOOLEAN, Puts(p, cut, ended),
         NEW k \in Kinds
  PROVE  \/ logs'[k] = logs[k]
         \/ \E r \in Records : \E text \in Texts :
              /\ 1 \in 1 .. Len(queue[p]) /\ queue[p][1].kind = k /\ queue[p][1].rec = r
              /\ text = LineText(r, cut)
              /\ logs'[k] = Put(logs[k], r, text, ended)
<1>. DEFINE w == Head(queue[p])
<1>0. /\ w.rec \in Records /\ w = queue[p][1] /\ 1 \in 1 .. Len(queue[p])
      /\ LineText(w.rec, cut) \in Texts
      /\ \A l \in Kinds \ {w.kind} : logs'[l] = logs[l]
      /\ logs'[w.kind] = Put(logs[w.kind], w.rec, LineText(w.rec, cut), ended)
  <2>1. w.rec \in Records /\ w = queue[p][1] /\ 1 \in 1 .. Len(queue[p])
    BY ONLY EngineInv, Puts(p, cut, ended), PutsWrites
  <2>2. LineText(w.rec, cut) \in Texts
    BY LineTextType
  <2>3. \A l \in Kinds \ {w.kind} : logs'[l] = logs[l]
    BY ONLY EngineInv, Puts(p, cut, ended), PutsWrites
  <2>4. logs'[w.kind] = Put(logs[w.kind], w.rec, LineText(w.rec, cut), ended)
    BY ONLY EngineInv, Puts(p, cut, ended), PutsWrites
  <2>. QED BY ONLY <2>1, <2>2, <2>3, <2>4
<1>1. CASE k # w.kind
  BY <1>0, <1>1
<1>2. CASE k = w.kind
  <2>1. logs'[w.kind] = Put(logs[w.kind], w.rec, LineText(w.rec, cut), ended)
    BY <1>0
  <2>2. w.rec \in Records
    BY <1>0
  <2>3. LineText(w.rec, cut) \in Texts
    BY <1>0
  <2>4. w = queue[p][1] /\ 1 \in 1 .. Len(queue[p])
    BY <1>0
  <2>. HIDE DEF w
  <2>. QED BY <1>2, <2>1, <2>2, <2>3, <2>4
<1>. QED BY <1>1, <1>2

\* The types, one variable at a time.
LEMMA EngineTypes ==
  ASSUME EngineInv
  PROVE  /\ nextId \in Nat
         /\ \A k \in Kinds : logs[k] \in Seq(Line)
         /\ \A p \in Procs, k \in Kinds : job[p].got[k] \in SUBSET Records
         /\ \A n \in Snaps, k \in Kinds : snaps[n].view[k] \in SUBSET Records
         /\ \A p \in Procs : queue[p] \in Seq(Write)
<1>1. nextId \in Nat
  BY KindsAssumption DEF EngineInv
<1>2. \A k \in Kinds : logs[k] \in Seq(Line)
  BY DEF EngineInv, LogInv, LogTypeOK
<1>3. \A p \in Procs : queue[p] \in Seq(Write)
  BY DEF EngineInv, LogInv, LogTypeOK
<1>4. \A p \in Procs : job[p].got \in [Kinds -> SUBSET Records]
  BY DEF EngineInv, JobsOK, Job
<1>5. \A n \in Snaps : snaps[n].view \in [Kinds -> SUBSET Records]
  BY DEF EngineInv, SnapsOK, Snapshot
<1>6. \A p \in Procs, k \in Kinds : job[p].got[k] \in SUBSET Records
  BY <1>4
<1>7. \A n \in Snaps, k \in Kinds : snaps[n].view[k] \in SUBSET Records
  BY <1>5
<1>. QED BY <1>1, <1>2, <1>3, <1>6, <1>7

\* Records of a kind whose ids are below n; no decision is recorded closed.
Good(k, R, n) == \A r \in R : r.id < n /\ (k = "decisions" => ~r.closed)

\* Every record, in a file, a queue, a snapshot or a job, got its id from uuid4
\* some time ago.
Provenance ==
    /\ \A k \in Kinds : Good(k, Written(logs[k]), nextId)
    /\ \A p \in Procs, k \in Kinds : Good(k, job[p].got[k], nextId)
    /\ \A n \in Snaps, k \in Kinds : Good(k, snaps[n].view[k], nextId)
    /\ \A p \in Procs : \A i \in 1 .. Len(queue[p]) : Good(queue[p][i].kind, {queue[p][i].rec}, nextId)

\* What is good stays so.
LEMMA GoodStays ==
  ASSUME EngineInv, [Next]_vars, NEW k, NEW R, Good(k, R, nextId), \A r \in R : r \in Records
  PROVE  Good(k, R, nextId')
<1>1. nextId \in Nat /\ (nextId' = nextId \/ nextId' = nextId + 1)
  BY IdsMove, KindsAssumption DEF EngineInv
<1>2. \A r \in R : r.id \in Nat
  BY RecordParts
<1>. QED BY <1>1, <1>2 DEF Good

\* A view of good records is good.
LEMMA GoodView ==
  ASSUME NEW k \in Kinds, NEW R \in SUBSET Records, NEW n, Good(k, R, n)
  PROVE  Good(k, View(k, R), n)
<1>1. \A v \in View(k, R) : \E r \in R : v.id = r.id
  BY ViewFacts
<1>2. k = "decisions" => View(k, R) \subseteq R
  BY DEF View, Decisions
<1>. QED BY <1>1, <1>2 DEF Good

\* A record comes from uuid4, or from where it was already.
LEMMA ProvenanceNext == EngineInv /\ Provenance /\ [Next]_vars => Provenance'
<1>. SUFFICES ASSUME EngineInv, Provenance, [Next]_vars PROVE Provenance'
  OBVIOUS
<1>0. /\ nextId \in Nat
      /\ \A k \in Kinds : logs[k] \in Seq(Line)
      /\ \A p \in Procs, k \in Kinds : job[p].got[k] \in SUBSET Records
      /\ \A n \in Snaps, k \in Kinds : snaps[n].view[k] \in SUBSET Records
      /\ \A p \in Procs : queue[p] \in Seq(Write)
  BY EngineTypes
<1>1. ASSUME NEW k \in Kinds PROVE Good(k, Written(logs[k]), nextId') /\ Written(logs[k]) \in SUBSET Records
  <2>1. Written(logs[k]) \in SUBSET Records
    BY <1>0, FileRecords
  <2>. QED BY <2>1, GoodStays DEF Provenance
<1>2. ASSUME NEW p \in Procs, NEW i \in 1 .. Len(queue[p])
      PROVE  /\ queue[p][i].kind \in Kinds /\ queue[p][i].rec \in Records
             /\ Good(queue[p][i].kind, {queue[p][i].rec}, nextId')
  <2>1. queue[p][i] \in Write
    BY <1>0
  <2>2. queue[p][i].kind \in Kinds /\ queue[p][i].rec \in Records
    BY <2>1 DEF Write
  <2>. QED BY <2>2, GoodStays DEF Provenance
<1>3. ASSUME NEW p \in Procs, NEW k \in Kinds PROVE Good(k, job[p].got[k], nextId')
  BY <1>0, GoodStays DEF Provenance
<1>4. ASSUME NEW n \in Snaps, NEW k \in Kinds PROVE Good(k, snaps[n].view[k], nextId')
  BY <1>0, GoodStays DEF Provenance
<1>5. ASSUME NEW k \in Kinds PROVE Good(k, Written(logs'[k]), nextId')
  <2>1. ASSUME NEW p \in Procs, NEW cut \in Texts, NEW ended \in BOOLEAN, Puts(p, cut, ended)
        PROVE  Good(k, Written(logs'[k]), nextId')
    <3>1. CASE logs'[k] = logs[k]
      BY <1>1, <3>1
    <3>2. ASSUME NEW r \in Records, NEW text \in Texts, 1 \in 1 .. Len(queue[p]),
                 queue[p][1].kind = k, queue[p][1].rec = r, logs'[k] = Put(logs[k], r, text, ended)
          PROVE  Good(k, Written(logs'[k]), nextId')
      <4>1. Good(k, {r}, nextId')
        BY <1>2, <3>2
      <4>2. Written(logs'[k]) \subseteq Written(logs[k]) \cup {r}
        BY <1>0, <3>2, PutBounds
      <4>. QED BY <1>1, <4>1, <4>2 DEF Good
    <3>. QED BY <2>1, <3>1, <3>2, PutsOne
  <2>2. ASSUME NEW h \in Kinds, NEW i, DeleteLine(h, i) PROVE Good(k, Written(logs'[k]), nextId')
    <3>1. CASE h # k
      BY <1>1, <2>2, <3>1, DeleteFacts
    <3>2. CASE h = k
      <4>1. i \in 1 .. Len(logs[k]) /\ logs[k][i].text # "json" /\ logs'[k] = Without(logs[k], i)
        BY <2>2, <3>2, DeleteFacts
      <4>2. Written(logs'[k]) \subseteq Written(logs[k])
        BY <1>0, <4>1, WithoutBounds
      <4>. QED BY <1>1, <4>2 DEF Good
    <3>. QED BY <3>1, <3>2
  <2>3. CASE UNCHANGED <<logs, acked, dropped>>
    BY <1>1, <2>3
  <2>4. "json" \in Texts /\ TRUE \in BOOLEAN /\ FALSE \in BOOLEAN
    BY DEF Texts
  <2>. QED BY <2>1, <2>2, <2>3, <2>4, FileMoves
<1>6. ASSUME NEW k \in Kinds PROVE Good(k, Parsed(logs[k]), nextId') /\ Parsed(logs[k]) \in SUBSET Records
  <2>1. Parsed(logs[k]) \subseteq Written(logs[k])
    BY <1>0, FileRecords
  <2>. QED BY <1>1, <2>1 DEF Good
<1>7. ASSUME NEW p \in Procs, NEW k \in Kinds PROVE Good(k, job'[p].got[k], nextId')
  <2>1. Good(k, Read(k), nextId')
    BY <1>6, GoodView DEF Read
  <2>2. Good(k, Shown(k), nextId')
    BY <2>1 DEF Good, Shown
  <2>3. ASSUME CaptureNew(p), k = "discoveries", NEW s \in Stmts,
               job'[p].got[k] = job[p].got[k] \cup {Fresh(s)}
        PROVE  Good(k, job'[p].got[k], nextId')
    <3>1. nextId' = nextId + 1
      BY <2>3 DEF CaptureNew, NewId
    <3>2. Fresh(s).id = nextId /\ Fresh(s).closed = FALSE
      BY DEF Fresh
    <3>3. Good(k, {Fresh(s)}, nextId')
      BY <1>0, <3>1, <3>2 DEF Good
    <3>. QED BY <1>3, <2>3, <3>3 DEF Good
  <2>4. Good(k, {}, nextId')
    BY DEF Good
  <2>5. ASSUME NEW n \in Snaps, job'[p].got[k] = snaps[n].view[k]
        PROVE  Good(k, job'[p].got[k], nextId')
    BY <1>4, <2>5
  <2>6. CASE job'[p].got[k] = job[p].got[k] \/ job'[p].got[k] = {}
    BY <1>3, <2>4, <2>6
  <2>7. CASE job'[p].got[k] = Read(k) \/ job'[p].got[k] = Shown(k)
    BY <2>1, <2>2, <2>7
  <2>. QED BY <2>3, <2>5, <2>6, <2>7, GotMoves
<1>8. ASSUME NEW n \in Snaps, NEW k \in Kinds PROVE Good(k, snaps'[n].view[k], nextId')
  <2>1. CASE snaps'[n].view = snaps[n].view
    BY <1>4, <2>1
  <2>2. ASSUME NEW p \in Procs, snaps'[n].view = job[p].got PROVE Good(k, snaps'[n].view[k], nextId')
    BY <1>3, <2>2
  <2>. QED BY <2>1, <2>2, ViewMoves
<1>9. ASSUME NEW p \in Procs, NEW i \in 1 .. Len(queue'[p])
      PROVE  Good(queue'[p][i].kind, {queue'[p][i].rec}, nextId')
  <2>1. CASE queue'[p] = queue[p]
    BY <1>2, <1>9, <2>1
  <2>2. CASE queue'[p] = <<>>
    BY <1>9, <2>2
  <2>3. CASE AppendNext(p) /\ queue'[p] = Tail(queue[p])
    <3>1. queue[p] # <<>> /\ queue[p] \in Seq(Write)
      BY <1>0, <2>3 DEF AppendNext, AppendRecord
    <3>2. i + 1 \in 1 .. Len(queue[p]) /\ queue'[p][i] = queue[p][i + 1]
      BY <1>9, <2>3, <3>1
    <3>. QED BY <1>2, <3>2
  <2>4. ASSUME NEW k \in Kinds, NEW r \in Records, queue'[p] = <<[kind |-> k, rec |-> r]>>,
               r.id = nextId, nextId' = nextId + 1, k = "decisions" => ~r.closed
        PROVE  Good(queue'[p][i].kind, {queue'[p][i].rec}, nextId')
    <3>1. i = 1 /\ queue'[p][i] = [kind |-> k, rec |-> r]
      BY <1>9, <2>4
    <3>2. queue'[p][i].kind = k /\ queue'[p][i].rec = r
      BY <3>1
    <3>. QED BY <1>0, <2>4, <3>2 DEF Good
  <2>5. CASE RestoreLog(p)
    <3>. DEFINE k == Restored[job[p].at]
    <3>1. queue'[p][i].kind = k /\ queue'[p][i].rec \in Missing(p, k) /\ k \in Kinds
      BY <1>9, <2>5, RestoreBatch
    <3>2. queue'[p][i].rec \in job[p].got[k]
      BY <3>1 DEF Missing
    <3>. QED BY <1>3, <3>1, <3>2 DEF Good
  <2>. QED BY <2>1, <2>2, <2>3, <2>4, <2>5, QueueMoves
<1>. QED BY <1>5, <1>7, <1>8, <1>9 DEF Provenance

\* So it always holds.
LEMMA ProvenanceInvariant == Spec => []Provenance
<1>1. Init => Provenance
  <2>. SUFFICES ASSUME Init PROVE Provenance
    OBVIOUS
  <2>1. \A k \in Kinds : Written(logs[k]) = {}
    BY DEF Init, LogInit, Written, LinesOf
  <2>2. /\ \A p \in Procs, k \in Kinds : job[p].got[k] = {}
        /\ \A n \in Snaps, k \in Kinds : snaps[n].view[k] = {}
        /\ \A p \in Procs : queue[p] = <<>>
    BY DEF Init, LogInit, NoJob, NoSnap, NoView
  <2>. QED BY <2>1, <2>2 DEF Provenance, Good
<1>. QED BY <1>1, ProvenanceNext, EngineInvariant, PTL DEF Spec
----------------------------------------------------------------------------
(* Jobs that start and jobs that go on.                                    *)

\* The steps that start an operation of several steps.
Begins(p) ==
    \/ \E forced \in BOOLEAN : SnapBegin(p, forced)
    \/ \E n \in Snaps : RestoreBegin(p, n)
    \/ \E n \in 0 .. Len(CutOrder) : HandoffBegin(p, n)
    \/ \E script \in Transcripts : HookBegin(p, script)

\* The steps in the middle of one.
Goes(p) ==
    \/ Check(p) \/ Number(p) \/ Collect(p) \/ Mkdir(p)
    \/ Publish(p) /\ job[p].op = "hook"
    \/ RestoreTask(p) \/ RestoreLog(p)
    \/ Gather(p) \/ Surface(p)
    \/ CaptureNew(p) \/ CaptureKnown(p) \/ CaptureEnd(p)

\* A job is left alone, ends, starts or goes on.
LEMMA JobSteps ==
  ASSUME EngineInv, [Next]_vars, NEW p \in Procs
  PROVE  \/ KeptJob(p) /\ (queue'[p] = queue[p] \/ Idle(p) \/ AppendNext(p))
         \/ job'[p] = NoJob
         \/ Begins(p)
         \/ Goes(p)
<1>0. LogTypeOK /\ JobsOK
  BY DEF EngineInv, LogInv
<1>1. ASSUME UNCHANGED job PROVE KeptJob(p)
  BY <1>1 DEF KeptJob
<1>2. CASE Quiet(p)
  <2>1. ASSUME NEW t, SetTask(p, t) PROVE KeptJob(p) /\ Idle(p)
    BY <1>1, <2>1 DEF SetTask, MayStart
  <2>2. Finish(p) => job'[p] = NoJob
    BY <1>0, EndJob
  <2>3. Publish(p) => job[p].op = "hook" \/ job'[p] = NoJob
    BY <1>0, PublishJob
  <2>. QED BY <1>2, <2>1, <2>2, <2>3 DEF Quiet, Begins, Goes
<1>3. Single(p) => KeptJob(p) /\ Idle(p)
  BY <1>1, SingleRecord
<1>4. Kill(p) => job'[p] = NoJob
  BY <1>0, EndJob
<1>5. AppendNext(p) => KeptJob(p)
  BY <1>1, AppendPuts
<1>6. \A cut \in Cuts : Tear(p, cut) => job'[p] = NoJob
  BY <1>0, TearJob
<1>. QED BY <1>2, <1>3, <1>4, <1>5, <1>6, OwnOrKept DEF Moves, Goes

\* Where one starts.
LEMMA BeginsFacts ==
  ASSUME EngineInv, NEW p \in Procs, Begins(p)
  PROVE  /\ UNCHANGED <<logs, acked, dropped, queue, torn>>
         /\ Idle(p)
         /\ job'[p].known = acked
         /\ job'[p].sound = \A k \in Kinds : ~Open(logs[k])
         /\ job'[p].bad = FALSE /\ job'[p].at = 1
         /\ \/ job'[p].op = "snapshot" /\ (job'[p].step = "check" \/ (job'[p].step = "number" /\ job'[p].forced))
            \/ job'[p].op = "restore" /\ job'[p].step = "task"
            \/ job'[p].op = "handoff" /\ job'[p].step = "gather"
            \/ job'[p].op = "hook" /\ job'[p].step = "capture"
<1>. DEFINE Goal ==
         /\ job'[p].known = acked
         /\ job'[p].sound = \A k \in Kinds : ~Open(logs[k])
         /\ job'[p].bad = FALSE /\ job'[p].at = 1
         /\ \/ job'[p].op = "snapshot" /\ (job'[p].step = "check" \/ (job'[p].step = "number" /\ job'[p].forced))
            \/ job'[p].op = "restore" /\ job'[p].step = "task"
            \/ job'[p].op = "handoff" /\ job'[p].step = "gather"
            \/ job'[p].op = "hook" /\ job'[p].step = "capture"
<1>0. LogTypeOK /\ JobsOK /\ \A k \in Kinds : IsFiniteSet(Written(logs[k]))
  BY DEF EngineInv, LogInv, FilesFinite
<1>1. UNCHANGED <<logs, acked, dropped, queue, torn>> /\ Idle(p)
  BY DEF Begins, SnapBegin, RestoreBegin, HandoffBegin, HookBegin, logVars, MayStart
<1>2. ASSUME NEW forced \in BOOLEAN, SnapBegin(p, forced) PROVE Goal
  <2>1. /\ job'[p].op = "snapshot"
        /\ job'[p].step = IF forced THEN "number" ELSE "check"
        /\ job'[p].at = 1 /\ job'[p].bad = FALSE /\ job'[p].forced = forced
        /\ job'[p].known = acked
    BY <1>0, <1>2, SnapBeginJob
  <2>2. job'[p].sound = \A k \in Kinds : ~Open(logs[k])
    BY <1>0, <1>2, SnapBeginJob
  <2>3. job'[p].step = "check" \/ (job'[p].step = "number" /\ job'[p].forced)
    BY <2>1
  <2>. QED BY <2>1, <2>2, <2>3
<1>3. ASSUME NEW n \in Snaps, RestoreBegin(p, n) PROVE Goal
  <2>1. /\ snaps[n].task \in Tasks \cup {NoTask} /\ snaps[n].view \in [Kinds -> SUBSET Records]
        /\ \A h \in Kinds : IsFiniteSet(snaps[n].view[h])
    BY DEF EngineInv, SnapsOK, Snapshot
  <2>. QED BY <1>0, <1>3, <2>1, RestoreBeginJob
<1>4. ASSUME NEW n, HandoffBegin(p, n) PROVE Goal
  BY <1>0, <1>4, HandoffBeginJob
<1>5. ASSUME NEW script \in Transcripts, HookBegin(p, script) PROVE Goal
  BY <1>0, <1>5, HookBeginJob
<1>. QED BY <1>1, <1>2, <1>3, <1>4, <1>5 DEF Begins

\* How one goes on.
LEMMA GoesFacts ==
  ASSUME EngineInv, NEW p \in Procs, Goes(p)
  PROVE  Same(job'[p], job[p]) /\ UNCHANGED <<logs, acked, dropped>> /\ queue[p] = <<>>
         /\ job[p].op \in Active
<1>0. /\ LogTypeOK /\ JobsOK /\ \A k \in Kinds : IsFiniteSet(Written(logs[k]))
      /\ task \in Tasks \cup {NoTask} /\ nextId \in 1 .. MaxId + 1
  BY DEF EngineInv, LogInv, FilesFinite
<1>1. UNCHANGED <<logs, acked, dropped>>
  BY DEF Goes, Check, Number, Collect, Mkdir, Publish, RestoreTask, RestoreLog, Gather, Surface,
         CaptureNew, CaptureKnown, CaptureEnd, logVars, Begin
<1>2. queue[p] = <<>> /\ job[p].op \in Active
  BY DEF Goes, Check, Number, Collect, Mkdir, Publish, RestoreTask, RestoreLog, Gather, Surface,
         CaptureNew, CaptureKnown, CaptureEnd, At, Active
<1>3. Check(p) => Same(job'[p], job[p])
  BY <1>0, CheckJob
<1>4. Number(p) => Same(job'[p], job[p])
  <2>1. snaps \in [Snaps -> [dir: BOOLEAN, full: BOOLEAN, forced: BOOLEAN,
                    task: Tasks \cup {NoTask}, view: [Kinds -> SUBSET Records]]]
    BY DEF EngineInv, SnapsOK, Snapshot
  <2>. QED BY <1>0, <2>1, NumberJob
<1>5. Collect(p) => Same(job'[p], job[p])
  BY <1>0, CollectJob
<1>6. Mkdir(p) => Same(job'[p], job[p])
  BY <1>0, MkdirJob
<1>7. Publish(p) /\ job[p].op = "hook" => Same(job'[p], job[p])
  BY <1>0, PublishJob
<1>8. RestoreTask(p) => Same(job'[p], job[p])
  BY <1>0, RestoreTaskJob
<1>9. RestoreLog(p) => Same(job'[p], job[p])
  BY <1>0, RestoreLogJob
<1>10. Gather(p) => Same(job'[p], job[p])
  BY <1>0, GatherJob
<1>11. Surface(p) => Same(job'[p], job[p])
  BY <1>0, SurfaceJob
<1>12. CaptureNew(p) => Same(job'[p], job[p])
  BY <1>0, CaptureNewJob
<1>13. CaptureKnown(p) => Same(job'[p], job[p])
  BY <1>0, CaptureKnownJob
<1>14. CaptureEnd(p) => Same(job'[p], job[p])
  BY <1>0, CaptureEndJob
<1>. QED BY <1>1, <1>2, <1>3, <1>4, <1>5, <1>6, <1>7, <1>8, <1>9, <1>10, <1>11, <1>12, <1>13, <1>14 DEF Goes

\* What a job remembers of its start was acknowledged then.
KnownAcked == \A p \in Procs, k \in Kinds : job[p].known[k] \subseteq acked[k]

\* A job takes what is acknowledged when it starts, and nothing is unacknowledged.
LEMMA KnownAckedNext == EngineInv /\ KnownAcked /\ [Next]_vars => KnownAcked'
<1>. SUFFICES ASSUME EngineInv, KnownAcked, [Next]_vars, NEW p \in Procs, NEW k \in Kinds
              PROVE  job'[p].known[k] \subseteq acked'[k]
  BY DEF KnownAcked
<1>1. acked[k] \subseteq acked'[k]
  <2>1. ASSUME LogGrows PROVE acked[k] \subseteq acked'[k]
    BY <2>1 DEF LogGrows
  <2>2. ASSUME NEW h \in Kinds, NEW i, DeleteLine(h, i) PROVE acked[k] \subseteq acked'[k]
    BY <2>2 DEF DeleteLine
  <2>3. "json" \in Texts /\ TRUE \in BOOLEAN /\ FALSE \in BOOLEAN
    BY DEF Texts
  <2>. QED BY <2>1, <2>2, <2>3, FileMoves, PutsGrows, SameGrows
<1>2. job[p].known[k] \subseteq acked[k]
  BY DEF KnownAcked
<1>3. CASE KeptJob(p)
  BY <1>1, <1>2, <1>3 DEF KeptJob
<1>4. CASE job'[p] = NoJob
  BY <1>4 DEF NoJob, NoView
<1>5. CASE Begins(p)
  BY <1>1, <1>5, BeginsFacts
<1>6. CASE Goes(p)
  BY <1>1, <1>2, <1>6, GoesFacts DEF Same
<1>. QED BY <1>3, <1>4, <1>5, <1>6, JobSteps

\* So it always holds.
LEMMA KnownAckedInvariant == Spec => []KnownAcked
<1>1. Init => KnownAcked
  BY DEF Init, KnownAcked, NoJob, NoView
<1>. QED BY <1>1, KnownAckedNext, EngineInvariant, PTL DEF Spec
----------------------------------------------------------------------------
(* What a snapshot and a handoff owe to the records acknowledged before.   *)

\* Record r of kind k is accounted for in g, where W is written in the file.
AccountedIn(W, k, r, g) ==
    \/ r.id \in Ids(g)
    \/ r.id \in Linked(W)
    \/ k = "failures" /\ r.link # 0 /\ \A f \in g : f.id = r.link => f.closed

\* The model says the same of the files as they are.
LEMMA AccountedDef ==
  ASSUME NEW k, NEW r, NEW g
  PROVE  Accounted(k, r, g) <=> AccountedIn(Written(logs[k]), k, r, g)
BY DEF Accounted, AccountedIn

\* What is accounted for stays so as the file grows.
LEMMA AccountedStays ==
  ASSUME NEW W, NEW X, W \subseteq X, NEW k, NEW r, NEW g, AccountedIn(W, k, r, g)
  PROVE  AccountedIn(X, k, r, g)
BY DEF AccountedIn, Linked

\* A record that was parsed is accounted for in the view: a superseded decision
\* and a resolved failure by their markers, and a marker by the failure it closes.
LEMMA ViewAccounts ==
  ASSUME NEW k, NEW R \in SUBSET Records, NEW r \in R, k = "decisions" => ~r.closed
  PROVE  AccountedIn(R, k, r, View(k, R))
<1>1. CASE k = "decisions"
  BY <1>1 DEF View, Decisions, AccountedIn, Ids, Linked
<1>2. CASE k = "failures"
  <2>. DEFINE mark(f) == [f EXCEPT !.closed = f.closed \/ f.id \in Linked(R)]
  <2>1. View(k, R) = {mark(g) : g \in {g \in R : g.link = 0}}
    BY <1>2 DEF View, Failures
  <2>2. ASSUME NEW g \in R
        PROVE  mark(g).id = g.id /\ (g.id \in Linked(R) => mark(g).closed = TRUE)
    <3>1. g \in Records /\ (g.closed \/ g.id \in Linked(R)) \in BOOLEAN
      OBVIOUS
    <3>2. mark(g).id = g.id /\ mark(g).closed = (g.closed \/ g.id \in Linked(R))
      BY <3>1, ClosedRecord
    <3>. QED BY <3>2
  <2>. HIDE DEF mark
  <2>3. CASE r.link = 0
    <3>1. mark(r) \in View(k, R) /\ mark(r).id = r.id
      BY <2>1, <2>2, <2>3
    <3>. QED BY <3>1 DEF AccountedIn, Ids
  <2>4. CASE r.link # 0
    <3>1. ASSUME NEW f \in View(k, R), f.id = r.link PROVE f.closed
      <4>1. PICK g \in R : f = mark(g)
        BY <2>1
      <4>2. g.id = r.link
        BY <2>2, <3>1, <4>1
      <4>3. g.id \in Linked(R)
        BY <4>2 DEF Linked
      <4>. QED BY <2>2, <4>1, <4>3
    <3>. QED BY <1>2, <2>4, <3>1 DEF AccountedIn
  <2>. QED BY <2>3, <2>4
<1>3. CASE k # "decisions" /\ k # "failures"
  BY <1>3 DEF View, AccountedIn, Ids
<1>. QED BY <1>1, <1>2, <1>3

\* Of the failures the handoff shows the open ones only.
LEMMA OpenAccounts ==
  ASSUME NEW R \in SUBSET Records, NEW r \in R
  PROVE  \/ AccountedIn(R, "failures", r, {f \in View("failures", R) : ~f.closed})
         \/ r.closed
<1>. DEFINE k == "failures"
            V == View(k, R)
            mark(f) == [f EXCEPT !.closed = f.closed \/ f.id \in Linked(R)]
<1>1. V = {mark(g) : g \in {g \in R : g.link = 0}}
  BY DEF View, Failures
<1>2. ASSUME NEW g \in R
      PROVE  mark(g).id = g.id /\ (mark(g).closed <=> (g.closed \/ g.id \in Linked(R)))
  <2>1. g \in Records /\ (g.closed \/ g.id \in Linked(R)) \in BOOLEAN
    OBVIOUS
  <2>2. mark(g).id = g.id /\ mark(g).closed = (g.closed \/ g.id \in Linked(R))
    BY <2>1, ClosedRecord
  <2>. QED BY <2>2
<1>. HIDE DEF mark
<1>3. CASE r.link = 0 /\ ~mark(r).closed
  <2>1. mark(r) \in {f \in V : ~f.closed} /\ mark(r).id = r.id
    BY <1>1, <1>2, <1>3
  <2>. HIDE DEF V
  <2>. QED BY <2>1 DEF AccountedIn, Ids, V
<1>4. CASE r.link = 0 /\ mark(r).closed
  BY <1>2, <1>4 DEF AccountedIn
<1>5. CASE r.link # 0
  <2>1. ASSUME NEW f \in V, f.id = r.link PROVE f.closed
    <3>1. PICK g \in R : f = mark(g)
      BY <1>1
    <3>2. g.id \in Linked(R)
      BY <1>2, <2>1, <3>1 DEF Linked
    <3>. QED BY <1>2, <3>1, <3>2
  <2>. HIDE DEF V
  <2>. QED BY <1>5, <2>1 DEF AccountedIn, V
<1>. QED BY <1>3, <1>4, <1>5

\* Every record of R can be read from the file, and its line is complete.
Safe(log, R) ==
    \A r \in R : \E i \in 1 .. Len(log) : log[i].ended /\ log[i].text = "json" /\ r \in log[i].recs

\* A complete line of the file cannot be read, and never will be.
Spoilt(log) == \E i \in 1 .. Len(log) : log[i].ended /\ log[i].text # "json"

\* What is safe stays safe: its line is complete.
LEMMA SafeStays ==
  ASSUME LogGrows, NEW k \in Kinds, NEW R, Safe(logs[k], R)
  PROVE  Safe(logs'[k], R)
<1>1. /\ logs[k] \in Seq(Line) /\ logs'[k] \in Seq(Line) /\ Len(logs'[k]) >= Len(logs[k])
      /\ \A i \in 1 .. Len(logs[k]) : logs[k][i].ended => logs'[k][i] = logs[k][i]
  BY DEF LogGrows
<1>2. ASSUME NEW r \in R
      PROVE  \E i \in 1 .. Len(logs'[k]) : logs'[k][i].ended /\ logs'[k][i].text = "json" /\ r \in logs'[k][i].recs
  <2>1. PICK i \in 1 .. Len(logs[k]) : logs[k][i].ended /\ logs[k][i].text = "json" /\ r \in logs[k][i].recs
    BY DEF Safe
  <2>2. i \in 1 .. Len(logs'[k]) /\ logs'[k][i] = logs[k][i]
    BY <1>1, <2>1
  <2>. QED BY <2>1, <2>2
<1>. QED BY <1>2 DEF Safe

\* A spoilt file stays spoilt, for the same reason.
LEMMA SpoiltStays ==
  ASSUME LogGrows, NEW k \in Kinds, Spoilt(logs[k])
  PROVE  Spoilt(logs'[k])
<1>1. /\ logs[k] \in Seq(Line) /\ logs'[k] \in Seq(Line) /\ Len(logs'[k]) >= Len(logs[k])
      /\ \A i \in 1 .. Len(logs[k]) : logs[k][i].ended => logs'[k][i] = logs[k][i]
  BY DEF LogGrows
<1>2. PICK i \in 1 .. Len(logs[k]) : logs[k][i].ended /\ logs[k][i].text # "json"
  BY DEF Spoilt
<1>3. i \in 1 .. Len(logs'[k]) /\ logs'[k][i] = logs[k][i]
  BY <1>1, <1>2
<1>. QED BY <1>2, <1>3 DEF Spoilt

\* An acknowledged record can be read, or a complete line of its file cannot.
LEMMA SafeOrSpoilt ==
  ASSUME AckedEnded, NEW k \in Kinds, NEW R, R \subseteq acked[k] \ dropped[k]
  PROVE  Safe(logs[k], R) \/ Spoilt(logs[k])
<1>1. \A r \in R : \E i \in 1 .. Len(logs[k]) : logs[k][i].ended /\ r \in logs[k][i].recs
  BY DEF AckedEnded
<1>. QED BY <1>1 DEF Safe, Spoilt

\* A clean file is not spoilt.
LEMMA CleanNotSpoilt ==
  ASSUME NEW log, Clean(log)
  PROVE  ~Spoilt(log)
BY DEF Clean, LinesOf, Spoilt

\* What is safe is parsed.
LEMMA SafeParsed ==
  ASSUME NEW log, NEW R, Safe(log, R)
  PROVE  R \subseteq Parsed(log)
BY DEF Safe, Parsed, LinesOf

\* What a job has to answer for: what was acknowledged before it started, but
\* for what the user has deleted.
Owing(j, D, k) == j.known[k] \ D[k]

\* What it has read of kind k accounts for all of that.
Held(j, L, D, k) == \A r \in Owing(j, D, k) : AccountedIn(Written(L[k]), k, r, j.got[k])

\* A snapshot that is not forced has found the files it has checked so far
\* clean, so the records it owes are on lines no append can touch; once it has
\* read a kind it holds them.
SnapCare(j, L, D) ==
    (j.op \in {"snapshot", "hook"} /\ ~j.forced) =>
        /\ (j.step = "check" /\ ~j.bad) =>
              \A l \in 1 .. Len(Files) : l < j.at => Safe(L[Files[l]], Owing(j, D, Files[l]))
        /\ j.step \in {"number", "collect"} => \A k \in Kinds : Safe(L[k], Owing(j, D, k))
        /\ j.step = "collect" =>
              \A l \in 1 .. Len(Restored) : l < j.at => Held(j, L, D, Restored[l])
        /\ j.step \in {"mkdir", "publish"} => \A k \in Kinds \ {"surfacings"} : Held(j, L, D, k)

\* Every snapshot under way is careful.
SnapshotsCare == \A p \in Procs : SnapCare(job[p], logs, dropped)

\* What other processes append does not take from it.
LEMMA SnapCareKept ==
  ASSUME EngineInv, LogGrows, NEW p \in Procs, KeptJob(p), SnapCare(job[p], logs, dropped)
  PROVE  SnapCare(job'[p], logs', dropped')
<1>. DEFINE j == job[p]
            J == job'[p]
<1>1. /\ J.op = j.op /\ J.step = j.step /\ J.at = j.at /\ J.bad = j.bad /\ J.forced = j.forced
      /\ J.got = j.got /\ J.known = j.known
  BY DEF KeptJob
<1>2. dropped' = dropped /\ \A k \in Kinds : Written(logs[k]) \subseteq Written(logs'[k])
  BY DEF LogGrows
<1>3. \A k : Owing(J, dropped', k) = Owing(j, dropped, k)
  BY <1>1, <1>2 DEF Owing
<1>4. ASSUME NEW k \in Kinds, Safe(logs[k], Owing(j, dropped, k))
      PROVE  Safe(logs'[k], Owing(J, dropped', k))
  BY <1>3, <1>4, SafeStays
<1>5. ASSUME NEW k \in Kinds, Held(j, logs, dropped, k)
      PROVE  Held(J, logs', dropped', k)
  <2>1. ASSUME NEW r \in Owing(J, dropped', k)
        PROVE  AccountedIn(Written(logs'[k]), k, r, J.got[k])
    <3>1. AccountedIn(Written(logs[k]), k, r, J.got[k])
      BY <1>1, <1>3, <1>5, <2>1 DEF Held
    <3>. QED BY <1>2, <3>1, AccountedStays
  <2>. QED BY <2>1 DEF Held
<1>6. \A l \in 1 .. Len(Files) : Files[l] \in Kinds
  BY KindLists
<1>7. \A l \in 1 .. Len(Restored) : Restored[l] \in Kinds
  BY KindLists
<1>. HIDE DEF j, J
<1>8. SnapCare(j, logs, dropped)
  BY DEF j
<1>9. SnapCare(J, logs', dropped')
  BY <1>1, <1>4, <1>5, <1>6, <1>7, <1>8 DEF SnapCare
<1>. QED BY <1>9 DEF J

\* What is read of a kind of which everything owed is safe.
LEMMA ReadHolds ==
  ASSUME EngineInv, Provenance, NEW k \in Kinds, NEW R, Safe(logs[k], R)
  PROVE  \A r \in R : AccountedIn(Written(logs[k]), k, r, Read(k))
<1>1. logs[k] \in Seq(Line) /\ Good(k, Written(logs[k]), nextId)
  BY EngineTypes DEF Provenance
<1>2. Parsed(logs[k]) \subseteq Written(logs[k]) /\ Parsed(logs[k]) \in SUBSET Records
  BY <1>1, FileRecords
<1>3. R \subseteq Parsed(logs[k])
  BY SafeParsed
<1>4. ASSUME NEW r \in R PROVE AccountedIn(Written(logs[k]), k, r, Read(k))
  <2>1. r \in Parsed(logs[k]) /\ (k = "decisions" => ~r.closed)
    BY <1>1, <1>2, <1>3 DEF Good
  <2>2. AccountedIn(Parsed(logs[k]), k, r, Read(k))
    BY <1>2, <2>1, ViewAccounts DEF Read
  <2>. QED BY <1>2, <2>2, AccountedStays
<1>. QED BY <1>4

\* Its own steps keep it: a check that finds a clean file finds all it owes safe,
\* and what is read of a safe file is held.
LEMMA SnapCareNext ==
  EngineInv /\ Provenance /\ AckedEnded /\ KnownAcked /\ SnapshotsCare /\ [Next]_vars => SnapshotsCare'
<1>. SUFFICES ASSUME EngineInv, Provenance, AckedEnded, KnownAcked, SnapshotsCare, [Next]_vars,
                     NEW p \in Procs
              PROVE  SnapCare(job'[p], logs', dropped')
  BY DEF SnapshotsCare
<1>. DEFINE j == job[p]
            J == job'[p]
<1>0. /\ LogTypeOK /\ JobsOK /\ \A k \in Kinds : IsFiniteSet(Written(logs[k]))
      /\ task \in Tasks \cup {NoTask} /\ nextId \in 1 .. MaxId + 1
      /\ j.got \in [Kinds -> SUBSET Records]
      /\ SnapCare(j, logs, dropped)
  BY DEF EngineInv, LogInv, FilesFinite, JobsOK, JobOK, Job, SnapshotsCare
<1>1. CASE KeptJob(p)
  <2>1. CASE Idle(p)
    <3>1. J = NoJob
      BY <1>1, <2>1 DEF KeptJob, Idle
    <3>. QED BY <3>1 DEF SnapCare, NoJob
  <2>2. CASE ~Idle(p)
    BY <1>0, <1>1, <2>2, Running, SnapCareKept
  <2>. QED BY <2>1, <2>2
<1>2. CASE J = NoJob
  BY <1>2 DEF SnapCare, NoJob
<1>3. CASE Begins(p)
  <2>1. /\ J.at = 1
        /\ \/ J.op = "snapshot" /\ (J.step = "check" \/ (J.step = "number" /\ J.forced))
           \/ J.op = "restore" \/ J.op = "handoff"
           \/ J.op = "hook" /\ J.step = "capture"
    BY <1>3, BeginsFacts
  <2>2. \A l \in 1 .. Len(Files) : ~(l < J.at)
    BY <2>1
  <2>. HIDE DEF J
  <2>3. SnapCare(J, logs', dropped')
    BY <2>1, <2>2 DEF SnapCare
  <2>. QED BY <2>3 DEF J
<1>4. CASE Goes(p) /\ J.op \notin {"snapshot", "hook"}
  BY <1>4 DEF SnapCare
<1>5. CASE Goes(p) /\ J.op \in {"snapshot", "hook"}
  <2>1. /\ J.op = j.op /\ J.known = j.known /\ J.forced = j.forced
        /\ logs' = logs /\ dropped' = dropped
    BY <1>5, GoesFacts DEF Same
  <2>. SUFFICES ASSUME ~j.forced PROVE SnapCare(J, logs, dropped)
    BY <2>1 DEF SnapCare
  <2>2. \A k : Owing(J, dropped, k) = Owing(j, dropped, k)
    BY <2>1 DEF Owing
  <2>3. \A k \in Kinds : Owing(j, dropped, k) \subseteq acked[k] \ dropped[k]
    BY DEF KnownAcked, Owing
  <2>4. CASE Check(p)
    <3>. DEFINE f == Files[j.at]
    <3>1. /\ j.step = "check" /\ J.bad = (j.bad \/ ~Clean(logs[f]))
          /\ j.at < Len(Files) => J.step = "check" /\ J.at = j.at + 1
          /\ ~(j.at < Len(Files)) => J.step = IF j.op = "handoff" \/ J.bad THEN "done" ELSE "number"
      BY <1>0, <2>4, CheckJob
    <3>2. j.at \in 1 .. Len(Files) /\ f \in Kinds
      BY <1>0, <3>1, KindLists DEF JobsOK, JobOK, Places
    <3>3. ~J.bad => Safe(logs[f], Owing(j, dropped, f))
      BY <2>3, <3>1, <3>2, SafeOrSpoilt, CleanNotSpoilt
    <3>4. (~J.bad) => \A l \in 1 .. Len(Files) : l < j.at => Safe(logs[Files[l]], Owing(j, dropped, Files[l]))
      BY <1>0, <1>5, <2>1, <3>1 DEF SnapCare
    <3>5. (~J.bad) => \A l \in 1 .. Len(Files) : l <= j.at => Safe(logs[Files[l]], Owing(j, dropped, Files[l]))
      BY <3>2, <3>3, <3>4
    <3>6. Len(Files) \in Nat /\ \A k \in Kinds : \E l \in 1 .. Len(Files) : Files[l] = k
      BY KindLists
    <3>. HIDE DEF J, f
    <3>7. CASE j.at < Len(Files)
      <4>1. J.step = "check" /\ J.at = j.at + 1
        BY <3>1, <3>7
      <4>2. (~J.bad) => \A l \in 1 .. Len(Files) : l < J.at => Safe(logs[Files[l]], Owing(J, dropped, Files[l]))
        BY <2>2, <3>2, <3>5, <4>1
      <4>. QED BY <4>1, <4>2 DEF SnapCare
    <3>8. CASE ~(j.at < Len(Files))
      <4>1. J.step = "done" \/ (J.step = "number" /\ ~J.bad)
        BY <3>1, <3>8
      <4>2. ASSUME ~J.bad, NEW k \in Kinds PROVE Safe(logs[k], Owing(J, dropped, k))
        <5>1. PICK l \in 1 .. Len(Files) : Files[l] = k
          BY <3>6
        <5>2. l <= j.at
          BY <3>2, <3>6, <3>8
        <5>. QED BY <2>2, <3>5, <4>2, <5>1, <5>2
      <4>. QED BY <4>1, <4>2 DEF SnapCare
    <3>. QED BY <3>7, <3>8
  <2>5. CASE Number(p)
    <3>1. snaps \in [Snaps -> [dir: BOOLEAN, full: BOOLEAN, forced: BOOLEAN,
                      task: Tasks \cup {NoTask}, view: [Kinds -> SUBSET Records]]]
      BY DEF EngineInv, SnapsOK, Snapshot
    <3>2. j.step = "number" /\ J.step = "collect" /\ J.at = j.at
      BY <1>0, <2>5, <3>1, NumberJob
    <3>3. J.at = 1
      BY <1>0, <3>2 DEF JobsOK, JobOK, Places
    <3>4. \A k \in Kinds : Safe(logs[k], Owing(J, dropped, k))
      BY <1>0, <1>5, <2>1, <2>2, <3>2 DEF SnapCare
    <3>5. \A l \in 1 .. Len(Restored) : ~(l < J.at)
      BY <3>3
    <3>. HIDE DEF J
    <3>. QED BY <3>2, <3>4, <3>5 DEF SnapCare
  <2>6. CASE Collect(p)
    <3>. DEFINE k == Restored[j.at]
    <3>1. /\ j.step = "collect" /\ j.at \in 1 .. Len(Restored) /\ k \in Kinds \ {"surfacings"}
          /\ J.got = [j.got EXCEPT ![k] = Read(k)]
          /\ j.at # Len(Restored) => J.step = "collect" /\ J.at = j.at + 1
          /\ j.at = Len(Restored) => J.step = "mkdir" /\ J.at = 1
      BY <1>0, <2>6, CollectJob
    <3>2. \A h \in Kinds : Safe(logs[h], Owing(j, dropped, h))
      BY <1>0, <1>5, <2>1, <3>1 DEF SnapCare
    <3>3. \A l \in 1 .. Len(Restored) : l < j.at => Held(j, logs, dropped, Restored[l])
      BY <1>0, <1>5, <2>1, <3>1 DEF SnapCare
    <3>4. J.got[k] = Read(k) /\ \A h \in Kinds \ {k} : J.got[h] = j.got[h]
      BY <1>0, <3>1
    <3>5. \A r \in Owing(j, dropped, k) : AccountedIn(Written(logs[k]), k, r, Read(k))
      BY <3>1, <3>2, ReadHolds
    <3>6. Held(J, logs, dropped, k)
      BY <2>2, <3>4, <3>5 DEF Held
    <3>7. ASSUME NEW h \in Kinds, h # k, Held(j, logs, dropped, h) PROVE Held(J, logs, dropped, h)
      BY <2>2, <3>4, <3>7 DEF Held
    <3>8. Len(Restored) \in Nat /\ \A l \in 1 .. Len(Restored) : Restored[l] \in Kinds
      BY KindLists
    <3>9. \A l \in 1 .. Len(Restored) : l <= j.at => Held(J, logs, dropped, Restored[l])
      BY <3>1, <3>3, <3>6, <3>7, <3>8
    <3>10. \A h \in Kinds : Safe(logs[h], Owing(J, dropped, h))
      BY <2>2, <3>2
    <3>. HIDE DEF J, k
    <3>11. CASE j.at # Len(Restored)
      BY <3>1, <3>9, <3>10, <3>11 DEF SnapCare
    <3>12. CASE j.at = Len(Restored)
      <4>1. ASSUME NEW h \in Kinds \ {"surfacings"} PROVE Held(J, logs, dropped, h)
        <5>1. PICK l \in 1 .. Len(Restored) : Restored[l] = h
          BY KindLists
        <5>2. l <= j.at
          BY <3>8, <3>12
        <5>. QED BY <3>9, <5>1, <5>2
      <4>. QED BY <3>1, <3>12, <4>1 DEF SnapCare
    <3>. QED BY <3>11, <3>12
  <2>7. CASE Mkdir(p)
    <3>1. j.step = "mkdir" /\ J.step = "publish" /\ J.got = j.got
      BY <1>0, <2>7, MkdirJob
    <3>2. \A k \in Kinds \ {"surfacings"} : Held(j, logs, dropped, k)
      BY <1>0, <1>5, <2>1, <3>1 DEF SnapCare
    <3>3. \A k \in Kinds \ {"surfacings"} : Held(J, logs, dropped, k)
      BY <2>2, <3>1, <3>2 DEF Held
    <3>. HIDE DEF J
    <3>. QED BY <3>1, <3>3 DEF SnapCare
  <2>8. CASE Publish(p) /\ j.op = "hook"
    <3>1. J.step = "done"
      BY <1>0, <2>8, PublishJob
    <3>. QED BY <3>1 DEF SnapCare
  <2>9. CASE CaptureNew(p)
    <3>1. J.step = "capture"
      BY <1>0, <2>9, CaptureNewJob
    <3>. QED BY <3>1 DEF SnapCare
  <2>10. CASE CaptureKnown(p)
    <3>1. J.step = "capture"
      BY <1>0, <2>10, CaptureKnownJob
    <3>. QED BY <3>1 DEF SnapCare
  <2>11. CASE CaptureEnd(p)
    <3>1. J.step = "check" /\ J.at = 1
      BY <1>0, <2>11, CaptureEndJob
    <3>2. \A l \in 1 .. Len(Files) : ~(l < J.at)
      BY <3>1
    <3>. HIDE DEF J
    <3>. QED BY <3>1, <3>2 DEF SnapCare
  <2>12. CASE RestoreTask(p) \/ RestoreLog(p) \/ Gather(p) \/ Surface(p)
    <3>1. j.op \in {"restore", "handoff"}
      BY <2>12 DEF RestoreTask, RestoreLog, Gather, Surface, At
    <3>. QED BY <1>5, <2>1, <3>1
  <2>. QED BY <1>5, <2>4, <2>5, <2>6, <2>7, <2>8, <2>9, <2>10, <2>11, <2>12 DEF Goes
<1>. QED BY <1>1, <1>2, <1>3, <1>4, <1>5, JobSteps

\* So it always holds.
LEMMA SnapshotsCareInvariant == Spec => []SnapshotsCare
<1>1. Init => SnapshotsCare
  BY DEF Init, SnapshotsCare, SnapCare, NoJob
<1>. QED BY <1>1, SnapCareNext, EngineInvariant, ProvenanceInvariant, AckedEndedInvariant,
            KnownAckedInvariant, PTL DEF Spec

\* A snapshot that was not forced is no shorter than the history acknowledged
\* before it started, whatever other processes appended or tore while it
\* checked and read one file after the other: what it found clean it can still
\* read, since a complete line never changes.
THEOREM SnapshotsAreComplete == Spec => SnapshotIsComplete
<1>. DEFINE A == \A p \in Procs :
        (job[p].step = "publish" /\ job'[p].step # "publish" /\ snaps' # snaps /\ ~job[p].forced) =>
            \A k \in Kinds \ {"surfacings"} : \A r \in job[p].known[k] \ dropped[k] :
                Accounted(k, r, snaps'[job[p].num].view[k])
<1>1. EngineInv /\ SnapshotsCare /\ [Next]_vars => A
  <2>. SUFFICES ASSUME EngineInv, SnapshotsCare, [Next]_vars, NEW p \in Procs,
                       job[p].step = "publish", job'[p].step # "publish", snaps' # snaps, ~job[p].forced,
                       NEW k \in Kinds \ {"surfacings"}, NEW r \in job[p].known[k] \ dropped[k]
                PROVE  Accounted(k, r, snaps'[job[p].num].view[k])
    OBVIOUS
  <2>1. JobsOK /\ snaps \in [Snaps -> Snapshot]
    BY DEF EngineInv, SnapsOK
  <2>2. job[p].op \in {"snapshot", "hook"}
    BY <2>1 DEF JobsOK, JobOK, Shape, NoJob
  <2>3. AccountedIn(Written(logs[k]), k, r, job[p].got[k])
    BY <2>2 DEF SnapshotsCare, SnapCare, Held, Owing
  <2>4. Moves(p)
    BY OwnOrKept DEF KeptJob
  <2>5. Quiet(p)
    BY <2>4, OtherJobs, SingleRecord, SurfaceRecord, CaptureRecord, RestoreBatch DEF Moves
  <2>6. /\ job[p].num \in Snaps
        /\ snaps' = [snaps EXCEPT ![job[p].num] =
                    [dir |-> TRUE, full |-> TRUE, forced |-> job[p].forced,
                     task |-> job[p].task, view |-> job[p].got]]
    BY <2>5, SnapsMove
  <2>7. snaps'[job[p].num].view = job[p].got
    BY <2>1, <2>6
  <2>. QED BY <2>3, <2>7, AccountedDef
<1>2. Spec => [][A]_snaps
  <2>1. EngineInv /\ SnapshotsCare /\ [Next]_vars => [A]_snaps
    BY <1>1
  <2>. HIDE DEF A
  <2>. QED BY <2>1, EngineInvariant, SnapshotsCareInvariant, PTL DEF Spec
<1>. QED BY <1>2 DEF SnapshotIsComplete

\* What a handoff says of kind k: it gives the section up, or what it shows
\* accounts for all it owes but for closed failures.
Honest(j, L, D, k) ==
    \/ k \in j.cut
    \/ \A r \in Owing(j, D, k) :
          AccountedIn(Written(L[k]), k, r, j.got[k]) \/ (k = "failures" /\ r.closed)

\* The kinds a handoff has a section for.
Handed == {HandoffKinds[i] : i \in 1 .. Len(HandoffKinds)}

\* A kind that a handoff could not read in full has a complete line that does
\* not parse, which is still there when the file is checked.
HandCare(j, L, D) ==
    j.op = "handoff" =>
        /\ j.step = "gather" =>
              \A l \in 1 .. Len(HandoffKinds) :
                  l < j.at => Honest(j, L, D, HandoffKinds[l]) \/ Spoilt(L[HandoffKinds[l]])
        /\ j.step = "surface" => \A k \in Handed : Honest(j, L, D, k) \/ Spoilt(L[k])
        /\ j.step = "check" =>
              \A k \in Handed :
                  \/ Honest(j, L, D, k) \/ j.bad
                  \/ Spoilt(L[k]) /\ \A l \in 1 .. Len(Files) : l < j.at => Files[l] # k
        /\ j.step = "done" => \A k \in Handed : Honest(j, L, D, k) \/ j.bad

\* Every handoff under way is careful.
HandoffsCare == \A p \in Procs : HandCare(job[p], logs, dropped)

\* What other processes append does not take from it.
LEMMA HandCareKept ==
  ASSUME EngineInv, LogGrows, NEW p \in Procs, KeptJob(p), HandCare(job[p], logs, dropped)
  PROVE  HandCare(job'[p], logs', dropped')
<1>. DEFINE j == job[p]
            J == job'[p]
<1>1. /\ J.op = j.op /\ J.step = j.step /\ J.at = j.at /\ J.bad = j.bad /\ J.cut = j.cut
      /\ J.got = j.got /\ J.known = j.known
  BY DEF KeptJob
<1>2. dropped' = dropped /\ \A k \in Kinds : Written(logs[k]) \subseteq Written(logs'[k])
  BY DEF LogGrows
<1>3. \A k : Owing(J, dropped', k) = Owing(j, dropped, k)
  BY <1>1, <1>2 DEF Owing
<1>4. ASSUME NEW k \in Kinds, Honest(j, logs, dropped, k)
      PROVE  Honest(J, logs', dropped', k)
  <2>1. CASE k \in j.cut
    BY <1>1, <2>1 DEF Honest
  <2>2. CASE k \notin j.cut
    <3>1. ASSUME NEW r \in Owing(J, dropped', k)
          PROVE  AccountedIn(Written(logs'[k]), k, r, J.got[k]) \/ (k = "failures" /\ r.closed)
      <4>1. AccountedIn(Written(logs[k]), k, r, J.got[k]) \/ (k = "failures" /\ r.closed)
        BY <1>1, <1>3, <1>4, <2>2, <3>1 DEF Honest
      <4>. QED BY <1>2, <4>1, AccountedStays
    <3>. QED BY <3>1 DEF Honest
  <2>. QED BY <2>1, <2>2
<1>5. \A k \in Kinds : Spoilt(logs[k]) => Spoilt(logs'[k])
  BY SpoiltStays
<1>6. /\ \A l \in 1 .. Len(HandoffKinds) : HandoffKinds[l] \in Kinds
      /\ \A k \in Handed : k \in Kinds
  BY KindLists DEF Handed
<1>. HIDE DEF j, J
<1>8. HandCare(j, logs, dropped)
  BY DEF j
<1>9. HandCare(J, logs', dropped')
  BY <1>1, <1>4, <1>5, <1>6, <1>8 DEF HandCare
<1>. QED BY <1>9 DEF J

\* What is shown of a kind of which everything owed is safe.
LEMMA ShownHolds ==
  ASSUME EngineInv, Provenance, NEW k \in Kinds, NEW R, Safe(logs[k], R)
  PROVE  \A r \in R : AccountedIn(Written(logs[k]), k, r, Shown(k)) \/ (k = "failures" /\ r.closed)
<1>1. CASE k # "failures"
  BY <1>1, ReadHolds DEF Shown
<1>2. CASE k = "failures"
  <2>1. logs[k] \in Seq(Line)
    BY EngineTypes
  <2>2. Parsed(logs[k]) \subseteq Written(logs[k]) /\ Parsed(logs[k]) \in SUBSET Records
    BY <2>1, FileRecords
  <2>3. R \subseteq Parsed(logs[k])
    BY SafeParsed
  <2>4. Shown(k) = {f \in View("failures", Parsed(logs[k])) : ~f.closed}
    BY <1>2 DEF Shown, Read
  <2>5. ASSUME NEW r \in R
        PROVE  AccountedIn(Written(logs[k]), k, r, Shown(k)) \/ r.closed
    <3>1. AccountedIn(Parsed(logs[k]), k, r, Shown(k)) \/ r.closed
      BY <1>2, <2>2, <2>3, <2>4, OpenAccounts
    <3>. QED BY <2>2, <3>1, AccountedStays
  <2>. QED BY <1>2, <2>5
<1>. QED BY <1>1, <1>2

\* Its own steps keep it: a kind it could not read in full is spoilt, and the
\* check that comes later still finds the line.
LEMMA HandCareNext ==
  EngineInv /\ Provenance /\ AckedEnded /\ KnownAcked /\ HandoffsCare /\ [Next]_vars => HandoffsCare'
<1>. SUFFICES ASSUME EngineInv, Provenance, AckedEnded, KnownAcked, HandoffsCare, [Next]_vars,
                     NEW p \in Procs
              PROVE  HandCare(job'[p], logs', dropped')
  BY DEF HandoffsCare
<1>. DEFINE j == job[p]
            J == job'[p]
<1>0. /\ LogTypeOK /\ JobsOK /\ \A k \in Kinds : IsFiniteSet(Written(logs[k]))
      /\ j.got \in [Kinds -> SUBSET Records]
      /\ HandCare(j, logs, dropped)
  BY DEF EngineInv, LogInv, FilesFinite, JobsOK, JobOK, Job, HandoffsCare
<1>1. CASE KeptJob(p)
  <2>1. CASE Idle(p)
    <3>1. J = NoJob
      BY <1>1, <2>1 DEF KeptJob, Idle
    <3>. QED BY <3>1 DEF HandCare, NoJob
  <2>2. CASE ~Idle(p)
    BY <1>0, <1>1, <2>2, Running, HandCareKept
  <2>. QED BY <2>1, <2>2
<1>2. CASE J = NoJob
  BY <1>2 DEF HandCare, NoJob
<1>3. CASE Begins(p)
  <2>1. J.at = 1 /\ (J.op = "handoff" => J.step = "gather")
    BY <1>3, BeginsFacts
  <2>2. \A l \in 1 .. Len(HandoffKinds) : ~(l < J.at)
    BY <2>1
  <2>. HIDE DEF J
  <2>3. HandCare(J, logs', dropped')
    BY <2>1, <2>2 DEF HandCare
  <2>. QED BY <2>3 DEF J
<1>4. CASE Goes(p) /\ J.op # "handoff"
  BY <1>4 DEF HandCare
<1>5. CASE Goes(p) /\ J.op = "handoff"
  <2>1. /\ J.op = j.op /\ J.known = j.known /\ J.cut = j.cut
        /\ logs' = logs /\ dropped' = dropped
    BY <1>5, GoesFacts DEF Same
  <2>. SUFFICES HandCare(J, logs, dropped)
    BY <2>1
  <2>2. \A k : Owing(J, dropped, k) = Owing(j, dropped, k)
    BY <2>1 DEF Owing
  <2>3. \A k \in Kinds : Owing(j, dropped, k) \subseteq acked[k] \ dropped[k]
    BY DEF KnownAcked, Owing
  <2>4. ASSUME NEW k \in Kinds, J.got[k] = j.got[k], Honest(j, logs, dropped, k)
        PROVE  Honest(J, logs, dropped, k)
    BY <2>1, <2>2, <2>4 DEF Honest
  <2>5. Handed \subseteq Kinds
    BY KindLists DEF Handed
  <2>6. CASE Gather(p)
    <3>. DEFINE k == HandoffKinds[j.at]
                v == IF k \in j.cut THEN {} ELSE Shown(k)
    <3>1. /\ j.step = "gather" /\ j.at \in 1 .. Len(HandoffKinds) /\ k \in Kinds
          /\ J.got = [j.got EXCEPT ![k] = v]
          /\ j.at # Len(HandoffKinds) => J.step = "gather" /\ J.at = j.at + 1
          /\ j.at = Len(HandoffKinds) => J.step = "surface" /\ J.at = 1
      BY <1>0, <2>6, GatherJob
    <3>2. J.got[k] = v /\ \A h \in Kinds \ {k} : J.got[h] = j.got[h]
      BY <1>0, <3>1
    <3>3. Honest(J, logs, dropped, k) \/ Spoilt(logs[k])
      <4>1. CASE k \in j.cut
        BY <2>1, <4>1 DEF Honest
      <4>2. CASE k \notin j.cut /\ Safe(logs[k], Owing(j, dropped, k))
        <5>1. J.got[k] = Shown(k)
          BY <3>2, <4>2
        <5>2. \A r \in Owing(j, dropped, k) :
                 AccountedIn(Written(logs[k]), k, r, Shown(k)) \/ (k = "failures" /\ r.closed)
          BY <3>1, <4>2, ShownHolds
        <5>. HIDE DEF k, v
        <5>. QED BY <2>2, <5>1, <5>2 DEF Honest
      <4>3. CASE ~Safe(logs[k], Owing(j, dropped, k))
        BY <2>3, <3>1, <4>3, SafeOrSpoilt
      <4>. QED BY <4>1, <4>2, <4>3
    <3>4. \A l \in 1 .. Len(HandoffKinds) :
             l < j.at => Honest(j, logs, dropped, HandoffKinds[l]) \/ Spoilt(logs[HandoffKinds[l]])
      BY <1>0, <1>5, <2>1, <3>1 DEF HandCare
    <3>5. Len(HandoffKinds) \in Nat /\ \A l \in 1 .. Len(HandoffKinds) : HandoffKinds[l] \in Kinds
      BY KindLists
    <3>. HIDE DEF J, v
    <3>6. ASSUME NEW l \in 1 .. Len(HandoffKinds), l <= j.at
          PROVE  Honest(J, logs, dropped, HandoffKinds[l]) \/ Spoilt(logs[HandoffKinds[l]])
      <4>1. CASE HandoffKinds[l] = k
        BY <3>3, <4>1
      <4>2. CASE HandoffKinds[l] # k
        <5>1. l < j.at
          BY <3>1, <3>6, <4>2
        <5>. QED BY <2>4, <3>2, <3>4, <3>5, <4>2, <5>1
      <4>. QED BY <4>1, <4>2
    <3>. HIDE DEF k
    <3>7. CASE j.at # Len(HandoffKinds)
      <4>1. \A l \in 1 .. Len(HandoffKinds) : l < J.at => l <= j.at
        BY <3>1, <3>7
      <4>. QED BY <3>1, <3>6, <3>7, <4>1 DEF HandCare
    <3>8. CASE j.at = Len(HandoffKinds)
      <4>1. \A h \in Handed : Honest(J, logs, dropped, h) \/ Spoilt(logs[h])
        BY <3>5, <3>6, <3>8 DEF Handed
      <4>. QED BY <3>1, <3>8, <4>1 DEF HandCare
    <3>. QED BY <3>7, <3>8
  <2>7. CASE Surface(p)
    <3>1. j.step = "surface" /\ J.step = "check" /\ J.at = 1 /\ J.got = j.got
      BY <1>0, <2>7, SurfaceJob
    <3>2. \A k \in Handed : Honest(j, logs, dropped, k) \/ Spoilt(logs[k])
      BY <1>0, <1>5, <2>1, <3>1 DEF HandCare
    <3>3. \A k \in Handed : Honest(J, logs, dropped, k) \/ Spoilt(logs[k])
      BY <2>4, <2>5, <3>1, <3>2
    <3>4. \A l \in 1 .. Len(Files) : ~(l < J.at)
      BY <3>1
    <3>. HIDE DEF J
    <3>. QED BY <3>1, <3>3, <3>4 DEF HandCare
  <2>8. CASE Check(p)
    <3>. DEFINE f == Files[j.at]
    <3>1. /\ j.step = "check" /\ J.bad = (j.bad \/ ~Clean(logs[f])) /\ J.got = j.got
          /\ j.at < Len(Files) => J.step = "check" /\ J.at = j.at + 1
          /\ ~(j.at < Len(Files)) => J.step = "done"
      BY <1>0, <1>5, <2>1, <2>8, CheckJob
    <3>2. j.at \in 1 .. Len(Files) /\ f \in Kinds
      BY <1>0, <3>1, KindLists DEF JobsOK, JobOK, Places
    <3>3. ASSUME NEW k \in Handed
          PROVE  \/ Honest(J, logs, dropped, k) \/ J.bad
                 \/ Spoilt(logs[k]) /\ \A l \in 1 .. Len(Files) : l <= j.at => Files[l] # k
      <4>1. \/ Honest(j, logs, dropped, k) \/ j.bad
            \/ Spoilt(logs[k]) /\ \A l \in 1 .. Len(Files) : l < j.at => Files[l] # k
        BY <1>0, <1>5, <2>1, <3>1 DEF HandCare
      <4>2. CASE Honest(j, logs, dropped, k)
        BY <2>4, <2>5, <3>1, <4>2
      <4>3. CASE j.bad
        BY <3>1, <4>3
      <4>4. CASE Spoilt(logs[k]) /\ \A l \in 1 .. Len(Files) : l < j.at => Files[l] # k
        <5>1. CASE f = k
          BY <3>1, <4>4, <5>1, CleanNotSpoilt
        <5>2. CASE f # k
          <6>1. \A l \in 1 .. Len(Files) : l <= j.at => Files[l] # k
            BY <3>2, <4>4, <5>2
          <6>. QED BY <4>4, <6>1
        <5>. QED BY <5>1, <5>2
      <4>. QED BY <4>1, <4>2, <4>3, <4>4
    <3>4. Len(Files) \in Nat /\ \A k \in Kinds : \E l \in 1 .. Len(Files) : Files[l] = k
      BY KindLists
    <3>. HIDE DEF J, f
    <3>5. CASE j.at < Len(Files)
      <4>1. \A l \in 1 .. Len(Files) : l < J.at => l <= j.at
        BY <3>1, <3>2, <3>5
      <4>. QED BY <3>1, <3>3, <3>5, <4>1 DEF HandCare
    <3>6. CASE ~(j.at < Len(Files))
      <4>1. ASSUME NEW k \in Handed PROVE Honest(J, logs, dropped, k) \/ J.bad
        <5>1. PICK l \in 1 .. Len(Files) : Files[l] = k
          BY <2>5, <3>4
        <5>2. l <= j.at
          BY <3>2, <3>4, <3>6
        <5>. QED BY <3>3, <5>1, <5>2
      <4>. QED BY <3>1, <3>6, <4>1 DEF HandCare
    <3>. QED BY <3>5, <3>6
  <2>9. CASE ~Gather(p) /\ ~Surface(p) /\ ~Check(p)
    <3>1. j.op \in {"snapshot", "hook", "restore"}
      BY <1>5, <2>9 DEF Goes, Number, Collect, Mkdir, RestoreTask, RestoreLog, CaptureNew, CaptureKnown,
                        CaptureEnd, At
    <3>. QED BY <1>5, <2>1, <3>1
  <2>. QED BY <2>6, <2>7, <2>8, <2>9
<1>. QED BY <1>1, <1>2, <1>3, <1>4, <1>5, JobSteps

\* So it always holds.
LEMMA HandoffsCareInvariant == Spec => []HandoffsCare
<1>1. Init => HandoffsCare
  BY DEF Init, HandoffsCare, HandCare, NoJob
<1>. QED BY <1>1, HandCareNext, EngineInvariant, ProvenanceInvariant, AckedEndedInvariant,
            KnownAckedInvariant, PTL DEF Spec

\* A handoff never shows a shorter history as if it were all of it: what it does
\* not show it names as given up, or it reports a file that is not clean, though
\* it reads the records first and the reports later, and others append between.
THEOREM HandoffsAreHonest == Spec => []HandoffIsHonest
<1>1. HandoffsCare => HandoffIsHonest
  <2>. SUFFICES ASSUME HandoffsCare, NEW p \in Procs, job[p].op = "handoff", job[p].step = "done",
                       NEW i \in 1 .. Len(HandoffKinds)
                PROVE  LET k == HandoffKinds[i] IN
                       job[p].bad \/ k \in job[p].cut \/
                           \A r \in job[p].known[k] \ dropped[k] :
                               Accounted(k, r, job[p].got[k]) \/ (k = "failures" /\ r.closed)
    BY DEF HandoffIsHonest
  <2>. DEFINE k == HandoffKinds[i]
  <2>1. Honest(job[p], logs, dropped, k) \/ job[p].bad
    BY DEF HandoffsCare, HandCare, Handed
  <2>. HIDE DEF k
  <2>2. job[p].bad \/ k \in job[p].cut \/
           \A r \in job[p].known[k] \ dropped[k] :
               Accounted(k, r, job[p].got[k]) \/ (k = "failures" /\ r.closed)
    BY <2>1, AccountedDef DEF Honest, Owing
  <2>. QED BY <2>2 DEF k
<1>. QED BY <1>1, HandoffsCareInvariant, PTL
----------------------------------------------------------------------------
(* Operations that started on files without a torn last line.              *)

\* As long as nothing was torn since, no file has one.
SoundClosed == \A p \in Procs : job[p].sound => \A k \in Kinds : ~Open(logs[k])

\* What an append does to the last line of its file.
LEMMA PutsOpen ==
  ASSUME EngineInv, NEW p \in Procs, NEW cut \in Texts, NEW ended \in BOOLEAN, Puts(p, cut, ended),
         NEW k \in Kinds, ~Open(logs[k])
  PROVE  /\ Open(logs'[k]) => ended = FALSE
         /\ Parsed(logs[k]) \subseteq Parsed(logs'[k])
<1>. DEFINE log == logs[k]
            Goal == /\ Open(logs'[k]) => ended = FALSE
                    /\ Parsed(log) \subseteq Parsed(logs'[k])
<1>1. log \in Seq(Line) /\ ~Open(log)
  BY EngineTypes
<1>2. ASSUME logs'[k] = logs[k] PROVE Goal
  BY <1>1, <1>2
<1>3. ASSUME NEW r \in Records, NEW text \in Texts, 1 \in 1 .. Len(queue[p]),
             queue[p][1].kind = k, queue[p][1].rec = r, logs'[k] = Put(logs[k], r, text, ended)
      PROVE  Goal
  <2>. HIDE DEF log
  <2>1. Open(Put(log, r, text, ended)) => ended = FALSE
    BY <1>1, PutOpen
  <2>2. Parsed(log) \subseteq Parsed(Put(log, r, text, ended))
    BY <1>1, PutBounds
  <2>3. logs'[k] = Put(log, r, text, ended)
    BY <1>3 DEF log
  <2>. QED BY <2>1, <2>2, <2>3
<1>. HIDE DEF Goal
<1>4. Goal
  BY <1>2, <1>3, PutsOne
<1>. QED BY <1>4 DEF log, Goal

\* A job that is still sound lost nothing it could read.
LEMMA SoundGrows ==
  ASSUME EngineInv, SoundClosed, [Next]_vars, NEW p \in Procs, job[p].sound, ~Idle(p), job'[p].sound
  PROVE  \A k \in Kinds : ~Open(logs'[k]) /\ Parsed(logs[k]) \subseteq Parsed(logs'[k])
<1>1. \A k \in Kinds : ~Open(logs[k])
  BY DEF SoundClosed
<1>2. CASE UNCHANGED <<logs, acked, dropped>>
  BY <1>1, <1>2
<1>3. ASSUME NEW q \in Procs, Puts(q, "json", TRUE)
      PROVE  \A k \in Kinds : ~Open(logs'[k]) /\ Parsed(logs[k]) \subseteq Parsed(logs'[k])
  <2>1. "json" \in Texts /\ TRUE \in BOOLEAN
    BY DEF Texts
  <2>. QED BY <1>1, <1>3, <2>1, PutsOpen
<1>4. ASSUME NEW q \in Procs, NEW cut \in Cuts, Tear(q, cut) PROVE FALSE
  <2>1. job'[p].sound = FALSE
    BY <1>4, TearJob DEF EngineInv
  <2>. QED BY <2>1
<1>. QED BY <1>2, <1>3, <1>4, FileMoves

\* Only an append that is killed leaves an open line, and it ends the soundness of
\* every job.
LEMMA SoundNext == EngineInv /\ SoundClosed /\ [Next]_vars => SoundClosed'
<1>. SUFFICES ASSUME EngineInv, SoundClosed, [Next]_vars, NEW p \in Procs, job'[p].sound,
                     NEW k \in Kinds
              PROVE  ~Open(logs'[k])
  BY DEF SoundClosed
<1>1. CASE KeptJob(p)
  <2>1. job[p].sound
    BY <1>1 DEF KeptJob
  <2>2. ~Idle(p)
    BY <2>1, NoJobFacts DEF Idle
  <2>. QED BY <2>1, <2>2, SoundGrows
<1>2. CASE job'[p] = NoJob
  BY <1>2, NoJobFacts
<1>3. CASE Begins(p)
  BY <1>3, BeginsFacts
<1>4. CASE Goes(p)
  <2>1. job[p].sound /\ logs' = logs
    BY <1>4, GoesFacts DEF Same
  <2>. QED BY <2>1 DEF SoundClosed
<1>. QED BY <1>1, <1>2, <1>3, <1>4, JobSteps

\* So it always holds.
LEMMA SoundInvariant == Spec => []SoundClosed
<1>1. Init => SoundClosed
  BY NoJobFacts DEF Init, SoundClosed
<1>. QED BY <1>1, SoundNext, EngineInvariant, PTL DEF Spec

\* A whole record that is appended to a file without a torn line can be read.
LEMMA Lands ==
  ASSUME EngineInv, NEW p \in Procs, AppendNext(p), \A k \in Kinds : ~Open(logs[k])
  PROVE  LET w == queue[p][1] IN
         /\ w.kind \in Kinds /\ w.rec \in Records /\ queue[p] # <<>> /\ queue'[p] = Tail(queue[p])
         /\ w.rec.stmt \notin SplitStmts => w.rec \in Parsed(logs'[w.kind])
<1>. DEFINE w == Head(queue[p])
            text == LineText(w.rec, "json")
<1>1. Puts(p, "json", TRUE) /\ queue' = [queue EXCEPT ![p] = Tail(@)]
  BY AppendPuts
<1>2. /\ queue \in [Procs -> Seq(Write)] /\ queue[p] # <<>> /\ w \in Write /\ "json" \in Texts
      /\ logs \in [Kinds -> Seq(Line)]
  BY <1>1 DEF EngineInv, LogInv, LogTypeOK, Puts, Texts
<1>3. w.kind \in Kinds /\ w.rec \in Records /\ w = queue[p][1] /\ queue'[p] = Tail(queue[p])
  BY <1>1, <1>2 DEF Write
<1>4. text \in Texts
  BY <1>2, LineTextType
<1>5. w.rec.stmt \notin SplitStmts => text = "json"
  BY RecordsAssumption DEF LineText
<1>6. logs'[w.kind] = Put(logs[w.kind], w.rec, text, TRUE)
  BY <1>1, <1>2, <1>3 DEF Puts
<1>. DEFINE log == logs[w.kind]
            r == w.rec
<1>8. log \in Seq(Line) /\ r \in Records /\ ~Open(log) /\ logs'[w.kind] = Put(log, r, text, TRUE)
  BY <1>2, <1>3, <1>6
<1>. HIDE DEF text, log, r
<1>9. text = "json" => r \in Parsed(Put(log, r, text, TRUE))
  BY <1>4, <1>8, PutBounds
<1>. HIDE DEF w
<1>7. w.rec.stmt \notin SplitStmts => w.rec \in Parsed(logs'[w.kind])
  BY <1>5, <1>8, <1>9 DEF r
<1>. QED BY <1>2, <1>3, <1>7 DEF w

\* What s states waits in the queue q.
Waits(q, k, s) == \E i \in 1 .. Len(q) : q[i].kind = k /\ q[i].rec.stmt = s

\* A statement the hook has recorded or found can be read, is lost to a split
\* record, or waits to be appended.
HookCare(j, L, q) ==
    (j.op = "hook" /\ j.sound) =>
        /\ j.step = "capture" =>
              /\ \A s \in Stated(j.got["discoveries"]) :
                    \/ s \in SplitStmts \cup Stated(Parsed(L["discoveries"]))
                    \/ Waits(q, "discoveries", s)
              /\ \A i \in 1 .. Len(j.script) : i < j.at => j.script[i] \in Stated(j.got["discoveries"])
        /\ j.step # "capture" =>
              \A i \in 1 .. Len(j.script) :
                  j.script[i] \in SplitStmts \cup Stated(Parsed(L["discoveries"]))

\* So it is for every hook under way.
HooksCare == \A p \in Procs : HookCare(job[p], logs, queue[p])

\* A statement is captured, or found among the ones there are; what waits lands on a
\* line of its own.
LEMMA HookCareNext == EngineInv /\ SoundClosed /\ HooksCare /\ [Next]_vars => HooksCare'
<1>. SUFFICES ASSUME EngineInv, SoundClosed, HooksCare, [Next]_vars, NEW p \in Procs,
                     job'[p].op = "hook", job'[p].sound
              PROVE  HookCare(job'[p], logs', queue'[p])
  BY DEF HooksCare, HookCare
<1>. DEFINE j == job[p]
            J == job'[p]
            d == "discoveries"
<1>0. /\ LogTypeOK /\ JobsOK /\ \A k \in Kinds : IsFiniteSet(Written(logs[k]))
      /\ nextId \in 1 .. MaxId + 1
      /\ j.got \in [Kinds -> SUBSET Records] /\ j.script \in Seq(Stmts) /\ j.at \in Nat
      /\ HookCare(j, logs, queue[p])
      /\ queue \in [Procs -> Seq(Write)]
  BY DEF EngineInv, LogInv, LogTypeOK, FilesFinite, JobsOK, JobOK, Job, HooksCare
<1>1. CASE KeptJob(p) /\ (queue'[p] = queue[p] \/ Idle(p) \/ AppendNext(p))
  <2>1. /\ j.op = "hook" /\ j.sound /\ J.step = j.step /\ J.at = j.at /\ J.got = j.got
        /\ J.script = j.script
    BY <1>1 DEF KeptJob
  <2>2. ~Idle(p) /\ d \in Kinds
    BY <1>0, <2>1 DEF Idle, NoJob, JobsOK, JobOK, Places
  <2>3. Parsed(logs[d]) \subseteq Parsed(logs'[d])
    BY <2>1, <2>2, SoundGrows
  <2>4. Stated(Parsed(logs[d])) \subseteq Stated(Parsed(logs'[d]))
    BY <2>3 DEF Stated
  <2>5. ASSUME NEW s, Waits(queue[p], d, s)
        PROVE  s \in SplitStmts \cup Stated(Parsed(logs'[d])) \/ Waits(queue'[p], d, s)
    <3>1. CASE queue'[p] = queue[p]
      BY <2>5, <3>1
    <3>2. CASE AppendNext(p)
      <4>1. /\ queue'[p] = Tail(queue[p]) /\ queue[p] # <<>> /\ queue[p] \in Seq(Write)
            /\ queue[p][1].rec.stmt \notin SplitStmts => queue[p][1].rec \in Parsed(logs'[queue[p][1].kind])
        BY <1>0, <2>1, <3>2, Lands DEF SoundClosed
      <4>2. PICK i \in 1 .. Len(queue[p]) : queue[p][i].kind = d /\ queue[p][i].rec.stmt = s
        BY <2>5 DEF Waits
      <4>3. CASE i = 1
        BY <4>1, <4>2, <4>3 DEF Stated
      <4>4. CASE i # 1
        <5>1. i - 1 \in 1 .. Len(queue'[p]) /\ queue'[p][i - 1] = queue[p][i]
          BY <4>1, <4>2, <4>4
        <5>. QED BY <4>2, <5>1 DEF Waits
      <4>. QED BY <4>3, <4>4
    <3>. QED BY <1>1, <2>2, <3>1, <3>2
  <2>. HIDE DEF j, J, d
  <2>6. HookCare(j, logs, queue[p])
    BY <1>0
  <2>7. HookCare(J, logs', queue'[p])
    BY <2>1, <2>4, <2>5, <2>6 DEF HookCare, d
  <2>. QED BY <2>7 DEF J
<1>2. CASE J = NoJob
  BY <1>2 DEF HookCare, NoJob
<1>3. CASE Begins(p)
  <2>1. PICK script \in Transcripts : HookBegin(p, script)
    <3>1. ~(\E forced \in BOOLEAN : SnapBegin(p, forced))
      BY <1>0, SnapBeginJob
    <3>2. ~(\E n \in Snaps : RestoreBegin(p, n))
      <4>1. \A n \in Snaps : /\ snaps[n].task \in Tasks \cup {NoTask}
                             /\ snaps[n].view \in [Kinds -> SUBSET Records]
                             /\ \A h \in Kinds : IsFiniteSet(snaps[n].view[h])
        BY DEF EngineInv, SnapsOK, Snapshot
      <4>. QED BY <1>0, <4>1, RestoreBeginJob
    <3>3. ~(\E n \in 0 .. Len(CutOrder) : HandoffBegin(p, n))
      BY <1>0, HandoffBeginJob
    <3>. QED BY <1>3, <3>1, <3>2, <3>3 DEF Begins
  <2>2. /\ J.step = "capture" /\ J.at = 1 /\ d \in Kinds
        /\ J.got = [NoView EXCEPT ![d] = Parsed(logs[d])]
    BY <1>0, <2>1, HookBeginJob
  <2>3. J.got[d] = Parsed(logs[d])
    BY <2>2 DEF NoView
  <2>4. logs' = logs
    BY <1>3, BeginsFacts
  <2>5. \A i \in 1 .. Len(J.script) : ~(i < J.at)
    BY <2>2
  <2>. HIDE DEF J
  <2>6. HookCare(J, logs', queue'[p])
    BY <2>2, <2>3, <2>4, <2>5 DEF HookCare
  <2>. QED BY <2>6 DEF J
<1>4. CASE Goes(p)
  <2>1. /\ j.op = "hook" /\ j.sound /\ J.script = j.script /\ logs' = logs /\ queue[p] = <<>>
    BY <1>4, GoesFacts DEF Same
  <2>2. ASSUME NEW s, Waits(queue[p], d, s) PROVE FALSE
    BY <2>1, <2>2 DEF Waits
  <2>3. CASE CaptureNew(p)
    <3>. DEFINE s == j.script[j.at]
                f == Fresh(s)
    <3>1. /\ j.step = "capture" /\ J.step = "capture" /\ J.at = j.at + 1 /\ j.at <= Len(j.script)
          /\ J.got = [j.got EXCEPT ![d] = @ \cup {f}] /\ d \in Kinds
      BY <1>0, <2>3, CaptureNewJob
    <3>2. f.stmt = s
      BY DEF Fresh
    <3>3. queue'[p] = <<[kind |-> d, rec |-> f]>>
      BY <1>0, <2>3 DEF CaptureNew, Begin
    <3>4. Waits(queue'[p], d, s)
      BY <3>2, <3>3 DEF Waits
    <3>. HIDE DEF f
    <3>5. J.got[d] = j.got[d] \cup {f}
      BY <1>0, <3>1
    <3>6. Stated(J.got[d]) = Stated(j.got[d]) \cup {s}
      BY <3>2, <3>5 DEF Stated
    <3>7. /\ \A x \in Stated(j.got[d]) : x \in SplitStmts \cup Stated(Parsed(logs[d]))
          /\ \A i \in 1 .. Len(j.script) : i < j.at => j.script[i] \in Stated(j.got[d])
      BY <1>0, <2>1, <2>2, <3>1 DEF HookCare
    <3>8. \A i \in 1 .. Len(J.script) : i < J.at => J.script[i] \in Stated(J.got[d])
      <4>1. J.script = j.script /\ Len(j.script) \in Nat /\ j.at \in Nat /\ J.at = j.at + 1
        BY <1>0, <2>1, <3>1
      <4>. HIDE DEF J, j
      <4>2. ASSUME NEW i \in 1 .. Len(j.script), i < j.at + 1 PROVE j.script[i] \in Stated(J.got[d])
        <5>1. i < j.at \/ i = j.at
          BY <4>1, <4>2
        <5>. QED BY <3>6, <3>7, <5>1
      <4>. QED BY <4>1, <4>2
    <3>9. \A x \in Stated(J.got[d]) : x \in SplitStmts \cup Stated(Parsed(logs'[d])) \/ Waits(queue'[p], d, x)
      BY <2>1, <3>4, <3>6, <3>7
    <3>. HIDE DEF J, j
    <3>10. HookCare(J, logs', queue'[p])
      BY <3>1, <3>8, <3>9 DEF HookCare
    <3>. QED BY <3>10 DEF J
  <2>4. CASE CaptureKnown(p)
    <3>1. /\ j.step = "capture" /\ J.step = "capture" /\ J.at = j.at + 1 /\ j.at <= Len(j.script)
          /\ J.got = j.got /\ j.script[j.at] \in Stated(j.got[d])
      BY <1>0, <2>4, CaptureKnownJob
    <3>2. /\ \A x \in Stated(j.got[d]) : x \in SplitStmts \cup Stated(Parsed(logs[d]))
          /\ \A i \in 1 .. Len(j.script) : i < j.at => j.script[i] \in Stated(j.got[d])
      BY <1>0, <2>1, <2>2, <3>1 DEF HookCare
    <3>3. \A i \in 1 .. Len(J.script) : i < J.at => J.script[i] \in Stated(J.got[d])
      BY <1>0, <2>1, <3>1, <3>2
    <3>. HIDE DEF J, j
    <3>4. HookCare(J, logs', queue'[p])
      BY <2>1, <3>1, <3>2, <3>3 DEF HookCare
    <3>. QED BY <3>4 DEF J
  <2>5. CASE CaptureEnd(p)
    <3>1. j.step = "capture" /\ J.step = "check" /\ j.at > Len(j.script)
      BY <1>0, <2>5, CaptureEndJob
    <3>2. /\ \A x \in Stated(j.got[d]) : x \in SplitStmts \cup Stated(Parsed(logs[d]))
          /\ \A i \in 1 .. Len(j.script) : i < j.at => j.script[i] \in Stated(j.got[d])
      BY <1>0, <2>1, <2>2, <3>1 DEF HookCare
    <3>3. \A i \in 1 .. Len(J.script) : J.script[i] \in SplitStmts \cup Stated(Parsed(logs'[d]))
      <4>1. /\ J.script = j.script /\ Len(j.script) \in Nat /\ j.at \in Nat /\ j.at > Len(j.script)
            /\ logs' = logs
        BY <1>0, <2>1, <3>1
      <4>. HIDE DEF J, j
      <4>2. ASSUME NEW i \in 1 .. Len(j.script)
            PROVE  j.script[i] \in SplitStmts \cup Stated(Parsed(logs[d]))
        <5>1. i < j.at
          BY <4>1
        <5>. QED BY <3>2, <5>1
      <4>. QED BY <4>1, <4>2
    <3>. HIDE DEF J, j
    <3>4. HookCare(J, logs', queue'[p])
      BY <3>1, <3>3 DEF HookCare
    <3>. QED BY <3>4 DEF J
  <2>6. CASE Check(p) \/ Number(p) \/ Collect(p) \/ Mkdir(p) \/ (Publish(p) /\ j.op = "hook")
    <3>1. j.step # "capture"
      BY <2>6 DEF Check, Number, Collect, Mkdir, Publish, At
    <3>2. J.step # "capture"
      <4>0. snaps \in [Snaps -> [dir: BOOLEAN, full: BOOLEAN, forced: BOOLEAN,
                        task: Tasks \cup {NoTask}, view: [Kinds -> SUBSET Records]]]
            /\ task \in Tasks \cup {NoTask}
        BY DEF EngineInv, SnapsOK, Snapshot
      <4>1. Check(p) => J.step # "capture"
        BY <1>0, CheckJob
      <4>2. Number(p) => J.step # "capture"
        BY <1>0, <4>0, NumberJob
      <4>3. Collect(p) => J.step # "capture"
        BY <1>0, CollectJob
      <4>4. Mkdir(p) => J.step # "capture"
        BY <1>0, MkdirJob
      <4>5. (Publish(p) /\ j.op = "hook") => J.step # "capture"
        BY <1>0, PublishJob
      <4>. QED BY <2>6, <4>1, <4>2, <4>3, <4>4, <4>5
    <3>. HIDE DEF J, j
    <3>3. HookCare(j, logs, queue[p])
      BY <1>0 DEF j
    <3>4. HookCare(J, logs', queue'[p])
      BY <2>1, <3>1, <3>2, <3>3 DEF HookCare
    <3>. QED BY <3>4 DEF J
  <2>7. CASE RestoreTask(p) \/ RestoreLog(p) \/ Gather(p) \/ Surface(p)
    BY <2>1, <2>7 DEF RestoreTask, RestoreLog, Gather, Surface, At
  <2>. QED BY <1>4, <2>3, <2>4, <2>5, <2>6, <2>7 DEF Goes
<1>. QED BY <1>1, <1>2, <1>3, <1>4, JobSteps

\* So it always holds.
LEMMA HooksCareInvariant == Spec => []HooksCare
<1>1. Init => HooksCare
  BY DEF Init, HooksCare, HookCare, NoJob
<1>. QED BY <1>1, HookCareNext, EngineInvariant, SoundInvariant, PTL DEF Spec

\* Every CRITICAL item of the transcript can be read when the hook is done,
\* whatever other processes append in between, but for an item in which
\* splitlines finds a line break, if no append was ever torn under it.
THEOREM HooksCapture == Spec => []HookCaptures
<1>1. HooksCare => HookCaptures
  <2>. SUFFICES ASSUME HooksCare, NEW p \in Procs, job[p].op = "hook", job[p].step = "done", job[p].sound,
                       NEW i \in 1 .. Len(job[p].script)
                PROVE  job[p].script[i] \in SplitStmts \cup Stated(Parsed(logs["discoveries"]))
    BY DEF HookCaptures
  <2>. QED BY DEF HooksCare, HookCare
<1>. QED BY <1>1, HooksCareInvariant, PTL
----------------------------------------------------------------------------
(* Under the contract of ADR-0038: one operation at a time.                *)

\* A process that has nothing to do moves only by starting an operation.
LEMMA StartsAlone ==
  ASSUME OneWriter, EngineInv, NEW q \in Procs, Moves(q), Idle(q)
  PROVE  \A p \in Procs : Idle(p)
<1>1. job[q].step = "none" /\ queue[q] = <<>>
  BY NoJobFacts DEF Idle
<1>2. CASE Quiet(q)
  BY <1>1, <1>2 DEF Quiet, SetTask, SnapBegin, RestoreBegin, HandoffBegin, HookBegin, MayStart, Check, Number,
        Collect, Mkdir, Publish, RestoreTask, Gather, CaptureKnown, CaptureEnd, Finish, At
<1>3. CASE Single(q)
  BY <1>3, SingleRecord
<1>4. CASE Surface(q) \/ CaptureNew(q) \/ RestoreLog(q) \/ Kill(q)
  BY <1>1, <1>4 DEF Surface, CaptureNew, RestoreLog, Kill, At
<1>5. CASE AppendNext(q) \/ \E cut \in Cuts : Tear(q, cut)
  BY <1>1, <1>5 DEF AppendNext, AppendRecord, Tear, TearAppend
<1>. QED BY <1>2, <1>3, <1>4, <1>5 DEF Moves

\* Two processes are never both in an operation.
OneAtATime == \A p, q \in Procs : p # q => Idle(p) \/ Idle(q)

\* An operation starts only when nobody is in one.
LEMMA OneAtATimeNext ==
  ASSUME OneWriter
  PROVE  EngineInv /\ OneAtATime /\ [Next]_vars => OneAtATime'
<1>. SUFFICES ASSUME EngineInv, OneAtATime, [Next]_vars,
                     NEW p \in Procs, NEW q \in Procs, p # q
              PROVE  Idle(p)' \/ Idle(q)'
  BY DEF OneAtATime
<1>1. ASSUME NEW a \in Procs, Idle(a), KeptJob(a), queue'[a] = queue[a] PROVE Idle(a)'
  BY <1>1 DEF Idle, KeptJob
<1>2. ASSUME NEW a \in Procs, NEW b \in Procs, a # b, ~Moves(b), Idle(b) PROVE Idle(b)'
  BY <1>1, <1>2, OwnOrKept
<1>3. ASSUME NEW a \in Procs, NEW b \in Procs, a # b, Moves(a) PROVE Idle(b)'
  <2>1. Idle(b)
    BY <1>3, StartsAlone DEF OneAtATime
  <2>2. KeptJob(b) /\ queue'[b] = queue[b]
    BY <1>3, Frame
  <2>. QED BY <1>1, <2>1, <2>2
<1>4. Idle(p) \/ Idle(q)
  BY DEF OneAtATime
<1>. QED BY <1>2, <1>3, <1>4

\* So it always holds.
LEMMA OneAtATimeInvariant ==
  ASSUME OneWriter
  PROVE  Spec => []OneAtATime
<1>1. Init => OneAtATime
  BY DEF Init, LogInit, OneAtATime, Idle
<1>2. EngineInv /\ OneAtATime /\ [Next]_vars => OneAtATime'
  BY OneAtATimeNext
<1>. QED BY <1>1, <1>2, EngineInvariant, PTL DEF Spec

\* Only these two steps touch the snapshots.
LEMMA SnapsSteps ==
  ASSUME EngineInv, [Next]_vars
  PROVE  UNCHANGED snaps \/ \E q \in Procs : Mkdir(q) \/ Publish(q)
<1>1. ASSUME NEW q \in Procs, Quiet(q), ~Mkdir(q), ~Publish(q) PROVE UNCHANGED snaps
  BY <1>1 DEF Quiet, SetTask, SnapBegin, Check, Number, Collect, RestoreBegin, RestoreTask,
              HandoffBegin, Gather, HookBegin, CaptureKnown, CaptureEnd, Finish
<1>2. ASSUME NEW q \in Procs,
             Single(q) \/ Surface(q) \/ CaptureNew(q) \/ RestoreLog(q) \/ Kill(q) \/ AppendNext(q)
             \/ \E cut \in Cuts : Tear(q, cut)
      PROVE  UNCHANGED snaps
  BY <1>2, OtherJobs, SingleRecord, SurfaceRecord, CaptureRecord, RestoreBatch
<1>3. ASSUME NEW k, NEW i, Mend(k, i) PROVE UNCHANGED snaps
  BY <1>3 DEF Mend, engineVars
<1>4. CASE UNCHANGED vars
  BY <1>4 DEF vars, engineVars
<1>. QED BY <1>1, <1>2, <1>3, <1>4, NextSplit

\* The number of a snapshot that is being made is free: no directory until
\* Mkdir, and no snapshot.json until Publish.
Free(j, S) ==
    j.op \in {"snapshot", "hook"} =>
        /\ j.step \in {"collect", "mkdir"} => ~S[j.num].dir
        /\ j.step = "publish" => ~S[j.num].full

\* A snapshot is in a directory, and every job keeps its number free.
NumbersAreFree ==
    /\ \A n \in Snaps : snaps[n].full => snaps[n].dir
    /\ \A p \in Procs : Free(job[p], snaps)

\* What the two steps do to one snapshot.
LEMMA SnapsOne ==
  ASSUME EngineInv, NEW q \in Procs, Mkdir(q) \/ Publish(q), NEW n \in Snaps
  PROVE  /\ job[q].op \in {"snapshot", "hook"} /\ job[q].step \in {"mkdir", "publish"}
         /\ n # job[q].num => snaps'[n] = snaps[n]
         /\ (Mkdir(q) /\ n = job[q].num) => /\ job[q].step = "mkdir" /\ snaps'[n].dir
                                            /\ snaps'[n].full = snaps[n].full
         /\ (Publish(q) /\ n = job[q].num) => /\ job[q].step = "publish" /\ snaps'[n].dir
<1>1. snaps \in [Snaps -> Snapshot]
  BY DEF EngineInv, SnapsOK
<1>2. CASE Mkdir(q)
  <2>1. job[q].op \in {"snapshot", "hook"} /\ job[q].step = "mkdir"
        /\ snaps' = [snaps EXCEPT ![job[q].num].dir = TRUE]
    BY <1>2 DEF Mkdir, At
  <2>2. ~Publish(q)
    BY <2>1 DEF Publish, At
  <2>. QED BY <1>1, <2>1, <2>2 DEF Snapshot
<1>3. CASE Publish(q)
  <2>1. job[q].op \in {"snapshot", "hook"} /\ job[q].step = "publish"
        /\ snaps' = [snaps EXCEPT ![job[q].num] =
                    [dir |-> TRUE, full |-> TRUE, forced |-> job[q].forced,
                     task |-> job[q].task, view |-> job[q].got]]
    BY <1>3 DEF Publish, At
  <2>2. ~Mkdir(q)
    BY <2>1 DEF Mkdir, At
  <2>. QED BY <1>1, <2>1, <2>2
<1>. QED BY <1>2, <1>3

\* Number takes a free one, and nobody else makes a directory before Publish.
LEMMA NumbersAreFreeNext ==
  ASSUME OneWriter
  PROVE  EngineInv /\ OneAtATime /\ NumbersAreFree /\ [Next]_vars => NumbersAreFree'
<1>. SUFFICES ASSUME EngineInv, OneAtATime, NumbersAreFree, [Next]_vars PROVE NumbersAreFree'
  OBVIOUS
<1>0. /\ LogTypeOK /\ JobsOK /\ \A k \in Kinds : IsFiniteSet(Written(logs[k]))
      /\ task \in Tasks \cup {NoTask} /\ nextId \in 1 .. MaxId + 1
      /\ \A p \in Procs : job[p] \in Job /\ Places(job[p])
  BY DEF EngineInv, LogInv, FilesFinite, JobsOK, JobOK
<1>1. ASSUME NEW n \in Snaps PROVE snaps'[n].full => snaps'[n].dir
  <2>1. CASE UNCHANGED snaps
    BY <2>1 DEF NumbersAreFree
  <2>2. ASSUME NEW q \in Procs, Mkdir(q) \/ Publish(q) PROVE snaps'[n].full => snaps'[n].dir
    BY <2>2, SnapsOne DEF NumbersAreFree
  <2>. QED BY <2>1, <2>2, SnapsSteps
<1>2. ASSUME NEW p \in Procs PROVE Free(job'[p], snaps')
  <2>. DEFINE j == job[p]
              J == job'[p]
  <2>0. Free(j, snaps)
    BY DEF NumbersAreFree
  <2>1. ASSUME UNCHANGED snaps, J.op = j.op, J.step = j.step, J.num = j.num PROVE Free(J, snaps')
    BY <2>0, <2>1 DEF Free
  <2>2. ASSUME J.op \in {"snapshot", "hook"} => J.step \notin {"collect", "mkdir", "publish"}
        PROVE  Free(J, snaps')
    BY <2>2 DEF Free
  <2>3. CASE KeptJob(p)
    <3>1. J.op = j.op /\ J.step = j.step /\ J.num = j.num
      BY <2>3 DEF KeptJob
    <3>2. ASSUME NEW q \in Procs, Mkdir(q) \/ Publish(q) PROVE j.op \notin {"snapshot", "hook"}
      <4>1. ~Idle(q) /\ job[q].op \in {"snapshot", "hook"} /\ job[q].step \in {"mkdir", "publish"}
        BY <3>2, NoJobFacts DEF Mkdir, Publish, At, Idle
      <4>2. p # q
        <5>1. Mkdir(q) => job'[q].step = "publish" /\ job[q].step = "mkdir"
          BY <1>0, MkdirJob
        <5>2. Publish(q) => job[q].step = "publish" /\ (job'[q].step = "done" \/ job'[q] = NoJob)
          BY <1>0, PublishJob
        <5>. QED BY <3>1, <3>2, <5>1, <5>2, NoJobFacts
      <4>3. Idle(p)
        BY <4>1, <4>2 DEF OneAtATime
      <4>. QED BY <4>3, NoJobFacts DEF Idle
    <3>3. j.op \notin {"snapshot", "hook"} => Free(J, snaps')
      BY <3>1 DEF Free
    <3>. QED BY <2>1, <3>1, <3>2, <3>3, SnapsSteps
  <2>4. CASE J = NoJob
    BY <2>2, <2>4, NoJobFacts
  <2>5. CASE Begins(p)
    BY <2>2, <2>5, BeginsFacts
  <2>6. CASE Goes(p)
    <3>1. CASE Number(p)
      <4>1. snaps \in [Snaps -> [dir: BOOLEAN, full: BOOLEAN, forced: BOOLEAN,
                        task: Tasks \cup {NoTask}, view: [Kinds -> SUBSET Records]]]
        BY DEF EngineInv, SnapsOK, Snapshot
      <4>2. J.step = "collect" /\ ~snaps[J.num].dir
        BY <1>0, <3>1, <4>1, NumberJob
      <4>3. UNCHANGED snaps
        BY <3>1 DEF Number
      <4>. QED BY <4>2, <4>3 DEF Free
    <3>2. CASE Collect(p)
      <4>1. /\ j.op \in {"snapshot", "hook"} /\ j.step = "collect" /\ J.num = j.num
            /\ J.step \in {"collect", "mkdir"}
        BY <1>0, <3>2, CollectJob
      <4>2. UNCHANGED snaps
        BY <3>2 DEF Collect
      <4>. QED BY <2>0, <4>1, <4>2 DEF Free
    <3>3. CASE Mkdir(p)
      <4>1. /\ j.op \in {"snapshot", "hook"} /\ j.step = "mkdir" /\ J.num = j.num /\ j.num \in Snaps
            /\ J.step = "publish"
        BY <1>0, <3>3, MkdirJob
      <4>2. ~snaps[j.num].full
        BY <2>0, <4>1 DEF Free, NumbersAreFree
      <4>3. snaps'[j.num].full = snaps[j.num].full
        BY <3>3, <4>1, SnapsOne
      <4>. QED BY <4>1, <4>2, <4>3 DEF Free
    <3>4. CASE Publish(p) /\ j.op = "hook"
      <4>1. J.step = "done"
        BY <1>0, <3>4, PublishJob
      <4>. QED BY <2>2, <4>1
    <3>5. CASE Check(p)
      <4>1. J.step \in {"check", "done", "number"}
        BY <1>0, <3>5, CheckJob
      <4>. QED BY <2>2, <4>1
    <3>6. CASE CaptureNew(p)
      <4>1. J.step = "capture"
        BY <1>0, <3>6, CaptureNewJob
      <4>. QED BY <2>2, <4>1
    <3>7. CASE CaptureKnown(p)
      <4>1. J.step = "capture"
        BY <1>0, <3>7, CaptureKnownJob
      <4>. QED BY <2>2, <4>1
    <3>8. CASE CaptureEnd(p)
      <4>1. J.step = "check"
        BY <1>0, <3>8, CaptureEndJob
      <4>. QED BY <2>2, <4>1
    <3>9. CASE RestoreTask(p) \/ RestoreLog(p) \/ Gather(p) \/ Surface(p)
      <4>1. j.op \in {"restore", "handoff"}
        BY <3>9 DEF RestoreTask, RestoreLog, Gather, Surface, At
      <4>2. J.op = j.op
        BY <2>6, GoesFacts DEF Same
      <4>. QED BY <2>2, <4>1, <4>2
    <3>. QED BY <2>6, <3>1, <3>2, <3>3, <3>4, <3>5, <3>6, <3>7, <3>8, <3>9 DEF Goes
  <2>. QED BY <2>3, <2>4, <2>5, <2>6, JobSteps
<1>. QED BY <1>1, <1>2 DEF NumbersAreFree

\* So it always holds.
LEMMA NumbersAreFreeInvariant ==
  ASSUME OneWriter
  PROVE  Spec => []NumbersAreFree
<1>1. Init => NumbersAreFree
  BY DEF Init, NumbersAreFree, Free, NoJob, NoSnap
<1>2. EngineInv /\ OneAtATime /\ NumbersAreFree /\ [Next]_vars => NumbersAreFree'
  BY NumbersAreFreeNext
<1>. QED BY <1>1, <1>2, EngineInvariant, OneAtATimeInvariant, PTL DEF Spec

\* A snapshot, once written, is never overwritten, as long as one operation runs
\* at a time: next_number counts the directories there are, and nobody makes
\* another one until the snapshot is published.
THEOREM SnapshotsStayFinal ==
  ASSUME OneWriter
  PROVE  Spec => SnapshotsAreFinal
<1>1. EngineInv /\ NumbersAreFree /\ [Next]_vars
        => [\A n \in Snaps : snaps[n].full => snaps'[n] = snaps[n]]_snaps
  <2>. SUFFICES ASSUME EngineInv, NumbersAreFree, [Next]_vars,
                       NEW q \in Procs, Mkdir(q) \/ Publish(q), NEW n \in Snaps, snaps[n].full
                PROVE  snaps'[n] = snaps[n]
    BY SnapsSteps
  <2>1. Free(job[q], snaps) /\ snaps[n].dir
    BY DEF NumbersAreFree
  <2>. QED BY <2>1, SnapsOne DEF Free
<1>. QED BY <1>1, EngineInvariant, NumbersAreFreeInvariant, PTL DEF Spec, SnapshotsAreFinal
----------------------------------------------------------------------------
(* What a restore puts back.                                               *)

\* No snapshot holds surfacings: restore would not put them back.
NoSurfacings ==
    /\ \A p \in Procs : job[p].got["surfacings"] = {}
    /\ \A n \in Snaps : snaps[n].view["surfacings"] = {}

\* Collect reads the kinds restore knows, which surfacings are not among.
LEMMA NoSurfacingsNext == EngineInv /\ NoSurfacings /\ [Next]_vars => NoSurfacings'
<1>. SUFFICES ASSUME EngineInv, NoSurfacings, [Next]_vars PROVE NoSurfacings'
  OBVIOUS
<1>0. "surfacings" \in Kinds
  BY KindLists
<1>1. ASSUME NEW p \in Procs PROVE job'[p].got["surfacings"] = {}
  BY <1>0, GotMoves DEF NoSurfacings
<1>2. ASSUME NEW n \in Snaps PROVE snaps'[n].view["surfacings"] = {}
  <2>1. CASE snaps'[n].view = snaps[n].view
    BY <2>1 DEF NoSurfacings
  <2>2. ASSUME NEW p \in Procs, snaps'[n].view = job[p].got PROVE snaps'[n].view["surfacings"] = {}
    BY <2>2 DEF NoSurfacings
  <2>. QED BY <2>1, <2>2, ViewMoves
<1>. QED BY <1>1, <1>2 DEF NoSurfacings

\* So it always holds.
LEMMA NoSurfacingsInvariant == Spec => []NoSurfacings
<1>1. Init => NoSurfacings
  BY KindLists DEF Init, NoSurfacings, NoJob, NoSnap, NoView
<1>. QED BY <1>1, NoSurfacingsNext, EngineInvariant, PTL DEF Spec

\* No record of R holds a character that splitlines takes for a line break.
PlainSet(R) == \A r \in R : r.stmt \notin SplitStmts

\* The hook's set `already` may hold records it has written and that splitlines
\* breaks; nothing else that is read does, for such a line does not parse.
Hooking(j) == j.op = "hook" /\ j.step \notin {"collect", "mkdir", "publish"}

\* What can be read of the files and what was read of them is plain.
ReadsArePlain ==
    /\ \A k \in Kinds : PlainSet(Parsed(logs[k]))
    /\ \A n \in Snaps, k \in Kinds : PlainSet(snaps[n].view[k])
    /\ \A p \in Procs, k \in Kinds : ~Hooking(job[p]) => PlainSet(job[p].got[k])

\* A file.
LEMMA PlainFiles ==
  ASSUME EngineInv, [Next]_vars, NEW k \in Kinds, PlainSet(Parsed(logs[k]))
  PROVE  PlainSet(Parsed(logs'[k]))
<1>0. logs[k] \in Seq(Line)
  BY EngineTypes
<1>1. ASSUME NEW p \in Procs, NEW cut \in Texts, NEW ended \in BOOLEAN, Puts(p, cut, ended)
      PROVE  PlainSet(Parsed(logs'[k]))
  <2>1. ASSUME logs'[k] = logs[k] PROVE PlainSet(Parsed(logs'[k]))
    BY <2>1
  <2>2. ASSUME NEW r \in Records, NEW text \in Texts, 1 \in 1 .. Len(queue[p]),
               queue[p][1].kind = k, queue[p][1].rec = r, text = LineText(r, cut),
               logs'[k] = Put(logs[k], r, text, ended)
        PROVE  PlainSet(Parsed(logs'[k]))
    <3>1. CASE r.stmt \in SplitStmts
      <4>1. text # "json"
        BY <2>2, <3>1, RecordsAssumption DEF LineText
      <4>2. Parsed(logs'[k]) \subseteq Parsed(logs[k])
        BY <1>0, <2>2, <4>1, PutBounds
      <4>. QED BY <4>2 DEF PlainSet
    <3>2. CASE r.stmt \notin SplitStmts
      <4>1. Parsed(logs'[k]) \subseteq Parsed(logs[k]) \cup {r}
        BY <1>0, <2>2, PutBounds
      <4>. QED BY <3>2, <4>1 DEF PlainSet
    <3>. QED BY <3>1, <3>2
  <2>. HIDE DEF PlainSet
  <2>. QED BY <1>1, <2>1, <2>2, PutsOne
<1>2. ASSUME NEW h \in Kinds, NEW i, DeleteLine(h, i) PROVE PlainSet(Parsed(logs'[k]))
  <2>1. CASE h # k
    BY <1>2, <2>1, DeleteFacts
  <2>2. CASE h = k
    <3>1. i \in 1 .. Len(logs[k]) /\ logs[k][i].text # "json" /\ logs'[k] = Without(logs[k], i)
      BY <1>2, <2>2, DeleteFacts
    <3>2. Parsed(logs'[k]) \subseteq Parsed(logs[k])
      BY <1>0, <3>1, WithoutBounds
    <3>. QED BY <3>2 DEF PlainSet
  <2>. QED BY <2>1, <2>2
<1>3. CASE UNCHANGED <<logs, acked, dropped>>
  BY <1>3
<1>4. "json" \in Texts /\ TRUE \in BOOLEAN /\ FALSE \in BOOLEAN
  BY DEF Texts
<1>. QED BY <1>1, <1>2, <1>3, <1>4, FileMoves

\* A job that comes out of the hook's own steps starts over with what it read.
LEMMA HookForgets ==
  ASSUME EngineInv, [Next]_vars, NEW p \in Procs, Hooking(job[p]), ~Hooking(job'[p])
  PROVE  job'[p].got = NoView
<1>0. /\ LogTypeOK /\ JobsOK /\ \A k \in Kinds : IsFiniteSet(Written(logs[k]))
      /\ task \in Tasks \cup {NoTask} /\ nextId \in 1 .. MaxId + 1
  BY DEF EngineInv, LogInv, FilesFinite
<1>. DEFINE j == job[p]
            J == job'[p]
<1>1. j.op = "hook" /\ j.step \notin {"collect", "mkdir", "publish"}
  BY DEF Hooking
<1>2. KeptJob(p) => Hooking(J)
  BY DEF KeptJob, Hooking
<1>3. J = NoJob => J.got = NoView
  BY DEF NoJob
<1>4. ~Begins(p)
  <2>1. ~Idle(p)
    BY <1>1 DEF Idle, NoJob
  <2>. QED BY <2>1, BeginsFacts
<1>5. ASSUME Goes(p) PROVE J.got = NoView
  <2>0. J.op = "hook" /\ J.step \in {"collect", "mkdir", "publish"}
    BY <1>1, <1>5, GoesFacts DEF Same, Hooking
  <2>1. CASE Check(p)
    BY <1>0, <2>0, <2>1, CheckJob
  <2>2. CASE Number(p)
    <3>1. snaps \in [Snaps -> [dir: BOOLEAN, full: BOOLEAN, forced: BOOLEAN,
                      task: Tasks \cup {NoTask}, view: [Kinds -> SUBSET Records]]]
      BY DEF EngineInv, SnapsOK, Snapshot
    <3>. QED BY <1>0, <2>2, <3>1, NumberJob
  <2>3. ~Collect(p) /\ ~Mkdir(p) /\ ~Publish(p)
    BY <1>1 DEF Collect, Mkdir, Publish, At
  <2>4. ~RestoreTask(p) /\ ~RestoreLog(p) /\ ~Gather(p) /\ ~Surface(p)
    BY <1>1 DEF RestoreTask, RestoreLog, Gather, Surface, At
  <2>5. CASE CaptureNew(p)
    BY <1>0, <2>0, <2>5, CaptureNewJob
  <2>6. CASE CaptureKnown(p)
    BY <1>0, <2>0, <2>6, CaptureKnownJob
  <2>7. CASE CaptureEnd(p)
    BY <1>0, <2>0, <2>7, CaptureEndJob
  <2>. QED BY <1>5, <2>1, <2>2, <2>3, <2>4, <2>5, <2>6, <2>7 DEF Goes
<1>. QED BY <1>2, <1>3, <1>4, <1>5, JobSteps

\* A record that splitlines breaks never becomes a line that parses.
LEMMA ReadsArePlainNext == EngineInv /\ ReadsArePlain /\ [Next]_vars => ReadsArePlain'
<1>. SUFFICES ASSUME EngineInv, ReadsArePlain, [Next]_vars PROVE ReadsArePlain'
  OBVIOUS
<1>1. ASSUME NEW k \in Kinds PROVE PlainSet(Parsed(logs'[k]))
  BY PlainFiles DEF ReadsArePlain
<1>2. ASSUME NEW n \in Snaps, NEW k \in Kinds PROVE PlainSet(snaps'[n].view[k])
  <2>1. CASE snaps'[n].view = snaps[n].view
    BY <2>1 DEF ReadsArePlain
  <2>2. ASSUME NEW p \in Procs, snaps'[n].view = job[p].got, job[p].step = "publish"
        PROVE  PlainSet(snaps'[n].view[k])
    BY <2>2 DEF ReadsArePlain, Hooking
  <2>. QED BY <2>1, <2>2, ViewMoves
<1>3. ASSUME NEW p \in Procs, NEW k \in Kinds, ~Hooking(job'[p]) PROVE PlainSet(job'[p].got[k])
  <2>0. /\ LogTypeOK /\ JobsOK /\ \A h \in Kinds : IsFiniteSet(Written(logs[h]))
        /\ nextId \in 1 .. MaxId + 1 /\ Parsed(logs[k]) \in SUBSET Records
    BY EngineTypes, FileRecords DEF EngineInv, LogInv, FilesFinite
  <2>1. CASE Hooking(job[p])
    <3>1. job'[p].got[k] = {}
      BY <1>3, <2>1, HookForgets DEF NoView
    <3>. QED BY <3>1 DEF PlainSet
  <2>2. CASE ~Hooking(job[p])
    <3>1. PlainSet(Read(k)) /\ PlainSet(Shown(k))
      <4>1. \A v \in Read(k) : \E r \in Parsed(logs[k]) : v.stmt = r.stmt
        BY <2>0, ViewFacts DEF Read
      <4>2. PlainSet(Read(k))
        BY <4>1 DEF ReadsArePlain, PlainSet
      <4>. QED BY <4>2 DEF PlainSet, Shown
    <3>2. ~CaptureNew(p)
      BY <2>2 DEF CaptureNew, At, Hooking
    <3>3. PlainSet(job[p].got[k]) /\ \A n \in Snaps : PlainSet(snaps[n].view[k])
      BY <2>2 DEF ReadsArePlain
    <3>4. PlainSet({})
      BY DEF PlainSet
    <3>. HIDE DEF PlainSet
    <3>. QED BY <3>1, <3>2, <3>3, <3>4, GotMoves
  <2>. QED BY <2>1, <2>2
<1>. QED BY <1>1, <1>2, <1>3 DEF ReadsArePlain

\* So it always holds.
LEMMA ReadsArePlainInvariant == Spec => []ReadsArePlain
<1>1. Init => ReadsArePlain
  <2>. SUFFICES ASSUME Init PROVE ReadsArePlain
    OBVIOUS
  <2>1. \A k \in Kinds : Parsed(logs[k]) = {}
    BY DEF Init, LogInit, Parsed, LinesOf
  <2>2. /\ \A p \in Procs, k \in Kinds : job[p].got[k] = {}
        /\ \A n \in Snaps, k \in Kinds : snaps[n].view[k] = {}
    BY DEF Init, NoJob, NoSnap, NoView
  <2>. QED BY <2>1, <2>2 DEF ReadsArePlain, PlainSet
<1>. QED BY <1>1, ReadsArePlainNext, EngineInvariant, PTL DEF Spec
----------------------------------------------------------------------------

\* Under the contract, what runs is the only thing that runs.
LEMMA Alone ==
  ASSUME OneWriter, EngineInv, OneAtATime, [Next]_vars, NEW p \in Procs, ~Idle(p)
  PROVE  Moves(p) \/ UNCHANGED vars
<1>1. ASSUME NEW q \in Procs, Moves(q), q # p PROVE FALSE
  BY <1>1, StartsAlone DEF OneAtATime
<1>2. ASSUME NEW k, NEW i, Mend(k, i) PROVE FALSE
  BY <1>2 DEF Mend
<1>. QED BY <1>1, <1>2, NextSplit DEF Moves

\* And it sets the task only when it restores one.
LEMMA TaskMoves ==
  ASSUME EngineInv, NEW p \in Procs, Moves(p), ~Idle(p), ~RestoreTask(p)
  PROVE  task' = task
<1>1. CASE Quiet(p)
  BY <1>1 DEF Quiet, SetTask, SnapBegin, Check, Number, Collect, Mkdir, Publish, RestoreBegin,
              HandoffBegin, Gather, HookBegin, CaptureKnown, CaptureEnd, Finish, MayStart
<1>2. CASE Single(p)
  BY <1>2, SingleRecord
<1>3. CASE Surface(p) \/ CaptureNew(p) \/ RestoreLog(p) \/ Kill(p) \/ AppendNext(p)
           \/ \E cut \in Cuts : Tear(p, cut)
  BY <1>3, OtherJobs, SurfaceRecord, CaptureRecord, RestoreBatch
<1>. QED BY <1>1, <1>2, <1>3 DEF Moves

\* A restore under way has the task in place after its first step.
TaskIsBack(j, t) == (j.op = "restore" /\ j.step \in {"log", "done"}) => j.task \in {t, NoTask}

\* So it is for every restore.
TasksAreBack == \A p \in Procs : TaskIsBack(job[p], task)

\* Nobody sets another task while the restore runs.
LEMMA TasksAreBackNext ==
  ASSUME OneWriter
  PROVE  EngineInv /\ OneAtATime /\ TasksAreBack /\ [Next]_vars => TasksAreBack'
<1>. SUFFICES ASSUME EngineInv, OneAtATime, TasksAreBack, [Next]_vars, NEW p \in Procs,
                     job'[p].op = "restore", job'[p].step \in {"log", "done"}
              PROVE  job'[p].task \in {task', NoTask}
  BY DEF TasksAreBack, TaskIsBack
<1>. DEFINE j == job[p]
            J == job'[p]
<1>0. LogTypeOK /\ JobsOK /\ TaskIsBack(j, task)
  BY DEF EngineInv, LogInv, TasksAreBack
<1>1. CASE KeptJob(p)
  <2>1. j.op = "restore" /\ j.step \in {"log", "done"} /\ J.task = j.task
    BY <1>1 DEF KeptJob
  <2>2. ~Idle(p) /\ ~RestoreTask(p)
    BY <2>1, NoJobFacts DEF Idle, RestoreTask, At
  <2>3. task' = task
    BY <2>2, Alone, TaskMoves DEF vars, engineVars
  <2>. QED BY <1>0, <2>1, <2>3 DEF TaskIsBack
<1>2. J # NoJob
  BY NoJobFacts
<1>3. ~Begins(p)
  <2>1. J.op = "restore" /\ J.step # "task"
    OBVIOUS
  <2>. QED BY <2>1, BeginsFacts
<1>4. CASE Goes(p)
  <2>1. j.op = "restore"
    BY <1>4, GoesFacts DEF Same
  <2>2. CASE RestoreTask(p)
    <3>1. J.task = j.task /\ task' = IF j.task = NoTask THEN task ELSE j.task
      BY <1>0, <2>2, RestoreTaskJob DEF RestoreTask
    <3>. QED BY <3>1
  <2>3. CASE RestoreLog(p)
    <3>1. j.step = "log" /\ J.task = j.task /\ task' = task
      BY <1>0, <2>3, RestoreLogJob DEF RestoreLog
    <3>. QED BY <1>0, <2>1, <3>1 DEF TaskIsBack
  <2>. QED BY <1>4, <2>1, <2>2, <2>3 DEF Goes, Check, Number, Collect, Mkdir, Publish, Gather, Surface,
              CaptureNew, CaptureKnown, CaptureEnd, At
<1>. QED BY <1>1, <1>2, <1>3, <1>4, JobSteps

\* So it always holds.
LEMMA TasksAreBackInvariant ==
  ASSUME OneWriter
  PROVE  Spec => []TasksAreBack
<1>1. Init => TasksAreBack
  BY DEF Init, TasksAreBack, TaskIsBack, NoJob
<1>2. EngineInv /\ OneAtATime /\ TasksAreBack /\ [Next]_vars => TasksAreBack'
  BY TasksAreBackNext
<1>. QED BY <1>1, <1>2, EngineInvariant, OneAtATimeInvariant, PTL DEF Spec

\* The id i is in the file of kind k, or waits in the queue q.
Coming(log, q, k, i) == i \in Ids(Parsed(log)) \/ \E n \in 1 .. Len(q) : q[n].kind = k /\ q[n].rec.id = i

\* What a restore that is still sound has dealt with: every record of the kinds
\* before the one it is at, and none that it cannot put back.
RestoreCare(j, L, q) ==
    j.op = "restore" =>
        /\ \A n \in 1 .. Len(q) : q[n].rec.stmt \notin SplitStmts
        /\ (j.sound /\ j.step \in {"log", "done"}) =>
              \A l \in 1 .. Len(Restored) :
                 (j.step = "done" \/ l < j.at) =>
                    \A r \in j.got[Restored[l]] : Coming(L[Restored[l]], q, Restored[l], r.id)

\* So it is for every restore.
RestoresCare == \A p \in Procs : RestoreCare(job[p], logs, queue[p])

\* What is coming stays so, as long as the restore is sound.
LEMMA ComingStays ==
  ASSUME EngineInv, SoundClosed, [Next]_vars, NEW p \in Procs, job[p].sound, job'[p].sound, ~Idle(p),
         \A n \in 1 .. Len(queue[p]) : queue[p][n].rec.stmt \notin SplitStmts,
         queue'[p] = queue[p] \/ AppendNext(p), NEW k \in Kinds, NEW i, Coming(logs[k], queue[p], k, i)
  PROVE  Coming(logs'[k], queue'[p], k, i)
<1>1. Parsed(logs[k]) \subseteq Parsed(logs'[k])
  BY SoundGrows
<1>2. i \in Ids(Parsed(logs[k])) => i \in Ids(Parsed(logs'[k]))
  BY <1>1 DEF Ids
<1>3. ASSUME NEW n \in 1 .. Len(queue[p]), queue[p][n].kind = k, queue[p][n].rec.id = i
      PROVE  Coming(logs'[k], queue'[p], k, i)
  <2>1. CASE queue'[p] = queue[p]
    BY <1>3, <2>1 DEF Coming
  <2>2. CASE AppendNext(p)
    <3>1. /\ queue'[p] = Tail(queue[p]) /\ queue[p] # <<>> /\ queue[p] \in Seq(Write)
          /\ queue[p][1].rec.stmt \notin SplitStmts => queue[p][1].rec \in Parsed(logs'[queue[p][1].kind])
      BY <2>2, Lands, EngineTypes DEF SoundClosed
    <3>2. CASE n = 1
      BY <1>3, <3>1, <3>2 DEF Coming, Ids
    <3>3. CASE n # 1
      <4>1. n - 1 \in 1 .. Len(queue'[p]) /\ queue'[p][n - 1] = queue[p][n]
        BY <3>1, <3>3
      <4>. QED BY <1>3, <4>1 DEF Coming
    <3>. QED BY <3>2, <3>3
  <2>. QED BY <2>1, <2>2
<1>. QED BY <1>2, <1>3 DEF Coming

\* Each kind is compared with its file, what is missing is queued, and what is
\* queued lands.
LEMMA RestoreCareNext ==
  EngineInv /\ SoundClosed /\ ReadsArePlain /\ RestoresCare /\ [Next]_vars => RestoresCare'
<1>. SUFFICES ASSUME EngineInv, SoundClosed, ReadsArePlain, RestoresCare, [Next]_vars, NEW p \in Procs,
                     job'[p].op = "restore"
              PROVE  RestoreCare(job'[p], logs', queue'[p])
  BY DEF RestoresCare, RestoreCare
<1>. DEFINE j == job[p]
            J == job'[p]
            q == queue[p]
            Q == queue'[p]
<1>0. /\ LogTypeOK /\ JobsOK /\ q \in Seq(Write)
      /\ j.got \in [Kinds -> SUBSET Records] /\ j.at \in Nat
      /\ RestoreCare(j, logs, q)
      /\ \A l \in 1 .. Len(Restored) : Restored[l] \in Kinds
  BY KindLists DEF EngineInv, LogInv, LogTypeOK, JobsOK, JobOK, Job, RestoresCare
<1>1. CASE KeptJob(p) /\ (Q = q \/ Idle(p) \/ AppendNext(p))
  <2>1. /\ j.op = "restore" /\ J.step = j.step /\ J.at = j.at /\ J.got = j.got
        /\ J.sound => j.sound
    BY <1>1 DEF KeptJob
  <2>2. ~Idle(p)
    BY <2>1, NoJobFacts DEF Idle
  <2>3. \A n \in 1 .. Len(q) : q[n].rec.stmt \notin SplitStmts
    BY <1>0, <2>1 DEF RestoreCare
  <2>4. ASSUME NEW n \in 1 .. Len(Q) PROVE Q[n].rec.stmt \notin SplitStmts
    <3>1. CASE Q = q
      BY <2>3, <3>1
    <3>2. CASE AppendNext(p)
      <4>1. Q = Tail(q) /\ q # <<>>
        BY <3>2, Lands, AppendPuts, <1>0 DEF Puts, LogTypeOK
      <4>2. n + 1 \in 1 .. Len(q) /\ Q[n] = q[n + 1]
        BY <1>0, <4>1
      <4>. QED BY <2>3, <4>2
    <3>. QED BY <1>1, <2>2, <3>1, <3>2
  <2>5. ASSUME J.sound, NEW k \in Kinds, NEW i, Coming(logs[k], q, k, i) PROVE Coming(logs'[k], Q, k, i)
    BY <1>1, <2>1, <2>2, <2>3, <2>5, ComingStays
  <2>. HIDE DEF j, J, q, Q
  <2>6. RestoreCare(J, logs', Q)
    BY <1>0, <2>1, <2>4, <2>5 DEF RestoreCare
  <2>. QED BY <2>6 DEF J, Q
<1>2. J # NoJob
  BY NoJobFacts
<1>3. CASE Begins(p)
  <2>1. J.step = "task" /\ Q = <<>>
    BY <1>3, BeginsFacts DEF Idle
  <2>. QED BY <2>1 DEF RestoreCare
<1>4. CASE Goes(p)
  <2>1. j.op = "restore" /\ J.sound = j.sound /\ logs' = logs /\ q = <<>>
    BY <1>4, GoesFacts DEF Same
  <2>2. CASE RestoreTask(p)
    <3>1. J.step = "log" /\ J.at = 1
      BY <1>0, <2>2, RestoreTaskJob
    <3>2. Q = <<>>
      BY <2>1, <2>2 DEF RestoreTask, logVars
    <3>3. \A l \in 1 .. Len(Restored) : ~(l < 1)
      OBVIOUS
    <3>. QED BY <3>1, <3>2, <3>3 DEF RestoreCare
  <2>3. CASE RestoreLog(p)
    <3>. DEFINE at == j.at
                k == Restored[at]
                M == Missing(p, k)
    <3>1. /\ j.step = "log" /\ J.got = j.got /\ at \in 1 .. Len(Restored) /\ k \in Kinds
          /\ at # Len(Restored) => J.step = "log" /\ J.at = at + 1
          /\ at = Len(Restored) => J.step = "done"
      BY <1>0, <2>3, RestoreLogJob
    <3>2. /\ \A n \in 1 .. Len(Q) : Q[n].kind = k /\ Q[n].rec \in M
          /\ \A r \in M : \E n \in 1 .. Len(Q) : Q[n].rec = r
      BY <2>3, RestoreBatch
    <3>3. \A r \in j.got[k] : r.stmt \notin SplitStmts
      BY <2>1, <3>1 DEF ReadsArePlain, PlainSet, Hooking
    <3>4. \A n \in 1 .. Len(Q) : Q[n].rec.stmt \notin SplitStmts
      BY <3>2, <3>3 DEF Missing
    <3>5. ASSUME NEW r \in j.got[k] PROVE Coming(logs[k], Q, k, r.id)
      <4>1. CASE r \in M
        BY <3>2, <4>1 DEF Coming
      <4>2. CASE r \notin M
        BY <3>5, <4>2 DEF Missing, Coming
      <4>. QED BY <4>1, <4>2
    <3>6. ASSUME J.sound, NEW l \in 1 .. Len(Restored), l < at, NEW r \in j.got[Restored[l]]
          PROVE  Coming(logs[Restored[l]], Q, Restored[l], r.id)
      <4>1. Coming(logs[Restored[l]], q, Restored[l], r.id)
        BY <1>0, <2>1, <3>1, <3>6 DEF RestoreCare
      <4>. QED BY <2>1, <4>1 DEF Coming
    <3>7. ASSUME J.sound, NEW l \in 1 .. Len(Restored), J.step = "done" \/ l < J.at,
                 NEW r \in j.got[Restored[l]]
          PROVE  Coming(logs[Restored[l]], Q, Restored[l], r.id)
      <4>1. Len(Restored) \in Nat
        BY KindLists
      <4>2. l < at \/ l = at
        BY <3>1, <3>7, <4>1
      <4>. QED BY <3>5, <3>6, <3>7, <4>2
    <3>. HIDE DEF j, J, Q
    <3>8. RestoreCare(J, logs', Q)
      BY <2>1, <3>1, <3>4, <3>7 DEF RestoreCare
    <3>. QED BY <3>8 DEF J, Q
  <2>. QED BY <1>4, <2>1, <2>2, <2>3 DEF Goes, Check, Number, Collect, Mkdir, Publish, Gather, Surface,
              CaptureNew, CaptureKnown, CaptureEnd, At
<1>. QED BY <1>1, <1>2, <1>3, <1>4, JobSteps

\* So it always holds.
LEMMA RestoresCareInvariant == Spec => []RestoresCare
<1>1. Init => RestoresCare
  BY DEF Init, RestoresCare, RestoreCare, NoJob
<1>. QED BY <1>1, RestoreCareNext, EngineInvariant, SoundInvariant, ReadsArePlainInvariant, PTL DEF Spec

\* What holds of a restore with any number of writers: the records' part of
\* RestoreIsComplete, every record of the snapshot in its file.
RecordsAreBack ==
    \A p \in Procs :
        (job[p].op = "restore" /\ job[p].step = "done" /\ queue[p] = <<>> /\ job[p].sound) =>
            \A k \in Kinds : Ids(job[p].got[k]) \subseteq Ids(Parsed(logs[k]))

\* Two restores at once may put a record back twice, and may overwrite the task,
\* but a restore that is done has lost none of its snapshot's records: a record
\* that is not in its file is appended, and no append of the restore can fail to
\* be readable on files without a torn line (restore_snapshot).
THEOREM RecordsComeBack == Spec => []RecordsAreBack
<1>1. RestoresCare /\ NoSurfacings => RecordsAreBack
  <2>. SUFFICES ASSUME RestoresCare, NoSurfacings, NEW p \in Procs,
                       job[p].op = "restore", job[p].step = "done", queue[p] = <<>>, job[p].sound,
                       NEW k \in Kinds, NEW r \in job[p].got[k]
                PROVE  r.id \in Ids(Parsed(logs[k]))
    BY DEF RecordsAreBack, Ids
  <2>1. k # "surfacings"
    BY DEF NoSurfacings
  <2>2. PICK l \in 1 .. Len(Restored) : Restored[l] = k
    BY <2>1, KindLists
  <2>3. Coming(logs[k], queue[p], k, r.id)
    BY <2>2 DEF RestoresCare, RestoreCare
  <2>. QED BY <2>3 DEF Coming
<1>. QED BY <1>1, RestoresCareInvariant, NoSurfacingsInvariant, PTL

\* With one operation at a time the task is back too, which another writer could
\* have set meanwhile.
THEOREM RestoresAreComplete ==
  ASSUME OneWriter
  PROVE  Spec => []RestoreIsComplete
<1>1. TasksAreBack /\ RecordsAreBack => RestoreIsComplete
  <2>. SUFFICES ASSUME TasksAreBack, RecordsAreBack, NEW p \in Procs,
                       job[p].op = "restore", job[p].step = "done", queue[p] = <<>>, job[p].sound
                PROVE  /\ job[p].task \in {task, NoTask}
                       /\ \A k \in Kinds : Ids(job[p].got[k]) \subseteq Ids(Parsed(logs[k]))
    BY DEF RestoreIsComplete
  <2>1. job[p].task \in {task, NoTask}
    BY DEF TasksAreBack, TaskIsBack
  <2>2. \A k \in Kinds : Ids(job[p].got[k]) \subseteq Ids(Parsed(logs[k]))
    BY DEF RecordsAreBack
  <2>. QED BY <2>1, <2>2
<1>2. Spec => []TasksAreBack
  BY TasksAreBackInvariant
<1>. QED BY <1>1, <1>2, RecordsComeBack, PTL
----------------------------------------------------------------------------
(* No id is in a file twice.                                               *)

\* A line that parses holds one record.
OneRecord(log) ==
    \A i \in 1 .. Len(log) : log[i].text = "json" => \E r \in Records : log[i].recs = {r}

\* Two lines that parse share no id.
Apart(log) ==
    \A i, j \in 1 .. Len(log) :
        (i # j /\ log[i].text = "json" /\ log[j].text = "json") =>
            Ids(log[i].recs) \cap Ids(log[j].recs) = {}

\* Two records of R share no id.
Unique(R) == \A r, s \in R : r.id = s.id => r = s

\* What waits in q is in no file yet, and is there once.
Unwritten(q, L) ==
    /\ \A n \in 1 .. Len(q) : q[n].rec.id \notin Ids(Parsed(L[q[n].kind]))
    /\ \A n, m \in 1 .. Len(q) : (n # m /\ q[n].kind = q[m].kind) => q[n].rec.id # q[m].rec.id

\* Every file, every reading and every queue has an id once.
Once ==
    /\ \A k \in Kinds : OneRecord(logs[k]) /\ Apart(logs[k])
    /\ \A p \in Procs, k \in Kinds : Unique(job[p].got[k])
    /\ \A n \in Snaps, k \in Kinds : Unique(snaps[n].view[k])
    /\ \A p \in Procs : Unwritten(queue[p], logs)

\* Appending a record whose id is not in the file.
LEMMA PutApart ==
  ASSUME NEW log \in Seq(Line), NEW r \in Records, NEW text \in Texts, NEW ended \in BOOLEAN,
         OneRecord(log), Apart(log), r.id \notin Ids(Parsed(log))
  PROVE  OneRecord(Put(log, r, text, ended)) /\ Apart(Put(log, r, text, ended))
<1>. DEFINE new == Put(log, r, text, ended)
            n == Len(new)
<1>1. /\ new \in Seq(Line) /\ n \in 1 .. Len(log) + 1
      /\ ~Open(log) => /\ n = Len(log) + 1
                       /\ new[n].text = text /\ new[n].recs = {r}
                       /\ \A i \in 1 .. Len(log) : new[i] = log[i]
      /\ Open(log) => /\ n = Len(log)
                      /\ new[n].text # "json"
                      /\ \A i \in 1 .. Len(log) : i # n => new[i] = log[i]
  BY PutLines
<1>2. Len(log) \in Nat
  OBVIOUS
<1>3. \A i \in 1 .. Len(log) : log[i].text = "json" => r.id \notin Ids(log[i].recs)
  BY DEF Ids, Parsed, LinesOf
<1>. HIDE DEF n, new
<1>4. ASSUME NEW i \in 1 .. n, new[i].text = "json"
      PROVE  \/ i \in 1 .. Len(log) /\ new[i] = log[i]
             \/ i = n /\ ~Open(log) /\ new[i].recs = {r}
  BY <1>1, <1>2, <1>4
<1>5. ASSUME NEW i \in 1 .. n, new[i].text = "json" PROVE \E s \in Records : new[i].recs = {s}
  BY <1>4, <1>5 DEF OneRecord
<1>6. ASSUME NEW i \in 1 .. n, NEW j \in 1 .. n, i # j, new[i].text = "json", new[j].text = "json"
      PROVE  Ids(new[i].recs) \cap Ids(new[j].recs) = {}
  <2>1. \A a, b \in 1 .. Len(log) :
           (a # b /\ log[a].text = "json" /\ log[b].text = "json") => Ids(log[a].recs) \cap Ids(log[b].recs) = {}
    BY DEF Apart
  <2>2. Ids({r}) = {r.id}
    BY DEF Ids
  <2>. HIDE DEF Ids
  <2>3. CASE i \in 1 .. Len(log) /\ new[i] = log[i]
    BY <1>3, <1>4, <1>6, <2>1, <2>2, <2>3
  <2>4. CASE i = n /\ new[i].recs = {r}
    <3>1. j \in 1 .. Len(log) /\ new[j] = log[j] /\ log[j].text = "json"
      BY <1>4, <1>6, <2>4
    <3>2. Ids(new[i].recs) = {r.id} /\ r.id \notin Ids(new[j].recs)
      BY <1>3, <2>2, <2>4, <3>1
    <3>. QED BY <3>2
  <2>. QED BY <1>4, <1>6, <2>3, <2>4
<1>. QED BY <1>5, <1>6 DEF OneRecord, Apart, n, new

\* Deleting a line.
LEMMA WithoutApart ==
  ASSUME NEW log \in Seq(Line), NEW i \in 1 .. Len(log), OneRecord(log), Apart(log)
  PROVE  OneRecord(Without(log, i)) /\ Apart(Without(log, i))
<1>. DEFINE new == Without(log, i)
<1>1. /\ \A l \in 1 .. Len(new) : \E j \in 1 .. Len(log) : new[l] = log[j]
      /\ \A l, m \in 1 .. Len(new) : l # m =>
            \E j, h \in 1 .. Len(log) : j # h /\ new[l] = log[j] /\ new[m] = log[h]
  BY WithoutLines
<1>. HIDE DEF new
<1>2. ASSUME NEW l \in 1 .. Len(new), new[l].text = "json"
      PROVE  \E r \in Records : new[l].recs = {r}
  <2>1. PICK j \in 1 .. Len(log) : new[l] = log[j]
    BY <1>1
  <2>. QED BY <1>2, <2>1 DEF OneRecord
<1>3. ASSUME NEW l \in 1 .. Len(new), NEW m \in 1 .. Len(new), l # m,
             new[l].text = "json", new[m].text = "json"
      PROVE  Ids(new[l].recs) \cap Ids(new[m].recs) = {}
  <2>1. PICK j \in 1 .. Len(log), h \in 1 .. Len(log) : j # h /\ new[l] = log[j] /\ new[m] = log[h]
    BY <1>1, <1>3
  <2>. QED BY <1>3, <2>1 DEF Apart
<1>. QED BY <1>2, <1>3 DEF OneRecord, Apart, new

\* What is read of such a file.
LEMMA ParsedUnique ==
  ASSUME NEW log \in Seq(Line), OneRecord(log), Apart(log)
  PROVE  Unique(Parsed(log))
<1>. SUFFICES ASSUME NEW r \in Parsed(log), NEW s \in Parsed(log), r.id = s.id PROVE r = s
  BY DEF Unique
<1>1. PICK i \in 1 .. Len(log) : log[i].text = "json" /\ r \in log[i].recs
  BY DEF Parsed, LinesOf
<1>2. PICK j \in 1 .. Len(log) : log[j].text = "json" /\ s \in log[j].recs
  BY DEF Parsed, LinesOf
<1>3. CASE i = j
  BY <1>1, <1>2, <1>3 DEF OneRecord
<1>4. CASE i # j
  <2>1. Ids(log[i].recs) \cap Ids(log[j].recs) = {}
    BY <1>1, <1>2, <1>4 DEF Apart
  <2>2. r.id \in Ids(log[i].recs) /\ r.id \in Ids(log[j].recs)
    BY <1>1, <1>2 DEF Ids
  <2>. QED BY <2>1, <2>2
<1>. QED BY <1>3, <1>4

\* And what the typed accessors make of it.
LEMMA ViewUnique ==
  ASSUME NEW k, NEW R \in SUBSET Records, Unique(R)
  PROVE  Unique(View(k, R))
<1>1. CASE k = "failures"
  <2>. DEFINE c(f) == f.closed \/ f.id \in Linked(R)
  <2>1. \A f \in R : c(f) \in BOOLEAN
    OBVIOUS
  <2>2. \A f \in R : [f EXCEPT !.closed = c(f)].id = f.id
    BY <2>1, ClosedRecord
  <2>3. \A v \in View(k, R) : \E f \in R : v = [f EXCEPT !.closed = c(f)]
    BY <1>1 DEF View, Failures
  <2>. HIDE DEF c
  <2>4. ASSUME NEW v \in View(k, R), NEW w \in View(k, R), v.id = w.id PROVE v = w
    <3>1. PICK f \in R : v = [f EXCEPT !.closed = c(f)]
      BY <2>3
    <3>2. PICK g \in R : w = [g EXCEPT !.closed = c(g)]
      BY <2>3
    <3>3. f.id = g.id
      BY <2>2, <2>4, <3>1, <3>2
    <3>4. f = g
      BY <3>3 DEF Unique
    <3>. QED BY <3>1, <3>2, <3>4
  <2>. QED BY <2>4 DEF Unique
<1>2. CASE k # "failures"
  BY <1>2 DEF View, Decisions, Unique
<1>. QED BY <1>1, <1>2

\* Under the contract whoever moves is the one that is in an operation.
LEMMA OnlyOne ==
  ASSUME OneWriter, EngineInv, OneAtATime, NEW p \in Procs, ~Idle(p), NEW q \in Procs, Moves(q)
  PROVE  q = p
BY StartsAlone DEF OneAtATime

\* A file.
LEMMA OnceFiles ==
  ASSUME EngineInv, Once, [Next]_vars, NEW k \in Kinds
  PROVE  OneRecord(logs'[k]) /\ Apart(logs'[k])
<1>. DEFINE Goal == OneRecord(logs'[k]) /\ Apart(logs'[k])
<1>. SUFFICES Goal
  OBVIOUS
<1>0. logs[k] \in Seq(Line) /\ OneRecord(logs[k]) /\ Apart(logs[k])
  BY EngineTypes DEF Once
<1>1. ASSUME NEW p \in Procs, NEW cut \in Texts, NEW ended \in BOOLEAN, Puts(p, cut, ended)
      PROVE  Goal
  <2>1. ASSUME logs'[k] = logs[k] PROVE Goal
    BY <1>0, <2>1
  <2>2. ASSUME NEW r \in Records, NEW text \in Texts, 1 \in 1 .. Len(queue[p]),
               queue[p][1].kind = k, queue[p][1].rec = r, logs'[k] = Put(logs[k], r, text, ended)
        PROVE  Goal
    <3>1. r.id \notin Ids(Parsed(logs[k]))
      BY <2>2 DEF Once, Unwritten
    <3>. DEFINE log == logs[k]
    <3>2. log \in Seq(Line) /\ OneRecord(log) /\ Apart(log) /\ r.id \notin Ids(Parsed(log))
      BY <1>0, <3>1
    <3>. HIDE DEF log
    <3>3. OneRecord(Put(log, r, text, ended)) /\ Apart(Put(log, r, text, ended))
      BY <3>2, PutApart
    <3>. QED BY <2>2, <3>3 DEF log
  <2>. HIDE DEF Goal
  <2>. QED BY <1>1, <2>1, <2>2, PutsOne
<1>2. ASSUME NEW h \in Kinds, NEW i, DeleteLine(h, i) PROVE Goal
  <2>1. CASE h # k
    BY <1>0, <1>2, <2>1, DeleteFacts
  <2>2. CASE h = k
    <3>1. i \in 1 .. Len(logs[k]) /\ logs'[k] = Without(logs[k], i)
      BY <1>2, <2>2, DeleteFacts
    <3>. DEFINE log == logs[k]
    <3>2. log \in Seq(Line) /\ OneRecord(log) /\ Apart(log) /\ i \in 1 .. Len(log)
      BY <1>0, <3>1
    <3>. HIDE DEF log
    <3>3. OneRecord(Without(log, i)) /\ Apart(Without(log, i))
      BY <3>2, WithoutApart
    <3>. QED BY <3>1, <3>3 DEF log
  <2>. QED BY <2>1, <2>2
<1>3. CASE UNCHANGED <<logs, acked, dropped>>
  BY <1>0, <1>3
<1>4. "json" \in Texts /\ TRUE \in BOOLEAN /\ FALSE \in BOOLEAN
  BY DEF Texts
<1>. HIDE DEF Goal
<1>. QED BY <1>1, <1>2, <1>3, <1>4, FileMoves

\* What has been read.
LEMMA OnceReads ==
  ASSUME EngineInv, Provenance, Once, [Next]_vars, NEW p \in Procs, NEW k \in Kinds
  PROVE  Unique(job'[p].got[k])
<1>0. logs[k] \in Seq(Line) /\ Parsed(logs[k]) \in SUBSET Records
  BY EngineTypes, FileRecords
<1>1. Unique(Parsed(logs[k]))
  BY <1>0, ParsedUnique DEF Once
<1>2. Unique(Read(k))
  BY <1>0, <1>1, ViewUnique DEF Read
<1>3. Unique(Shown(k))
  BY <1>2 DEF Unique, Shown
<1>4. Unique({})
  BY DEF Unique
<1>5. Unique(job[p].got[k]) /\ \A n \in Snaps : Unique(snaps[n].view[k])
  BY DEF Once
<1>6. ASSUME NEW s \in Stmts, job'[p].got[k] = job[p].got[k] \cup {Fresh(s)}
      PROVE  Unique(job'[p].got[k])
  <2>1. \A r \in job[p].got[k] : r.id # nextId
    <3>1. \A r \in job[p].got[k] : r.id < nextId /\ r.id \in Nat
      BY EngineTypes, RecordParts DEF Provenance, Good
    <3>. QED BY <3>1, EngineTypes
  <2>2. Fresh(s).id = nextId
    BY DEF Fresh
  <2>. DEFINE f == Fresh(s)
  <2>. HIDE DEF f
  <2>3. job'[p].got[k] = job[p].got[k] \cup {f} /\ f.id = nextId
    BY <1>6, <2>2 DEF f
  <2>. QED BY <1>5, <2>1, <2>3 DEF Unique
<1>. HIDE DEF Unique
<1>. QED BY <1>2, <1>3, <1>4, <1>5, <1>6, GotMoves

\* What waits to be appended.
LEMMA OnceQueues ==
  ASSUME OneWriter, EngineInv, OneAtATime, Provenance, Once, [Next]_vars, NEW p \in Procs
  PROVE  Unwritten(queue'[p], logs')
<1>. DEFINE q == queue[p]
            Q == queue'[p]
<1>0. q \in Seq(Write) /\ Unwritten(q, logs) /\ \A k \in Kinds : logs[k] \in Seq(Line)
      /\ nextId \in Nat
  BY EngineTypes DEF Once
<1>00. \A n \in 1 .. Len(q) : q[n].kind \in Kinds /\ q[n].rec \in Records
  <2>1. ASSUME NEW n \in 1 .. Len(q) PROVE q[n] \in Write
    BY <1>0, <2>1
  <2>. QED BY <2>1 DEF Write
<1>1. CASE Q = <<>>
  BY <1>1 DEF Unwritten
<1>2. CASE Q = q /\ q # <<>>
  <2>1. ~Idle(p)
    BY <1>2 DEF Idle
  <2>2. ASSUME NEW a \in Procs, AppendNext(a) PROVE FALSE
    <3>1. a = p
      BY <2>1, <2>2, OnlyOne DEF Moves
    <3>2. Q = Tail(q)
      BY <2>2, <3>1, AppendPuts DEF EngineInv, LogInv, LogTypeOK
    <3>3. Len(Tail(q)) = Len(q) - 1 /\ Len(q) \in Nat
      BY <1>0, <1>2
    <3>4. Q = q
      BY <1>2
    <3>. HIDE DEF q, Q
    <3>5. Tail(q) = q
      BY <3>2, <3>4
    <3>6. Len(Tail(q)) = Len(q)
      BY <3>5
    <3>. QED BY <3>3, <3>6
  <2>3. ASSUME NEW a \in Procs, NEW cut \in Cuts, Tear(a, cut) PROVE FALSE
    <3>1. a = p
      BY <2>1, <2>3, OnlyOne DEF Moves
    <3>2. Q = <<>>
      BY <2>3, <3>1, TearPuts DEF EngineInv, LogInv, LogTypeOK
    <3>. QED BY <1>2, <3>2
  <2>4. logs' = logs
    BY <2>1, <2>2, <2>3, FileMoves
  <2>. QED BY <1>0, <1>2, <2>4
<1>3. CASE AppendNext(p) /\ Q = Tail(q)
  <2>1. Puts(p, "json", TRUE) /\ q # <<>>
    BY <1>3, AppendPuts DEF Puts
  <2>2. ASSUME NEW n \in 1 .. Len(Q)
        PROVE  n + 1 \in 1 .. Len(q) /\ n + 1 # 1 /\ Q[n] = q[n + 1] /\ n \in Nat
    BY <1>0, <1>3, <2>1, <2>2
  <2>3. ASSUME NEW n \in 1 .. Len(Q) PROVE Q[n].rec.id \notin Ids(Parsed(logs'[Q[n].kind]))
    <3>. DEFINE k == Q[n].kind
                i == Q[n].rec.id
                w == Head(q)
                text == LineText(w.rec, "json")
                log == logs[k]
    <3>1. k \in Kinds /\ i \notin Ids(Parsed(log)) /\ (q[1].kind = k => q[1].rec.id # i)
      <4>1. 1 \in 1 .. Len(q)
        BY <1>0, <2>1
      <4>. QED BY <1>0, <1>00, <2>2, <4>1 DEF Unwritten
    <3>2. "json" \in Texts /\ TRUE \in BOOLEAN
      BY DEF Texts
    <3>3. /\ w = q[1] /\ w.rec \in Records /\ text \in Texts
          /\ k # w.kind => logs'[k] = log
          /\ k = w.kind => logs'[k] = Put(log, w.rec, text, TRUE)
      <4>1. w = q[1] /\ w.rec \in Records
        BY <2>1, <3>2, PutsFacts
      <4>2. text \in Texts
        BY <3>2, LineTextType
      <4>3. logs'[w.kind] = Put(logs[w.kind], w.rec, text, TRUE)
        BY <2>1, <3>2, PutsFacts
      <4>4. k # w.kind => logs'[k] = log
        BY <2>1, <3>1, <3>2, PutsFacts
      <4>. QED BY <4>1, <4>2, <4>3, <4>4
    <3>4. log \in Seq(Line)
      BY <1>0, <3>1
    <3>5. CASE k # w.kind
      BY <3>1, <3>3, <3>5
    <3>6. CASE k = w.kind
      <4>1. w.rec.id # i
        BY <3>1, <3>3, <3>6
      <4>. DEFINE r == w.rec
      <4>2. r \in Records /\ text \in Texts /\ log \in Seq(Line) /\ TRUE \in BOOLEAN
        BY <3>2, <3>3, <3>4
      <4>. HIDE DEF r, text, log
      <4>3. Parsed(Put(log, r, text, TRUE)) \subseteq Parsed(log) \cup {r}
        BY <4>2, PutBounds
      <4>4. i \notin Ids(Parsed(log)) /\ r.id # i
        BY <3>1, <4>1 DEF r
      <4>5. logs'[k] = Put(log, r, text, TRUE)
        BY <3>3, <3>6 DEF r
      <4>. HIDE DEF i, k
      <4>6. i \notin Ids(Parsed(logs'[k]))
        BY <4>3, <4>4, <4>5 DEF Ids
      <4>. QED BY <4>6 DEF i, k
    <3>. QED BY <3>5, <3>6
  <2>4. ASSUME NEW n \in 1 .. Len(Q), NEW m \in 1 .. Len(Q), n # m, Q[n].kind = Q[m].kind
        PROVE  Q[n].rec.id # Q[m].rec.id
    <3>1. /\ n + 1 \in 1 .. Len(q) /\ Q[n] = q[n + 1] /\ m + 1 \in 1 .. Len(q) /\ Q[m] = q[m + 1]
          /\ n + 1 # m + 1
      BY <2>2, <2>4
    <3>. QED BY <1>0, <2>4, <3>1 DEF Unwritten
  <2>. QED BY <2>3, <2>4 DEF Unwritten
<1>4. ASSUME NEW k \in Kinds, NEW r \in Records, Q = <<[kind |-> k, rec |-> r]>>,
             r.id = nextId, UNCHANGED <<logs, acked, dropped>>
      PROVE  Unwritten(Q, logs')
  <2>1. Len(Q) = 1 /\ Q[1].kind = k /\ Q[1].rec = r
    BY <1>4
  <2>2. \A s \in Parsed(logs[k]) : s.id # nextId
    <3>1. Parsed(logs[k]) \subseteq Written(logs[k]) /\ Written(logs[k]) \subseteq Records
      BY <1>0, FileRecords
    <3>2. \A s \in Parsed(logs[k]) : s.id < nextId /\ s.id \in Nat
      BY <3>1, RecordParts DEF Provenance, Good
    <3>. QED BY <1>0, <3>2
  <2>3. r.id \notin Ids(Parsed(logs'[k]))
    BY <1>4, <2>2 DEF Ids
  <2>. HIDE DEF Q
  <2>4. \A n \in 1 .. Len(Q) : n = 1
    BY <2>1
  <2>. QED BY <2>1, <2>3, <2>4 DEF Unwritten
<1>5. CASE RestoreLog(p)
  <2>. DEFINE k == Restored[job[p].at]
  <2>1. /\ k \in Kinds /\ logs' = logs
        /\ \A n \in 1 .. Len(Q) : Q[n].kind = k /\ Q[n].rec \in Missing(p, k)
        /\ \A n, m \in 1 .. Len(Q) : Q[n].rec = Q[m].rec => n = m
    BY <1>5, RestoreBatch
  <2>2. Unique(job[p].got[k])
    BY <2>1 DEF Once
  <2>. HIDE DEF k, Q
  <2>3. \A n \in 1 .. Len(Q) : Q[n].rec \in job[p].got[k] /\ Q[n].rec.id \notin Ids(Parsed(logs[k]))
    BY <2>1 DEF Missing
  <2>4. Unwritten(Q, logs')
    BY <2>1, <2>2, <2>3 DEF Unwritten, Unique
  <2>. QED BY <2>4 DEF Q
<1>. HIDE DEF Unwritten
<1>. QED BY <1>1, <1>2, <1>3, <1>4, <1>5, QueueMoves

\* A new id is in no file, and a restore queues what is missing while nobody writes.
LEMMA OnceNext ==
  ASSUME OneWriter
  PROVE  EngineInv /\ OneAtATime /\ Provenance /\ Once /\ [Next]_vars => Once'
<1>. SUFFICES ASSUME EngineInv, OneAtATime, Provenance, Once, [Next]_vars PROVE Once'
  OBVIOUS
<1>1. ASSUME NEW k \in Kinds PROVE OneRecord(logs'[k]) /\ Apart(logs'[k])
  BY OnceFiles
<1>2. ASSUME NEW p \in Procs, NEW k \in Kinds PROVE Unique(job'[p].got[k])
  BY OnceReads
<1>3. ASSUME NEW n \in Snaps, NEW k \in Kinds PROVE Unique(snaps'[n].view[k])
  <2>1. CASE snaps'[n].view = snaps[n].view
    BY <2>1 DEF Once
  <2>2. ASSUME NEW p \in Procs, snaps'[n].view = job[p].got PROVE Unique(snaps'[n].view[k])
    BY <2>2 DEF Once
  <2>. QED BY <2>1, <2>2, ViewMoves
<1>4. ASSUME NEW p \in Procs PROVE Unwritten(queue'[p], logs')
  BY OnceQueues
<1>. QED BY <1>1, <1>2, <1>3, <1>4 DEF Once

\* So it always holds.
LEMMA OnceInvariant ==
  ASSUME OneWriter
  PROVE  Spec => []Once
<1>1. Init => Once
  <2>. SUFFICES ASSUME Init PROVE Once
    OBVIOUS
  <2>1. \A k \in Kinds : OneRecord(logs[k]) /\ Apart(logs[k])
    BY DEF Init, LogInit, OneRecord, Apart
  <2>2. /\ \A p \in Procs, k \in Kinds : job[p].got[k] = {}
        /\ \A n \in Snaps, k \in Kinds : snaps[n].view[k] = {}
    BY DEF Init, NoJob, NoSnap, NoView
  <2>3. \A p \in Procs : Unwritten(queue[p], logs)
    BY DEF Init, LogInit, Unwritten
  <2>. QED BY <2>1, <2>2, <2>3 DEF Once, Unique
<1>2. EngineInv /\ OneAtATime /\ Provenance /\ Once /\ [Next]_vars => Once'
  BY OnceNext
<1>. QED BY <1>1, <1>2, EngineInvariant, OneAtATimeInvariant, ProvenanceInvariant, PTL DEF Spec

\* However often a restore is killed and run again, no file holds two readable
\* lines with one id: restore looks at the ids in the file before it appends,
\* and nobody appends the same records while it does.
THEOREM IdsAreNeverDoubled ==
  ASSUME OneWriter
  PROVE  Spec => []NoDuplicateIds
<1>1. Once => NoDuplicateIds
  BY DEF Once, Apart, NoDuplicateIds
<1>2. Spec => []Once
  BY OnceInvariant
<1>. QED BY <1>1, <1>2, PTL
----------------------------------------------------------------------------
(* The hook adds only news.                                                *)

\* Ids of what a process has yet to append.
Pending(p) == {queue[p][i].rec.id : i \in 1 .. Len(queue[p])}

\* What was acknowledged has an id that is not new.
AckedOld == \A k \in Kinds : \A r \in acked[k] : r.id < nextId

\* Where nothing is restored, what waits was never appended, and one process has it.
NewPending ==
    /\ \A p \in Procs : job[p].op # "restore" /\ Len(queue[p]) <= 1
    /\ \A p \in Procs, k \in Kinds : \A r \in acked[k] : r.id \notin Pending(p)
    /\ \A p, q \in Procs : p # q => Pending(p) \cap Pending(q) = {}

\* Acknowledged is what was, and what an append has taken from a queue.
LEMMA AckedMoves ==
  ASSUME EngineInv, [Next]_vars, NEW k \in Kinds, NEW r \in acked'[k]
  PROVE  \/ r \in acked[k]
         \/ \E p \in Procs : /\ AppendNext(p) /\ 1 \in 1 .. Len(queue[p]) /\ queue[p][1].rec = r
                             /\ queue[p][1].kind = k
<1>1. ASSUME NEW p \in Procs, Puts(p, "json", TRUE), AppendNext(p)
      PROVE  r \in acked[k] \/ (1 \in 1 .. Len(queue[p]) /\ queue[p][1].rec = r /\ queue[p][1].kind = k)
  <2>1. "json" \in Texts /\ TRUE \in BOOLEAN
    BY DEF Texts
  <2>2. /\ 1 \in 1 .. Len(queue[p]) /\ queue[p][1].kind \in Kinds
        /\ \A l \in Kinds \ {queue[p][1].kind} : acked'[l] = acked[l]
        /\ acked'[queue[p][1].kind] = acked[queue[p][1].kind] \cup {queue[p][1].rec}
    BY <1>1, <2>1, PutsFacts
  <2>. QED BY <2>2
<1>2. ASSUME NEW p \in Procs, NEW cut \in Cuts, Tear(p, cut) PROVE r \in acked[k]
  BY <1>2 DEF Tear, TearAppend
<1>3. ASSUME NEW h \in Kinds, NEW i, DeleteLine(h, i) PROVE r \in acked[k]
  BY <1>3 DEF DeleteLine
<1>. QED BY <1>1, <1>2, <1>3, FileMoves

\* What waits has an id that was given out.
LEMMA PendingIds ==
  ASSUME EngineInv, Provenance, NEW p \in Procs
  PROVE  \A x \in Pending(p) : x < nextId
<1>. SUFFICES ASSUME NEW i \in 1 .. Len(queue[p]) PROVE queue[p][i].rec.id < nextId
  BY DEF Pending
<1>1. Good(queue[p][i].kind, {queue[p][i].rec}, nextId)
  BY DEF Provenance
<1>. QED BY <1>1 DEF Good

\* Ids are given out one after the other.
LEMMA AckedOldNext == EngineInv /\ Provenance /\ AckedOld /\ [Next]_vars => AckedOld'
<1>. SUFFICES ASSUME EngineInv, Provenance, AckedOld, [Next]_vars,
                     NEW k \in Kinds, NEW r \in acked'[k]
              PROVE  r.id < nextId'
  BY DEF AckedOld
<1>1. nextId \in Nat /\ (nextId' = nextId \/ nextId' = nextId + 1)
  BY IdsMove, EngineTypes
<1>2. r.id < nextId
  <2>1. CASE r \in acked[k]
    BY <2>1 DEF AckedOld
  <2>2. ASSUME NEW p \in Procs, 1 \in 1 .. Len(queue[p]), queue[p][1].rec = r PROVE r.id < nextId
    <3>1. r.id \in Pending(p)
      BY <2>2 DEF Pending
    <3>. QED BY <3>1, PendingIds
  <2>. QED BY <2>1, <2>2, AckedMoves
<1>3. r.id \in Nat
  <2>1. acked' \in [Kinds -> SUBSET Records]
    BY EngineNext DEF EngineInv, LogInv, LogTypeOK
  <2>. QED BY <2>1, RecordParts
<1>. QED BY <1>1, <1>2, <1>3

\* So it always holds.
LEMMA AckedOldInvariant == Spec => []AckedOld
<1>1. Init => AckedOld
  BY DEF Init, LogInit, AckedOld
<1>. QED BY <1>1, AckedOldNext, EngineInvariant, ProvenanceInvariant, PTL DEF Spec

\* What waits, where nothing is restored, is what waited or has the next id.
LEMMA PendingMoves ==
  ASSUME EngineInv, [Next]_vars, NEW p \in Procs, ~RestoreLog(p)
  PROVE  \/ queue'[p] = queue[p]
         \/ Pending(p)' = {}
         \/ AppendNext(p) /\ queue'[p] = Tail(queue[p])
         \/ /\ Pending(p)' = {nextId} /\ Len(queue'[p]) = 1 /\ nextId' = nextId + 1
            /\ UNCHANGED <<logs, acked, dropped>>
<1>1. queue'[p] = <<>> => Pending(p)' = {}
  BY DEF Pending
<1>2. ASSUME NEW k \in Kinds, NEW r \in Records,
             queue'[p] = <<[kind |-> k, rec |-> r]>>, r.id = nextId
      PROVE  Pending(p)' = {nextId} /\ Len(queue'[p]) = 1
  <2>1. Len(queue'[p]) = 1 /\ queue'[p][1].rec = r
    BY <1>2
  <2>. QED BY <1>2, <2>1 DEF Pending
<1>. QED BY <1>1, <1>2, QueueMoves

\* An append takes the head off its queue.
LEMMA QueueTail ==
  ASSUME EngineInv, NEW p \in Procs, AppendNext(p)
  PROVE  queue'[p] = Tail(queue[p]) /\ queue[p] # <<>>
BY DEF EngineInv, LogInv, LogTypeOK, AppendNext, AppendRecord

\* Only a restore hands over what was there before.
LEMMA NewPendingNext ==
  ASSUME "restore" \notin Ops
  PROVE  EngineInv /\ Provenance /\ AckedOld /\ NewPending /\ [Next]_vars => NewPending'
<1>. SUFFICES ASSUME EngineInv, Provenance, AckedOld, NewPending, [Next]_vars
              PROVE  NewPending'
  OBVIOUS
<1>1. ASSUME NEW p \in Procs PROVE ~RestoreLog(p) /\ \A n \in Snaps : ~RestoreBegin(p, n)
  BY DEF NewPending, RestoreLog, At, RestoreBegin, MayStart
<1>2. ASSUME NEW p \in Procs PROVE job'[p].op # "restore"
  <2>1. job[p].op # "restore"
    BY DEF NewPending
  <2>2. CASE KeptJob(p)
    BY <2>1, <2>2 DEF KeptJob
  <2>3. CASE job'[p] = NoJob
    BY <2>3, NoJobFacts
  <2>4. CASE Begins(p)
    <3>1. LogTypeOK /\ JobsOK /\ \A k \in Kinds : IsFiniteSet(Written(logs[k]))
      BY DEF EngineInv, LogInv, FilesFinite
    <3>2. (\E forced \in BOOLEAN : SnapBegin(p, forced)) => job'[p].op = "snapshot"
      BY <3>1, SnapBeginJob
    <3>3. (\E n \in 0 .. Len(CutOrder) : HandoffBegin(p, n)) => job'[p].op = "handoff"
      BY <3>1, HandoffBeginJob
    <3>4. (\E script \in Transcripts : HookBegin(p, script)) => job'[p].op = "hook"
      BY <3>1, HookBeginJob
    <3>. QED BY <1>1, <2>4, <3>2, <3>3, <3>4 DEF Begins
  <2>5. CASE Goes(p)
    BY <2>1, <2>5, GoesFacts DEF Same
  <2>. QED BY <2>2, <2>3, <2>4, <2>5, JobSteps
<1>3. ASSUME NEW p \in Procs
      PROVE  /\ Len(queue'[p]) <= 1
             /\ \/ Pending(p)' \subseteq Pending(p) /\ (AppendNext(p) => Pending(p)' = {})
                \/ Pending(p)' = {nextId} /\ UNCHANGED acked
  <2>1. queue[p] \in Seq(Write) /\ Len(queue[p]) <= 1
    BY EngineTypes DEF NewPending
  <2>2. ASSUME AppendNext(p) PROVE queue'[p] = <<>>
    <3>1. queue'[p] = Tail(queue[p]) /\ queue[p] # <<>>
      BY <2>2, QueueTail
    <3>. QED BY <2>1, <3>1
  <2>3. queue'[p] = <<>> => Pending(p)' = {} /\ Len(queue'[p]) = 0
    BY DEF Pending
  <2>4. queue'[p] = queue[p] => Pending(p)' = Pending(p)
    BY DEF Pending
  <2>5. Pending(p)' = {} => queue'[p] = <<>>
    <3>0. EngineInv'
      BY EngineNext
    <3>1. queue'[p] \in Seq(Write)
      BY <3>0 DEF EngineInv, LogInv, LogTypeOK
    <3>2. queue'[p] # <<>> => queue'[p][1].rec.id \in Pending(p)'
      BY <3>1 DEF Pending
    <3>. QED BY <3>2
  <2>6. CASE queue'[p] = <<>>
    BY <2>3, <2>6
  <2>7. CASE queue'[p] # <<>> /\ queue'[p] = queue[p]
    BY <2>1, <2>2, <2>4, <2>7
  <2>8. CASE Pending(p)' = {nextId} /\ Len(queue'[p]) = 1 /\ UNCHANGED <<logs, acked, dropped>>
    BY <2>8
  <2>. QED BY <1>1, <2>2, <2>5, <2>6, <2>7, <2>8, PendingMoves, QueueTail
<1>4. ASSUME NEW p \in Procs PROVE \A x \in Pending(p) : x # nextId
  <2>1. \A x \in Pending(p) : x < nextId
    BY PendingIds
  <2>. QED BY <2>1, EngineTypes
<1>5. ASSUME NEW p \in Procs, NEW k \in Kinds, NEW r \in acked'[k] PROVE r.id \notin Pending(p)'
  <2>1. CASE Pending(p)' = {nextId} /\ UNCHANGED acked
    <3>1. r.id < nextId
      BY <1>5, <2>1 DEF AckedOld
    <3>. QED BY <2>1, <3>1, EngineTypes
  <2>2. CASE Pending(p)' \subseteq Pending(p) /\ (AppendNext(p) => Pending(p)' = {})
    <3>1. CASE r \in acked[k]
      BY <2>2, <3>1 DEF NewPending
    <3>2. ASSUME NEW q \in Procs, AppendNext(q), 1 \in 1 .. Len(queue[q]), queue[q][1].rec = r
          PROVE  r.id \notin Pending(p)'
      <4>1. r.id \in Pending(q)
        BY <3>2 DEF Pending
      <4>2. q # p => Pending(p) \cap Pending(q) = {}
        BY DEF NewPending
      <4>. QED BY <2>2, <3>2, <4>1, <4>2
    <3>. QED BY <3>1, <3>2, AckedMoves
  <2>. QED BY <1>3, <2>1, <2>2
<1>6. ASSUME NEW p \in Procs, NEW q \in Procs, p # q PROVE Pending(p)' \cap Pending(q)' = {}
  <2>1. Pending(p) \cap Pending(q) = {}
    BY <1>6 DEF NewPending
  <2>2. queue'[p] = queue[p] => Pending(p)' = Pending(p)
    BY DEF Pending
  <2>3. queue'[q] = queue[q] => Pending(q)' = Pending(q)
    BY DEF Pending
  <2>4. queue'[p] = queue[p] \/ queue'[q] = queue[q]
    <3>1. Moves(p) \/ queue'[p] = queue[p]
      BY OwnOrKept
    <3>2. Moves(p) => queue'[q] = queue[q]
      BY <1>6, Frame
    <3>. QED BY <3>1, <3>2
  <2>. QED BY <1>3, <1>4, <2>1, <2>2, <2>3, <2>4
<1>. QED BY <1>2, <1>3, <1>5, <1>6 DEF NewPending

\* So it always holds.
LEMMA NewPendingInvariant ==
  ASSUME "restore" \notin Ops
  PROVE  Spec => []NewPending
<1>1. Init => NewPending
  BY NoJobFacts DEF Init, LogInit, NewPending, Pending
<1>2. EngineInv /\ Provenance /\ AckedOld /\ NewPending /\ [Next]_vars => NewPending'
  BY NewPendingNext
<1>. QED BY <1>1, <1>2, EngineInvariant, ProvenanceInvariant, AckedOldInvariant, PTL DEF Spec

\* Nothing that waits beside a hook was there when it started, what was and can be
\* read the hook knows, and it knows what it has seen.
NewsCare(p) ==
    LET j == job[p] IN
    (j.op = "hook" /\ j.step = "capture") =>
        /\ \A q \in Procs : \A r \in j.known["discoveries"] : r.id \notin Pending(q)
        /\ \A r \in j.known["discoveries"] : r \in Parsed(logs["discoveries"]) => r \in j.got["discoveries"]
        /\ \A i \in 1 .. Len(j.script) : i < j.at => j.script[i] \in Stated(j.got["discoveries"])

\* What can be read is what could be, and what an append has added.
LEMMA ParsedMoves ==
  ASSUME EngineInv, [Next]_vars, NEW k \in Kinds, NEW r \in Parsed(logs'[k])
  PROVE  r \in Parsed(logs[k]) \/ \E p \in Procs : r.id \in Pending(p)
<1>0. logs[k] \in Seq(Line)
  BY EngineTypes
<1>1. ASSUME NEW p \in Procs, NEW cut \in Texts, NEW ended \in BOOLEAN, Puts(p, cut, ended)
      PROVE  r \in Parsed(logs[k]) \/ r.id \in Pending(p)
  <2>1. CASE logs'[k] = logs[k]
    BY <2>1
  <2>2. ASSUME NEW s \in Records, NEW text \in Texts, 1 \in 1 .. Len(queue[p]), queue[p][1].rec = s,
               logs'[k] = Put(logs[k], s, text, ended)
        PROVE  r \in Parsed(logs[k]) \/ r.id \in Pending(p)
    <3>1. Parsed(logs'[k]) \subseteq Parsed(logs[k]) \cup {s}
      BY <1>0, <2>2, PutBounds
    <3>2. s.id \in Pending(p)
      BY <2>2 DEF Pending
    <3>. QED BY <3>1, <3>2
  <2>. QED BY <1>1, <2>1, <2>2, PutsOne
<1>2. ASSUME NEW h \in Kinds, NEW i, DeleteLine(h, i) PROVE r \in Parsed(logs[k])
  <2>1. CASE h # k
    BY <1>2, <2>1, DeleteFacts
  <2>2. CASE h = k
    <3>1. i \in 1 .. Len(logs[k]) /\ logs[k][i].text # "json" /\ logs'[k] = Without(logs[k], i)
      BY <1>2, <2>2, DeleteFacts
    <3>. QED BY <1>0, <3>1, WithoutBounds
  <2>. QED BY <2>1, <2>2
<1>3. CASE UNCHANGED <<logs, acked, dropped>>
  BY <1>3
<1>4. "json" \in Texts /\ TRUE \in BOOLEAN /\ FALSE \in BOOLEAN
  BY DEF Texts
<1>. QED BY <1>1, <1>2, <1>3, <1>4, FileMoves

\* What stays of it while the hook does not capture.
LEMMA PendingStaysNew ==
  ASSUME EngineInv, KnownAcked, AckedOld, [Next]_vars, NEW p \in Procs, job[p].op = "hook",
         "discoveries" \in Kinds, NEW q \in Procs, ~RestoreLog(q),
         \A r \in job[p].known["discoveries"] : r.id \notin Pending(q)
  PROVE  \A r \in job[p].known["discoveries"] : r.id \notin Pending(q)'
<1>. SUFFICES ASSUME NEW r \in job[p].known["discoveries"] PROVE r.id \notin Pending(q)'
  OBVIOUS
<1>1. r.id < nextId /\ nextId \in Nat
  BY EngineTypes DEF KnownAcked, AckedOld
<1>2. queue'[q] = queue[q] => Pending(q)' = Pending(q)
  BY DEF Pending
<1>3. ASSUME AppendNext(q) PROVE Pending(q)' \subseteq Pending(q)
  <2>1. queue[q] \in Seq(Write) /\ queue[q] # <<>> /\ queue'[q] = Tail(queue[q])
    BY <1>3, EngineTypes, QueueTail
  <2>2. ASSUME NEW i \in 1 .. Len(queue'[q]) PROVE queue'[q][i].rec.id \in Pending(q)
    <3>1. i + 1 \in 1 .. Len(queue[q]) /\ queue'[q][i] = queue[q][i + 1]
      BY <2>1, <2>2
    <3>. QED BY <3>1 DEF Pending
  <2>. QED BY <2>2 DEF Pending
<1>. QED BY <1>1, <1>2, <1>3, PendingMoves

\* One operation at a time, or none that is a restore.
Lone == (OneWriter /\ OneAtATime) \/ NewPending

\* No restore appends beside a hook.
LEMMA NoRestoreBeside ==
  ASSUME Lone, NEW p \in Procs, job[p].op = "hook", NEW q \in Procs
  PROVE  ~RestoreLog(q)
<1>1. NewPending => ~RestoreLog(q)
  BY DEF NewPending, RestoreLog, At
<1>2. ASSUME OneAtATime, RestoreLog(q) PROVE FALSE
  <2>1. job[q].op = "restore"
    BY <1>2 DEF RestoreLog, At
  <2>2. ~Idle(p) /\ ~Idle(q) /\ p # q
    BY <2>1, NoJobFacts DEF Idle
  <2>. QED BY <1>2, <2>2 DEF OneAtATime
<1>. QED BY <1>1, <1>2 DEF Lone

\* The hook reads what is there when it starts and learns what it records.
LEMMA NewsCareNext ==
  ASSUME EngineInv, KnownAcked, AckedOld, Lone, NEW p \in Procs, NewsCare(p), [Next]_vars
  PROVE  NewsCare(p)'
<1>. DEFINE d == "discoveries"
            New(J) == \A q \in Procs : \A r \in J.known[d] : r.id \notin Pending(q)'
            Knows(J) == \A r \in J.known[d] : r \in Parsed(logs'[d]) => r \in J.got[d]
            Seen(J) == \A i \in 1 .. Len(J.script) : i < J.at => J.script[i] \in Stated(J.got[d])
<1>. SUFFICES ASSUME job'[p].op = "hook", job'[p].step = "capture"
              PROVE  New(job'[p]) /\ Knows(job'[p]) /\ Seen(job'[p])
  BY DEF NewsCare
<1>0. /\ LogTypeOK /\ JobsOK /\ \A k \in Kinds : IsFiniteSet(Written(logs[k]))
      /\ nextId \in 1 .. MaxId + 1
      /\ job[p].got \in [Kinds -> SUBSET Records] /\ job[p].script \in Seq(Stmts) /\ job[p].at \in Nat
  BY DEF EngineInv, LogInv, LogTypeOK, FilesFinite, JobsOK, JobOK, Job
<1>1. ASSUME job[p].op = "hook" PROVE d \in Kinds
  BY <1>0, <1>1 DEF JobsOK, JobOK, Places
<1>2. ASSUME job[p].op = "hook", job[p].step = "capture"
      PROVE  /\ \A q \in Procs : \A r \in job[p].known[d] : r.id \notin Pending(q)'
             /\ \A r \in job[p].known[d] : r \in Parsed(logs'[d]) => r \in job[p].got[d]
  <2>1. ASSUME NEW q \in Procs PROVE \A r \in job[p].known[d] : r.id \notin Pending(q)'
    <3>1. \A r \in job[p].known[d] : r.id \notin Pending(q)
      BY <1>2 DEF NewsCare
    <3>2. ~RestoreLog(q) /\ d \in Kinds
      BY <1>1, <1>2, NoRestoreBeside
    <3>. QED BY <1>2, <3>1, <3>2, PendingStaysNew
  <2>2. ASSUME NEW r \in job[p].known[d], r \in Parsed(logs'[d]) PROVE r \in job[p].got[d]
    <3>1. \A q \in Procs : r.id \notin Pending(q)
      BY <1>2, <2>2 DEF NewsCare
    <3>2. r \in Parsed(logs[d])
      BY <1>1, <1>2, <2>2, <3>1, ParsedMoves
    <3>. QED BY <1>2, <2>2, <3>2 DEF NewsCare
  <2>. QED BY <2>1, <2>2
<1>3. CASE KeptJob(p)
  <2>1. /\ job[p].op = "hook" /\ job[p].step = "capture" /\ job'[p].known = job[p].known
        /\ job'[p].got = job[p].got /\ job'[p].script = job[p].script /\ job'[p].at = job[p].at
    BY <1>3 DEF KeptJob
  <2>2. Seen(job[p])
    BY <2>1 DEF NewsCare
  <2>. QED BY <1>2, <2>1, <2>2
<1>4. CASE job'[p] = NoJob
  BY <1>4, NoJobFacts
<1>5. CASE Begins(p)
  <2>1. PICK script \in Transcripts : HookBegin(p, script)
    <3>1. ~(\E forced \in BOOLEAN : SnapBegin(p, forced))
      BY <1>0, SnapBeginJob
    <3>2. ~(\E n \in Snaps : RestoreBegin(p, n))
      <4>1. \A n \in Snaps : /\ snaps[n].task \in Tasks \cup {NoTask}
                             /\ snaps[n].view \in [Kinds -> SUBSET Records]
                             /\ \A h \in Kinds : IsFiniteSet(snaps[n].view[h])
        BY DEF EngineInv, SnapsOK, Snapshot
      <4>. QED BY <1>0, <4>1, RestoreBeginJob
    <3>3. ~(\E n \in 0 .. Len(CutOrder) : HandoffBegin(p, n))
      BY <1>0, HandoffBeginJob
    <3>. QED BY <1>5, <3>1, <3>2, <3>3 DEF Begins
  <2>2. /\ job'[p].at = 1 /\ d \in Kinds /\ job'[p].known = acked
        /\ job'[p].got = [NoView EXCEPT ![d] = Parsed(logs[d])]
    BY <1>0, <2>1, HookBeginJob
  <2>3. job'[p].got[d] = Parsed(logs[d])
    BY <2>2 DEF NoView
  <2>4. logs' = logs /\ queue' = queue
    BY <1>5, BeginsFacts
  <2>5. ASSUME NEW q \in Procs, NEW r \in acked[d] PROVE r.id \notin Pending(q)
    <3>1. NewPending => r.id \notin Pending(q)
      BY <2>2, <2>5 DEF NewPending
    <3>2. OneWriter => queue[q] = <<>>
      BY <2>1 DEF HookBegin, MayStart, Idle
    <3>. QED BY <3>1, <3>2 DEF Lone, Pending
  <2>6. New(job'[p])
    BY <2>2, <2>4, <2>5 DEF Pending
  <2>7. Knows(job'[p])
    BY <2>3, <2>4
  <2>8. Seen(job'[p])
    BY <2>2
  <2>. QED BY <2>6, <2>7, <2>8
<1>6. CASE Goes(p)
  <2>1. /\ job[p].op = "hook" /\ job'[p].script = job[p].script /\ job'[p].known = job[p].known
    BY <1>6, GoesFacts DEF Same
  <2>2. CASE CaptureNew(p)
    <3>. DEFINE j == job[p]
                s == j.script[j.at]
                f == Fresh(s)
    <3>1. /\ j.step = "capture" /\ job'[p].at = j.at + 1 /\ j.at <= Len(j.script)
          /\ job'[p].got = [j.got EXCEPT ![d] = @ \cup {f}] /\ d \in Kinds
      BY <1>0, <2>2, CaptureNewJob
    <3>2. f.stmt = s
      BY DEF Fresh
    <3>. HIDE DEF f
    <3>3. job'[p].got[d] = j.got[d] \cup {f}
      BY <1>0, <3>1
    <3>4. Stated(job'[p].got[d]) = Stated(j.got[d]) \cup {s}
      BY <3>2, <3>3 DEF Stated
    <3>5. \A i \in 1 .. Len(j.script) : i < j.at => j.script[i] \in Stated(j.got[d])
      BY <2>1, <3>1 DEF NewsCare
    <3>6. Seen(job'[p])
      <4>1. job'[p].script = j.script /\ Len(j.script) \in Nat /\ j.at \in Nat /\ job'[p].at = j.at + 1
        BY <1>0, <2>1, <3>1
      <4>2. ASSUME NEW i \in 1 .. Len(j.script), i < j.at + 1
            PROVE  j.script[i] \in Stated(job'[p].got[d])
        <5>1. i < j.at \/ i = j.at
          BY <4>1, <4>2
        <5>. QED BY <3>4, <3>5, <5>1
      <4>. QED BY <4>1, <4>2
    <3>7. New(job'[p]) /\ Knows(job'[p])
      BY <1>2, <2>1, <3>1, <3>3
    <3>. QED BY <3>6, <3>7
  <2>3. CASE CaptureKnown(p)
    <3>1. /\ job[p].step = "capture" /\ job'[p].at = job[p].at + 1 /\ job[p].at <= Len(job[p].script)
          /\ job'[p].got = job[p].got /\ job[p].script[job[p].at] \in Stated(job[p].got[d])
      BY <1>0, <2>3, CaptureKnownJob
    <3>2. \A i \in 1 .. Len(job[p].script) : i < job[p].at => job[p].script[i] \in Stated(job[p].got[d])
      BY <2>1, <3>1 DEF NewsCare
    <3>3. Seen(job'[p])
      BY <1>0, <2>1, <3>1, <3>2
    <3>. QED BY <1>2, <2>1, <3>1, <3>3
  <2>4. CASE CaptureEnd(p)
    BY <1>0, <2>4, CaptureEndJob
  <2>5. CASE Check(p) \/ Number(p) \/ Collect(p) \/ Mkdir(p) \/ (Publish(p) /\ job[p].op = "hook")
    <3>0. snaps \in [Snaps -> [dir: BOOLEAN, full: BOOLEAN, forced: BOOLEAN,
                      task: Tasks \cup {NoTask}, view: [Kinds -> SUBSET Records]]]
          /\ task \in Tasks \cup {NoTask}
      BY DEF EngineInv, SnapsOK, Snapshot
    <3>1. ~Check(p)
      BY <1>0, CheckJob
    <3>2. ~Number(p)
      BY <1>0, <3>0, NumberJob
    <3>3. ~Collect(p)
      BY <1>0, CollectJob
    <3>4. ~Mkdir(p)
      BY <1>0, MkdirJob
    <3>5. ~(Publish(p) /\ job[p].op = "hook")
      BY <1>0, PublishJob
    <3>. QED BY <2>5, <3>1, <3>2, <3>3, <3>4, <3>5
  <2>6. CASE RestoreTask(p) \/ RestoreLog(p) \/ Gather(p) \/ Surface(p)
    BY <2>1, <2>6 DEF RestoreTask, RestoreLog, Gather, Surface, At
  <2>. QED BY <1>6, <2>2, <2>3, <2>4, <2>5, <2>6 DEF Goes
<1>. QED BY <1>3, <1>4, <1>5, <1>6, JobSteps

\* A hook hands over what it captures, and nothing else.
LEMMA HookHandsOver ==
  ASSUME EngineInv, [Next]_vars, NEW p \in Procs, job[p].op = "hook", queue[p] = <<>>, queue'[p] # <<>>
  PROVE  CaptureNew(p)
<1>0. queue \in [Procs -> Seq(Write)]
  BY DEF EngineInv, LogInv, LogTypeOK
<1>1. ~Idle(p)
  BY NoJobFacts DEF Idle
<1>2. Moves(p)
  BY OwnOrKept
<1>3. ~Quiet(p)
  BY QuietLogs DEF logVars
<1>4. ~Single(p)
  BY <1>1, SingleRecord
<1>5. ~Surface(p) /\ ~RestoreLog(p)
  BY DEF Surface, RestoreLog, At
<1>6. ~Kill(p)
  BY <1>0 DEF Kill
<1>7. ~AppendNext(p) /\ \A cut \in Cuts : ~Tear(p, cut)
  BY DEF AppendNext, AppendRecord, Tear, TearAppend
<1>. QED BY <1>2, <1>3, <1>4, <1>5, <1>6, <1>7 DEF Moves

\* What that is was not there.
LEMMA HookNews ==
  ASSUME EngineInv, [Next]_vars, NEW p \in Procs, NewsCare(p),
         job[p].op = "hook", queue[p] = <<>>, queue'[p] # <<>>
  PROVE  /\ queue'[p][1].rec.stmt \notin
              Stated(job[p].known["discoveries"] \cap Parsed(logs["discoveries"]))
         /\ \A i \in 1 .. job[p].at - 1 : queue'[p][1].rec.stmt # job[p].script[i]
<1>. DEFINE d == "discoveries"
            s == job[p].script[job[p].at]
            g == job[p].got[d]
<1>0. /\ LogTypeOK /\ JobsOK /\ nextId \in 1 .. MaxId + 1 /\ queue \in [Procs -> Seq(Write)]
      /\ job[p].script \in Seq(Stmts) /\ job[p].at \in Nat
  BY DEF EngineInv, LogInv, LogTypeOK, JobsOK, JobOK, Job
<1>1. CaptureNew(p)
  BY HookHandsOver
<1>2. job[p].step = "capture" /\ job[p].at <= Len(job[p].script) /\ s \notin Stated(g)
  BY <1>0, <1>1, CaptureNewJob
<1>3. queue'[p] = <<[kind |-> d, rec |-> Fresh(s)]>>
  BY <1>0, <1>1 DEF CaptureNew, Begin
<1>4. queue'[p][1].rec.stmt = s
  BY <1>3 DEF Fresh
<1>5. \A r \in job[p].known[d] : r \in Parsed(logs[d]) => r \in g
  BY <1>2 DEF NewsCare
<1>6. \A i \in 1 .. Len(job[p].script) : i < job[p].at => job[p].script[i] \in Stated(g)
  BY <1>2 DEF NewsCare
<1>7. Stated(job[p].known[d] \cap Parsed(logs[d])) \subseteq Stated(g)
  BY <1>5 DEF Stated
<1>8. ASSUME NEW i \in 1 .. job[p].at - 1 PROVE job[p].script[i] \in Stated(g)
  <2>1. i \in 1 .. Len(job[p].script) /\ i < job[p].at
    BY <1>0, <1>2, <1>8
  <2>. QED BY <1>6, <2>1
<1>. HIDE DEF g, s
<1>. QED BY <1>2, <1>4, <1>7, <1>8

\* The hook appends nothing that could be read when it started, nor anything twice,
\* whatever others append meanwhile, as long as no restore runs beside it: one could
\* append again a record that the hook found torn.
THEOREM HooksAddOnlyNews ==
  ASSUME OneWriter \/ "restore" \notin Ops
  PROVE  Spec => HookAddsOnlyNews
<1>. DEFINE Care == \A p \in Procs : NewsCare(p)
<1>1. Init => Care
  BY NoJobFacts DEF Init, NewsCare
<1>2. EngineInv /\ KnownAcked /\ AckedOld /\ Lone /\ Care /\ [Next]_vars => Care'
  BY NewsCareNext
<1>3. EngineInv /\ Care /\ [Next]_vars =>
        [\A p \in Procs :
            (job[p].op = "hook" /\ queue[p] = <<>> /\ queue'[p] # <<>>) =>
                /\ queue'[p][1].rec.stmt \notin
                     Stated(job[p].known["discoveries"] \cap Parsed(logs["discoveries"]))
                /\ \A i \in 1 .. job[p].at - 1 : queue'[p][1].rec.stmt # job[p].script[i]]_queue
  BY HookNews
<1>4. Spec => []Lone
  <2>1. CASE OneWriter
    <3>1. Spec => []OneAtATime
      BY <2>1, OneAtATimeInvariant
    <3>2. OneAtATime => Lone
      BY <2>1 DEF Lone
    <3>. QED BY <3>1, <3>2, PTL
  <2>2. CASE "restore" \notin Ops
    <3>1. Spec => []NewPending
      BY <2>2, NewPendingInvariant
    <3>2. NewPending => Lone
      BY DEF Lone
    <3>. QED BY <3>1, <3>2, PTL
  <2>. QED BY <2>1, <2>2
<1>. HIDE DEF Care
<1>. QED BY <1>1, <1>2, <1>3, <1>4, EngineInvariant, KnownAckedInvariant, AckedOldInvariant, PTL
     DEF Spec, HookAddsOnlyNews
=============================================================================
