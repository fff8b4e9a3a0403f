-------------------------- MODULE AppendLog_proofs --------------------------
(***************************************************************************)
(* Proofs about AppendLog, for every set of processes, kinds and records,  *)
(* and whatever prefix a torn append leaves.                               *)
(***************************************************************************)
EXTENDS AppendLog, TLAPS

(* Facts about the operations on one file.                                 *)

\* An append keeps a file a sequence of lines.
LEMMA PutType ==
  ASSUME NEW log \in Seq(Line), NEW r \in Records,
         NEW text \in Texts, NEW ended \in BOOLEAN
  PROVE  Put(log, r, text, ended) \in Seq(Line)
<1>1. CASE Open(log)
  <2>1. Len(log) \in 1 .. Len(log) /\ log[Len(log)] \in Line
    BY <1>1 DEF Open
  <2>2. Joined(log[Len(log)].text, text) \in Texts
    BY <2>1 DEF Joined, Texts
  <2>3. [text |-> Joined(log[Len(log)].text, text), ended |-> ended,
         recs |-> log[Len(log)].recs \cup {r}] \in Line
    BY <2>1, <2>2 DEF Line
  <2>. QED BY <1>1, <2>1, <2>3 DEF Put
<1>2. CASE ~Open(log)
  <2>1. [text |-> text, ended |-> ended, recs |-> {r}] \in Line
    BY DEF Line
  <2>. QED BY <1>2, <2>1 DEF Put
<1>. QED BY <1>1, <1>2

\* An append leaves every complete line where it was, and it is the only
\* thing that can change the incomplete one.
LEMMA PutHistory ==
  ASSUME NEW log \in Seq(Line), NEW r, NEW text, NEW ended
  PROVE  /\ Len(Put(log, r, text, ended)) >= Len(log)
         /\ \A i \in 1 .. Len(log) :
              log[i].ended => Put(log, r, text, ended)[i] = log[i]
<1>1. CASE Open(log)
  BY <1>1 DEF Open, Put
<1>2. CASE ~Open(log)
  BY <1>2 DEF Put
<1>. QED BY <1>1, <1>2

\* Every record with bytes in the file still has them after an append, and the
\* appended one has too.
LEMMA PutWritten ==
  ASSUME NEW log \in Seq(Line), NEW r, NEW text, NEW ended
  PROVE  Written(log) \cup {r} \subseteq Written(Put(log, r, text, ended))
<1>. DEFINE new == Put(log, r, text, ended)
<1>1. SUFFICES ASSUME NEW s \in Written(log) \cup {r}
               PROVE  \E i \in 1 .. Len(new) : s \in new[i].recs
  BY DEF Written, LinesOf
<1>2. CASE Open(log)
  <2>1. /\ Len(new) = Len(log)
        /\ Len(log) \in 1 .. Len(log)
        /\ \A i \in 1 .. Len(log) : i # Len(log) => new[i] = log[i]
        /\ new[Len(log)].recs = log[Len(log)].recs \cup {r}
    BY <1>2 DEF Open, Put
  <2>2. CASE s = r
    BY <2>1, <2>2
  <2>3. CASE s \in Written(log)
    <3>1. PICK i \in 1 .. Len(log) : s \in log[i].recs
      BY <2>3 DEF Written, LinesOf
    <3>. QED BY <2>1, <3>1
  <2>. QED BY <2>2, <2>3
<1>3. CASE ~Open(log)
  <2>1. /\ Len(new) = Len(log) + 1
        /\ \A i \in 1 .. Len(log) : new[i] = log[i]
        /\ new[Len(log) + 1].recs = {r}
    BY <1>3 DEF Put
  <2>2. CASE s = r
    BY <2>1, <2>2
  <2>3. CASE s \in Written(log)
    <3>1. PICK i \in 1 .. Len(log) : s \in log[i].recs
      BY <2>3 DEF Written, LinesOf
    <3>. QED BY <2>1, <3>1
  <2>. QED BY <2>2, <2>3
<1>. QED BY <1>2, <1>3

\* Deleting line i shortens the file by one line and loses no bytes but its own.
LEMMA WithoutFacts ==
  ASSUME NEW log \in Seq(Line), NEW i \in 1 .. Len(log)
  PROVE  /\ Without(log, i) \in Seq(Line)
         /\ Len(Without(log, i)) = Len(log) - 1
         /\ Written(log) \subseteq Written(Without(log, i)) \cup log[i].recs
<1>. DEFINE new == Without(log, i)
            n == Len(log) - 1
<1>1. n \in Nat
  OBVIOUS
<1>2. \A j \in 1 .. n : (IF j < i THEN log[j] ELSE log[j + 1]) \in Line
  OBVIOUS
<1>3. new \in [1 .. n -> Line]
  BY <1>2 DEF Without
<1>4. new \in Seq(Line) /\ Len(new) = n
  BY <1>1, <1>3
<1>5. ASSUME NEW s \in Written(log), s \notin log[i].recs
      PROVE  s \in Written(new)
  <2>1. PICK j \in 1 .. Len(log) : s \in log[j].recs
    BY <1>5 DEF Written, LinesOf
  <2>2. j # i
    BY <1>5, <2>1
  <2>3. CASE j < i
    <3>1. j \in 1 .. n /\ new[j] = log[j]
      BY <2>3 DEF Without
    <3>. QED BY <1>4, <2>1, <3>1 DEF Written, LinesOf
  <2>4. CASE j > i
    <3>1. j - 1 \in 1 .. n /\ new[j - 1] = log[j]
      BY <2>4 DEF Without
    <3>. QED BY <1>4, <2>1, <3>1 DEF Written, LinesOf
  <2>. QED BY <2>2, <2>3, <2>4
<1>. QED BY <1>4, <1>5

\* A line of text is of the type of lines.
LEMMA LineTextType ==
  ASSUME NEW r, NEW cut \in Texts
  PROVE  LineText(r, cut) \in Texts
BY DEF LineText, Texts
----------------------------------------------------------------------------
(* The inductive invariant: the types and AckedRetained.  An append is the *)
(* only step that acknowledges, and PutWritten says its record is written; *)
(* LossIsReported then follows in every single state, because the lines of *)
(* a clean file all parse.                                                 *)

LogInv == LogTypeOK /\ AckedRetained

\* What one append, whole or torn, does to the file it goes to.
LEMMA PutStep ==
  ASSUME LogTypeOK, NEW p \in Procs, queue[p] # <<>>,
         NEW cut \in Texts, NEW ended \in BOOLEAN,
         logs' = [logs EXCEPT ![Head(queue[p]).kind] =
                    Put(@, Head(queue[p]).rec, LineText(Head(queue[p]).rec, cut), ended)]
  PROVE  /\ Head(queue[p]) \in Write
         /\ logs' \in [Kinds -> Seq(Line)]
         /\ \A k \in Kinds : /\ Written(logs[k]) \subseteq Written(logs'[k])
                             /\ Len(logs'[k]) >= Len(logs[k])
                             /\ \A i \in 1 .. Len(logs[k]) :
                                  logs[k][i].ended => logs'[k][i] = logs[k][i]
         /\ Head(queue[p]).rec \in Written(logs'[Head(queue[p]).kind])
<1>. DEFINE w == Head(queue[p])
            text == LineText(w.rec, cut)
            new == Put(logs[w.kind], w.rec, text, ended)
<1>1. w \in Write /\ w.kind \in Kinds /\ w.rec \in Records
  <2>1. queue[p] \in Seq(Write)
    BY DEF LogTypeOK
  <2>2. w \in Write
    BY <2>1
  <2>. QED BY <2>2 DEF Write
<1>2. text \in Texts
  BY LineTextType
<1>3. logs[w.kind] \in Seq(Line)
  BY <1>1 DEF LogTypeOK
<1>4. new \in Seq(Line)
  BY <1>1, <1>2, <1>3, PutType
<1>5. /\ Len(new) >= Len(logs[w.kind])
      /\ \A i \in 1 .. Len(logs[w.kind]) : logs[w.kind][i].ended => new[i] = logs[w.kind][i]
  BY <1>3, PutHistory
<1>6. Written(logs[w.kind]) \cup {w.rec} \subseteq Written(new)
  BY <1>3, PutWritten
<1>7. logs' = [logs EXCEPT ![w.kind] = new]
  OBVIOUS
<1>8. logs \in [Kinds -> Seq(Line)]
  BY DEF LogTypeOK
<1>9. logs' \in [Kinds -> Seq(Line)]
  BY <1>4, <1>7, <1>8
<1>10. logs'[w.kind] = new /\ \A k \in Kinds : k # w.kind => logs'[k] = logs[k]
  BY <1>1, <1>7, <1>8
<1>11. \A k \in Kinds : Len(logs[k]) \in Nat
  BY <1>8
<1>. HIDE DEF new, text, w
<1>12. ASSUME NEW k \in Kinds
       PROVE  /\ Written(logs[k]) \subseteq Written(logs'[k])
              /\ Len(logs'[k]) >= Len(logs[k])
              /\ \A i \in 1 .. Len(logs[k]) :
                   logs[k][i].ended => logs'[k][i] = logs[k][i]
  <2>1. CASE k = w.kind
    BY <2>1, <1>5, <1>6, <1>10
  <2>2. CASE k # w.kind
    BY <2>2, <1>10, <1>11
  <2>. QED BY <2>1, <2>2
<1>13. w.rec \in Written(logs'[w.kind])
  BY <1>6, <1>10
<1>. QED BY <1>1, <1>9, <1>12, <1>13 DEF w

\* What deleting a line by hand does.
LEMMA DeleteStep ==
  ASSUME LogTypeOK, NEW k \in Kinds, NEW i, DeleteLine(k, i)
  PROVE  /\ logs' \in [Kinds -> Seq(Line)]
         /\ dropped' \in [Kinds -> SUBSET Records]
         /\ Len(logs'[k]) = Len(logs[k]) - 1
         /\ Written(logs[k]) \subseteq Written(logs'[k]) \cup dropped'[k]
         /\ dropped[k] \subseteq dropped'[k]
         /\ \A j \in Kinds : j # k => logs'[j] = logs[j] /\ dropped'[j] = dropped[j]
<1>. DEFINE new == Without(logs[k], i)
<1>1. i \in 1 .. Len(logs[k]) /\ logs[k] \in Seq(Line) /\ logs[k][i] \in Line
  BY DEF LogTypeOK, DeleteLine
<1>2. /\ new \in Seq(Line)
      /\ Len(new) = Len(logs[k]) - 1
      /\ Written(logs[k]) \subseteq Written(new) \cup logs[k][i].recs
  BY <1>1, WithoutFacts
<1>3. logs' = [logs EXCEPT ![k] = new]
  BY DEF DeleteLine
<1>4. dropped' = [dropped EXCEPT ![k] = @ \cup logs[k][i].recs]
  BY DEF DeleteLine
<1>5. logs[k][i].recs \subseteq Records
  BY <1>1 DEF Line
<1>. HIDE DEF new
<1>6. logs' \in [Kinds -> Seq(Line)] /\ logs'[k] = new
  BY <1>2, <1>3 DEF LogTypeOK
<1>7. dropped' \in [Kinds -> SUBSET Records]
  BY <1>4, <1>5 DEF LogTypeOK
<1>8. dropped'[k] = dropped[k] \cup logs[k][i].recs
  BY <1>4 DEF LogTypeOK
<1>9. \A j \in Kinds : j # k => logs'[j] = logs[j] /\ dropped'[j] = dropped[j]
  BY <1>3, <1>4 DEF LogTypeOK
<1>. QED BY <1>2, <1>6, <1>7, <1>8, <1>9

\* The logs are empty at first.
LEMMA LogInitInv == LogInit => LogInv
<1>. SUFFICES ASSUME LogInit PROVE LogInv
  OBVIOUS
<1>1. LogTypeOK
  BY DEF LogInit, LogTypeOK
<1>2. AckedRetained
  BY DEF LogInit, AckedRetained
<1>. QED BY <1>1, <1>2 DEF LogInv

\* A process that takes records to append changes no log.
LEMMA BeginInv ==
  ASSUME LogInv, NEW p \in Procs, NEW batch \in Seq(Write), Begin(p, batch)
  PROVE  LogInv'
<1>1. LogTypeOK'
  BY DEF LogInv, LogTypeOK, Begin
<1>2. AckedRetained'
  BY DEF LogInv, AckedRetained, Begin
<1>. QED BY <1>1, <1>2 DEF LogInv

\* A whole append (append_jsonl) keeps the invariant.
LEMMA AppendInv ==
  ASSUME LogInv, NEW p \in Procs, AppendRecord(p)
  PROVE  LogInv'
<1>. DEFINE w == Head(queue[p])
<1>1. LogTypeOK /\ queue[p] # <<>> /\ queue[p] \in Seq(Write)
  BY DEF LogInv, AppendRecord, LogTypeOK
<1>2. logs' = [logs EXCEPT ![w.kind] = Put(@, w.rec, LineText(w.rec, "json"), TRUE)]
  BY DEF AppendRecord, PutWhole
<1>3. "json" \in Texts
  BY DEF Texts
<1>4. /\ w \in Write
      /\ logs' \in [Kinds -> Seq(Line)]
      /\ \A k \in Kinds : Written(logs[k]) \subseteq Written(logs'[k])
      /\ w.rec \in Written(logs'[w.kind])
  BY <1>1, <1>2, <1>3, PutStep
<1>5. acked' = [acked EXCEPT ![w.kind] = @ \cup {w.rec}]
  BY DEF AppendRecord
<1>6. UNCHANGED <<dropped, torn>> /\ queue' = [queue EXCEPT ![p] = Tail(@)]
  BY DEF AppendRecord
<1>. HIDE DEF w
<1>7. w.kind \in Kinds /\ w.rec \in Records
  BY <1>4 DEF Write
<1>8. acked' \in [Kinds -> SUBSET Records]
  BY <1>1, <1>5, <1>7 DEF LogTypeOK
<1>9. queue' \in [Procs -> Seq(Write)]
  BY <1>1, <1>6 DEF LogTypeOK
<1>10. LogTypeOK'
  BY <1>1, <1>4, <1>6, <1>8, <1>9 DEF LogTypeOK
<1>11. ASSUME NEW k \in Kinds, NEW r \in acked'[k]
       PROVE  r \in Written(logs'[k]) \cup dropped'[k]
  <2>1. CASE r \in acked[k]
    BY <2>1, <1>4, <1>6 DEF LogInv, AckedRetained
  <2>2. CASE r \notin acked[k]
    <3>1. k = w.kind /\ r = w.rec
      BY <2>2, <1>1, <1>5 DEF LogTypeOK
    <3>. QED BY <3>1, <1>4
  <2>. QED BY <2>1, <2>2
<1>12. AckedRetained'
  BY <1>11 DEF AckedRetained
<1>. QED BY <1>10, <1>12 DEF LogInv

\* An append that stops in the middle keeps the invariant.
LEMMA TearInv ==
  ASSUME LogInv, NEW p \in Procs, NEW cut \in Cuts, TearAppend(p, cut)
  PROVE  LogInv'
<1>. DEFINE w == Head(queue[p])
<1>1. LogTypeOK /\ queue[p] # <<>> /\ cut \in Texts
  BY CutsAssumption DEF LogInv, TearAppend
<1>2. logs' = [logs EXCEPT ![w.kind] = Put(@, w.rec, LineText(w.rec, cut), FALSE)]
  BY DEF TearAppend, PutPrefix
<1>3. /\ logs' \in [Kinds -> Seq(Line)]
      /\ \A k \in Kinds : Written(logs[k]) \subseteq Written(logs'[k])
  BY <1>1, <1>2, PutStep
<1>4. /\ UNCHANGED <<acked, dropped>> /\ torn' = torn + 1
      /\ queue' = [queue EXCEPT ![p] = <<>>]
  BY DEF TearAppend
<1>5. LogTypeOK'
  BY <1>1, <1>3, <1>4 DEF LogTypeOK
<1>6. AckedRetained'
  BY <1>3, <1>4 DEF LogInv, AckedRetained
<1>. QED BY <1>5, <1>6 DEF LogInv

\* A process that gives up what it had to append changes no log.
LEMMA AbandonInv ==
  ASSUME LogInv, NEW p \in Procs, Abandon(p)
  PROVE  LogInv'
<1>1. LogTypeOK'
  BY DEF LogInv, LogTypeOK, Abandon
<1>2. AckedRetained'
  BY DEF LogInv, AckedRetained, Abandon
<1>. QED BY <1>1, <1>2 DEF LogInv

\* A line deleted by hand keeps the invariant.
LEMMA DeleteInv ==
  ASSUME LogInv, NEW k \in Kinds, NEW i, DeleteLine(k, i)
  PROVE  LogInv'
<1>1. LogTypeOK /\ UNCHANGED <<queue, acked, torn>>
  BY DEF LogInv, DeleteLine
<1>2. /\ logs' \in [Kinds -> Seq(Line)]
      /\ dropped' \in [Kinds -> SUBSET Records]
      /\ Written(logs[k]) \subseteq Written(logs'[k]) \cup dropped'[k]
      /\ dropped[k] \subseteq dropped'[k]
      /\ \A j \in Kinds : j # k => logs'[j] = logs[j] /\ dropped'[j] = dropped[j]
  BY <1>1, DeleteStep
<1>3. LogTypeOK'
  BY <1>1, <1>2 DEF LogTypeOK
<1>4. ASSUME NEW j \in Kinds
      PROVE  acked'[j] \subseteq Written(logs'[j]) \cup dropped'[j]
  <2>1. acked[j] \subseteq Written(logs[j]) \cup dropped[j]
    BY DEF LogInv, AckedRetained
  <2>2. CASE j = k
    BY <2>1, <2>2, <1>1, <1>2
  <2>3. CASE j # k
    BY <2>1, <2>3, <1>1, <1>2
  <2>. QED BY <2>2, <2>3
<1>5. AckedRetained'
  BY <1>4 DEF AckedRetained
<1>. QED BY <1>3, <1>5 DEF LogInv

\* The invariant is inductive.
LEMMA LogNextInv == LogInv /\ [LogNext]_logVars => LogInv'
<1>. SUFFICES ASSUME LogInv, [LogNext]_logVars PROVE LogInv'
  OBVIOUS
<1>1. ASSUME NEW p \in Procs, NEW batch \in Seq(Write), Begin(p, batch) PROVE LogInv'
  BY <1>1, BeginInv
<1>2. ASSUME NEW p \in Procs, AppendRecord(p) PROVE LogInv'
  BY <1>2, AppendInv
<1>3. ASSUME NEW p \in Procs, NEW cut \in Cuts, TearAppend(p, cut) PROVE LogInv'
  BY <1>3, TearInv
<1>4. ASSUME NEW p \in Procs, Abandon(p) PROVE LogInv'
  BY <1>4, AbandonInv
<1>5. ASSUME NEW k \in Kinds, NEW i \in Nat, DeleteLine(k, i) PROVE LogInv'
  BY <1>5, DeleteInv
<1>6. CASE UNCHANGED logVars
  BY <1>6 DEF LogInv, LogTypeOK, AckedRetained, logVars
<1>. QED BY <1>1, <1>2, <1>3, <1>4, <1>5, <1>6 DEF LogNext

----------------------------------------------------------------------------
(* The theorems.                                                           *)

\* Every file is at all times a sequence of lines over the records.
THEOREM LogTypeCorrect == LogSpec => []LogTypeOK
<1>1. LogInv => LogTypeOK
  BY DEF LogInv
<1>. QED BY <1>1, LogInitInv, LogNextInv, PTL DEF LogSpec

\* Whatever the processes append, in whatever order, and wherever an append is
\* cut short, the bytes of an acknowledged record stay in its file.
THEOREM AckedAreRetained == LogSpec => []AckedRetained
<1>1. LogInv => AckedRetained
  BY DEF LogInv
<1>. QED BY <1>1, LogInitInv, LogNextInv, PTL DEF LogSpec

\* integrity() is never clean over a file an acknowledged record is missing
\* from: the silent loss ADR-0037 rules out cannot happen at this layer.
THEOREM LossesAreReported == LogSpec => []LossIsReported
<1>1. LogInv => LossIsReported
  <2>. SUFFICES ASSUME LogInv, NEW k \in Kinds, Clean(logs[k]),
                       NEW r \in acked[k], r \notin dropped[k]
                PROVE  r \in Parsed(logs[k])
    BY DEF LossIsReported
  <2>1. r \in Written(logs[k])
    BY DEF LogInv, AckedRetained
  <2>2. PICK l \in LinesOf(logs[k]) : r \in l.recs
    BY <2>1 DEF Written
  <2>3. l.text = "json"
    BY DEF Clean
  <2>. QED BY <2>2, <2>3 DEF Parsed
<1>. QED BY <1>1, LogInitInv, LogNextInv, PTL DEF LogSpec

\* A complete line is never rewritten or moved by an append.
THEOREM HistoryStaysFixed == LogSpec => HistoryIsFixed
<1>. DEFINE Fixed == \A k \in Kinds :
              Len(logs'[k]) >= Len(logs[k]) =>
                \A i \in 1 .. Len(logs[k]) : logs[k][i].ended => logs'[k][i] = logs[k][i]
<1>1. LogTypeOK /\ [LogNext]_logVars => [Fixed]_logs
  <2>. SUFFICES ASSUME LogTypeOK, LogNext PROVE Fixed \/ UNCHANGED logs
    BY DEF logVars
  <2>1. ASSUME NEW p \in Procs, AppendRecord(p) PROVE Fixed
    <3>1. queue[p] # <<>>
      BY <2>1 DEF AppendRecord
    <3>2. logs' = [logs EXCEPT ![Head(queue[p]).kind] =
              Put(@, Head(queue[p]).rec, LineText(Head(queue[p]).rec, "json"), TRUE)]
      BY <2>1 DEF AppendRecord, PutWhole
    <3>. QED BY <3>1, <3>2, PutStep DEF Texts
  <2>2. ASSUME NEW p \in Procs, NEW cut \in Cuts, TearAppend(p, cut) PROVE Fixed
    <3>1. queue[p] # <<>> /\ cut \in Texts
      BY <2>2, CutsAssumption DEF TearAppend
    <3>2. logs' = [logs EXCEPT ![Head(queue[p]).kind] =
              Put(@, Head(queue[p]).rec, LineText(Head(queue[p]).rec, cut), FALSE)]
      BY <2>2 DEF TearAppend, PutPrefix
    <3>. QED BY <3>1, <3>2, PutStep
  <2>3. ASSUME NEW k \in Kinds, NEW i, DeleteLine(k, i) PROVE Fixed
    <3>1. Len(logs'[k]) = Len(logs[k]) - 1
      BY <2>3, DeleteStep
    <3>2. \A j \in Kinds : j # k => logs'[j] = logs[j]
      BY <2>3, DeleteStep
    <3>3. Len(logs[k]) \in Nat
      BY DEF LogTypeOK
    <3>. QED BY <3>1, <3>2, <3>3
  <2>4. ASSUME NEW p \in Procs, (\E batch \in Seq(Write) : Begin(p, batch)) \/ Abandon(p)
        PROVE  UNCHANGED logs
    BY <2>4 DEF Begin, Abandon
  <2>. HIDE DEF Fixed
  <2>. QED BY <2>1, <2>2, <2>3, <2>4 DEF LogNext
<1>. QED BY <1>1, LogTypeCorrect, PTL DEF LogSpec, HistoryIsFixed
=============================================================================
